\* Two backup jobs on a file and a volume, two prunings of a table of two rows, three records
\* of the lifetime statistics; a page on a project with two env files; a desktop of two
\* containers, a link and two departments; three departments that grow; two
\* runs of the healthcheck with one measurement and one group of containers; two plugins and
\* three workers.
CONSTANTS
    Files = {f1}
    Volumes = {v1}
    Archives = {x1}
    BackupJobs = {j1, j2}
    Settings = settings
    MaxEdits = 2
    Pruners = {p1, p2}
    MaxRows = 2
    MaxRowIds = 5
    Recorders = {r1, r2, r3}
    MaxRecords = 4
    EnvFiles = {".env", "media.env"}
    ReadIds = {q1, q2}
    MaxTexts = 2
    MaxReloads = 1
    SecureContext = TRUE
    ContainerNames <- TwoContainers
    LinkKeys <- OneLink
    DepartmentIds = {"d1", "d2"}
    Frames = {1, 2, 3}
    Tops = {0, 1, 3, 4, 6}
    Heights = {2, 3}
    ContentHeights = {0, 4, 7}
    HostStems = {cache}
    ContainerStems = {web}
    CacheStem = cache
    Numbers = {n1, n2}
    HealthChecks = {h1, h2}
    AlertCooldown = 1
    PluginDirs = {p1, p2}
    PluginCalls = {k1, k2}
    PluginWorkers = {w1, w2, w3}
    MaxToggles = 2
SYMMETRY BackupJobSymmetry
SPECIFICATION MaintenanceSpec
INVARIANTS MaintenanceTypeOK RecordsCounted FitIsExact NoRepeatedAlert PluginsAsAsked
PROPERTIES RestoreIsTrue NewestRowsKept SaveReplacesItsOrigin AppsKeepTheirPlaces
CHECK_DEADLOCK FALSE
