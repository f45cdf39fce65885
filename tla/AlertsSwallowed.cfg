\* Two containers whose names differ in their number.
CONSTANTS
    HostStems = {cache}
    ContainerStems = {web}
    CacheStem = cache
    Numbers = {n1, n2}
    HealthChecks = {h1}
    AlertCooldown = 2
SPECIFICATION AlertsSpec
INVARIANT NoAlertSwallowed
CHECK_DEADLOCK FALSE
