\* Two requests of each part; one page with two requests under way and two sessions.
CONSTANTS
    UserIds = {u1, u2}
    FirstAdmins = {u1}
    UserCalls = {c1, c2}
    GuardTtl = 1
    MaxVersion = 1
    Addresses = {a1, a2}
    Logins = {l1, l2}
    MaxFailures = 2
    LockTime = 2
    TotpCalls = {t1, t2}
    BackupCodes = {b1, b2}
    MaxSecrets = 3
    MaxBatches = 2
    SettingsCalls = {s1, s2}
    Intervals = {i1, i2}
    SettingsTtl = 1
    MaxPuts = 2
    Readers = {r1, r2}
    DockerTtl = 1
    DockerTimeout = 1
    MaxAsks = 2
    MaxChanges = 1
    WebRequests = {x1, x2}
    MaxSessions = 2
SPECIFICATION AccessSpec
INVARIANTS AccessTypeOK SettingsTakeEffect DockerIsFollowed
PROPERTIES RightsHold LockoutHolds CodesHold SignInIsTrue
CHECK_DEADLOCK FALSE
