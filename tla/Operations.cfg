\* Two calls of any operation, all served by one ComposeService object; one
\* job of the scheduler, two updates of it that may cross, and two runs; two calls that
\* create or remove a project in one folder; two updates of Docker on the host; a terminal.
CONSTANTS
    Calls = {c1, c2}
    Keys = {editor}
    NoCall = NoCall
    Services = {web, db}
    Images = {v1, v2, digest}
    Absent = Absent
    None = None
    Torn = Torn
    NoBase = NoBase
    Ops = {"updateYaml", "updateEnvFile", "recreatePinned", "removeService", "addService", "remove", "runAction"}
    HolderOf <- OneObject
    InitialYaml <- MCInitialYaml
    EditImages = {v2}
    PinImages = {digest}
    FaultySites = {"tmp", "yaml", "env", "bak", "pin", "restore", "drop", "undo", "add"}
    Crashes = TRUE
    web = web
    db = db
    v1 = v1
    v2 = v2
    digest = digest
    editor = editor
    updates = updates
    scheduler = scheduler
    Jobs = {backup}
    Crons = {daily, weekly}
    Invalid = invalid
    Keep = keep
    NoCronTask = none
    Updates = {u1, u2}
    Runs = {r1, r2}
    NumNames = 2
    ScanIds = {q1}
    DiscoveryTtl = 1
    MaxChanges = 2
    MaxHostCalls = 2
    MaxApiStarts = 1
    IdleTicks = 2
    MaxMessages = 1
SPECIFICATION OperationsSpec
INVARIANTS OperationsTypeOK SavedOnDisk NoOverlap NothingAfterStop TasksAreTheRows NothingLeft
PROPERTIES UserTextKept EveryCallReturns CreationIsExact HostUpdateIsTrue
CHECK_DEADLOCK FALSE
