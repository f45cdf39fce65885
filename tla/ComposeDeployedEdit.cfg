\* An edit and a pinned recreate, served by two objects as deployed.
CONSTANTS
    Calls = {c1, c2}
    Keys = {editor, updates, scheduler}
    NoCall = NoCall
    Services = {web, db}
    Images = {v1, v2, digest}
    Absent = Absent
    None = None
    Torn = Torn
    NoBase = NoBase
    Ops = {"updateYaml", "recreatePinned"}
    HolderOf <- AsDeployed
    InitialYaml <- MCInitialYaml
    EditImages = {v2}
    PinImages = {digest}
    FaultySites = {}
    Crashes = FALSE
    web = web
    db = db
    v1 = v1
    v2 = v2
    digest = digest
    editor = editor
    updates = updates
    scheduler = scheduler
SPECIFICATION ComposeSpec
INVARIANT SavedOnDisk
CHECK_DEADLOCK FALSE
