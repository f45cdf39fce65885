\* Four calls on two projects; two updates of one container beside a check, up to three
\* images; two clicks and three commits; one page of each kind with two requests on their
\* way, a change and a mishap. Anything may fail.
CONSTANTS
    Calls = {c1, c2, c3, c4}
    Keys = {k1, k2}
    NoCall = NoCall
    Applies = {a1, a2}
    Checks = {k1}
    Objects = {manual}
    Kinds = {"service", "project", "standalone"}
    MaxDigest = 3
    ApplyFaults = TRUE
    Clicks = {l1, l2}
    MaxRevision = 3
    VersionOf <- MCVersionOf
    Installed = 1
    Watched = {38, 90}
    ListKinds = {"containers", "compose", "images", "volumes", "updates", "backups"}
    LoadIds = {q1, q2}
    MaxBulk = 2
    MaxListed = 1
    MaxMishaps = 1
    BrowseNames = {v1, v2}
SPECIFICATION LivenessSpec
INVARIANTS LivenessTypeOK MutualExclusion OneApplyPerContainer
PROPERTIES ServesInOrder ReportIsTrue EveryApplyEnds
           UpdatesHold HungUpdaterEnds PageIsTrue ListCatchesUp
CHECK_DEADLOCK FALSE
