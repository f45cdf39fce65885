\* A double click.
CONSTANTS
    Clicks = {c1, c2}
    MaxRevision = 3
    VersionOf <- MCVersionOf
    Installed = 1
    Watched = {38}
SPECIFICATION SelfUpdateSpec
PROPERTY NoParallelStart
CHECK_DEADLOCK FALSE
