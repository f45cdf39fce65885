\* A manual and a scheduled update, on the objects of their modules.
CONSTANTS
    Applies = {a1, a2}
    Checks = {k1}
    Objects = {manual, scheduled}
    Kinds = {"service"}
    MaxDigest = 2
    ApplyFaults = FALSE
SPECIFICATION Spec
INVARIANT OneApplyPerContainer
CHECK_DEADLOCK FALSE
