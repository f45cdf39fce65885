\* An update, rolled back, and the next one.
CONSTANTS
    Applies = {a1, a2}
    Checks = {k1, k2}
    Objects = {manual}
    Kinds = {"service"}
    MaxDigest = 2
    ApplyFaults = FALSE
SPECIFICATION Spec
PROPERTY SuccessRunsOffer
CHECK_DEADLOCK FALSE
