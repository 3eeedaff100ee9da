CONSTANTS
    k1 = k1
    k2 = k2
    Sessions = {k1, k2}
    Fd = {0, 1, 2, 3, 4}
    MaxUnits = 1
    MaxTalkers = 1
    MaxLeavers = 4
    MaxBody = 1
    Recycle = TRUE
SPECIFICATION Spec
CHECK_DEADLOCK FALSE
INVARIANTS
    Isolation
