CONSTANTS
    k1 = k1
    k2 = k2
    Sessions = {k1}
    Fd = {0, 1, 2}
    MaxUnits = 2
    MaxTalkers = 2
    MaxLeavers = 2
    MaxBody = 2
    Recycle = TRUE
SPECIFICATION Spec
CHECK_DEADLOCK FALSE
INVARIANTS
    RecordsNameServers
