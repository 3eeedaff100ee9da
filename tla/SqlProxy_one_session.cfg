CONSTANTS
    k1 = k1
    k2 = k2
    Sessions = {k1}
    Fd = {0, 1, 2}
    MaxUnits = 2
    MaxTalkers = 2
    MaxLeavers = 2
    MaxBody = 2
    Recycle = TRUE
SPECIFICATION FairSpec
CHECK_DEADLOCK FALSE
INVARIANTS
    TypeOK
    InOrder
    FlushListHasData
    OrphanServerIsTold
    OrphanClientIsTold
    PolledAreKnown
    WaitersHaveClient
PROPERTIES
    QueuedIsKept
    SessionsEnd
    FlushesEnd
    PairingResolves
