\* Threads that fail, and what the gate is worth while handlers behind it and beside it write.
SPECIFICATION FairSpec
CONSTANTS
    Cap = 1
    Conns = 1
    Failures = TRUE
CHECK_DEADLOCK FALSE
INVARIANTS
    TypeOK
    PairsOutliveThreads
    TurnHasRoom
    BlockedForAReason
PROPERTIES
    ShutdownEnds
    WriteEnds
