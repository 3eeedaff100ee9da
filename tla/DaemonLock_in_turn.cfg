CONSTANTS
    p1 = p1
    p2 = p2
    p3 = p3
    Nobody = Nobody
    Procs = {p1, p2, p3}
    Forced = {p2}
    Denied <- ThirdByFirst
    Hindered = {p3}
    OneAtATime = TRUE
SPECIFICATION Spec
CHECK_DEADLOCK FALSE
INVARIANTS
    TypeOK
    AtMostOneRuns
    RunnerHoldsLock
    LoneStartSucceeds
