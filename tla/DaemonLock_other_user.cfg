CONSTANTS
    p1 = p1
    p2 = p2
    p3 = p3
    Nobody = Nobody
    Procs = {p1, p2}
    Forced = {}
    Denied <- Others
    Hindered = {p2}
    OneAtATime = TRUE
SPECIFICATION Spec
CHECK_DEADLOCK FALSE
INVARIANTS
    RunnersAreOwners
