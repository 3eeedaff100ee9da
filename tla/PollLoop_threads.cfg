CONSTANTS
    c1 = c1
    c2 = c2
    c3 = c3
    Conns = {c1, c2, c3}
    MaxClients = 2
    Nobody = Nobody
SPECIFICATION Spec
SYMMETRY ConnSymmetry
CHECK_DEADLOCK FALSE
INVARIANTS
    TypeOK
    ArrayInOrder
PROPERTIES
    GateFallsByLateArrival
    OpenConnsStayPolled
