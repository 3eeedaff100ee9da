CONSTANTS
    term = term
    int = int
    client = client
    server = server
    Unset = Unset
    Signals = {term, int}
    Logics = {client, server}
    Starts <- AllStarts
SPECIFICATION Spec
CHECK_DEADLOCK FALSE
INVARIANTS
    TypeOK
    CommandLineWins
    FileLeftExplained
    NoJumpAfterMain
    ProxyOutlivesThreads
PROPERTY
    StopSignalEnds
