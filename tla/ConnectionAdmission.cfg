SPECIFICATION Spec
CONSTANTS
    c1 = c1
    c2 = c2
    c3 = c3
    c4 = c4
    c5 = c5
    Conn <- MCConn
    Configured = 3
    MaxConn = 3
    MaxHandshakes = 2
    Workers = 1
    AppCapacity = 1
SYMMETRY Connections
INVARIANTS
    ReserveSuffices
    ConnectionsBounded
    CleanupsCounted
    AcceptorLives
CHECK_DEADLOCK FALSE
