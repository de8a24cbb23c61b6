SPECIFICATION Spec
CONSTANTS
    c1 = c1
    c2 = c2
    w1 = w1
    w2 = w2
    Conn <- MCPair
    Worker = {w1}
    MaxPending = 2
    DeferredLimit = 1
    AppCapacity = 2
    Millis = {1}
    MaxMessage <- Three
INVARIANTS
    CountsExact
    DeadlineCovers
    WorkerReady
    NothingRetained
PROPERTIES
    InOrder
    ServiceKept
CHECK_DEADLOCK FALSE
