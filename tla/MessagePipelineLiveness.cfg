SPECIFICATION FairSpec
CONSTANTS
    c1 = c1
    c2 = c2
    w1 = w1
    w2 = w2
    Conn <- MCPair
    Worker = {w1}
    MaxPending = 2
    DeferredLimit = 1
    AppCapacity = 1
    Millis = {1}
    MaxMessage <- Two
PROPERTIES
    EveryMessageEnds
CHECK_DEADLOCK FALSE
