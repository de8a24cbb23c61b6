SPECIFICATION HSpec
CONSTANTS
    j1 = j1
    j2 = j2
    j3 = j3
    j4 = j4
    Job <- MCFour
    Sources = 3
    Workers = 2
    Capacity = 3
    SourceCapacity = 2
    Timeout = 2
    Delay <- MCDelay
    MaxTime = 3
SYMMETRY Requests
INVARIANTS
    QueueSound
PROPERTIES
    RoundRobin
    ServiceKept
CHECK_DEADLOCK FALSE
