SPECIFICATION FairSpec
CONSTANTS
    Job = {j1, j2, j3}
    Sources = 2
    Workers = 1
    Capacity = 2
    SourceCapacity = 2
    Timeout = 2
    Delay = {1}
    MaxTime = 3
PROPERTIES
    EveryRequestEnds
CHECK_DEADLOCK FALSE
