SPECIFICATION FairRecoverySpec
CONSTANTS
    d1 = d1
    k1 = k1
    c1 = c1
    c2 = c2
    c3 = c3
    nobody = nobody
    noconn = noconn
    Device <- MCDevice
    Clone <- MCClone
    Temporary = {}
    Owner <- MCOwner
    Conn <- MCPair
    NoUser = nobody
    NoConn = noconn
    ProvedKey = {nobody}
    MaxToken = 2
    MaxCrash = 2
PROPERTIES
    RecoveryEnds
CHECK_DEADLOCK FALSE
