SPECIFICATION Spec
CONSTANTS
    d1 = d1
    d2 = d2
    k2 = k2
    c1 = c1
    c2 = c2
    c3 = c3
    nobody = nobody
    noconn = noconn
    Device <- MCDevice
    Clone <- MCClone
    Temporary = {}
    Owner <- MCOwner
    Conn <- MCConn
    NoUser = nobody
    NoConn = noconn
SYMMETRY Connections
INVARIANTS
    TablesAgree
    RestoredSettled
    SignalsStayInRoom
    SignalsAnswerable
    NoAbandonedRoom
PROPERTIES
    CleanupTouchesOnlyItself
    AccessRules
CHECK_DEADLOCK FALSE
