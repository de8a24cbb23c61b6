SPECIFICATION Spec
CONSTANTS
    d1 = d1
    k1 = k1
    w1 = w1
    c1 = c1
    c2 = c2
    Device = {d1}
    Clone = {k1}
    Owner <- CloneOfDevice
    Temporary = {w1}
    Conn <- TwoConns
    Session <- GuestJoins
    Subject = {w1}
    Retention = 1
    Window = 0
    Horizon = 2
    Batch = 1
    NoUser = nobody
    NoConn = noconn
    Missing = missing
    Online = isonline
    Routed = routed
    Ticketed = ticketed
SYMMETRY Interchangeable
INVARIANTS
    OnlineExact
PROPERTIES
    RetentionSpares
    ShutdownKeepsSessions
