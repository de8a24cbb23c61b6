SPECIFICATION Spec
CONSTANTS
    d1 = d1
    c1 = c1
    c2 = c2
    k1 = k1
    k2 = k2
    p1 = p1
    p2 = p2
    r1 = r1
    nobody = nobody
    nokey = nokey
    norecord = norecord
    Device = {d1}
    Conn <- TwoConns
    Key <- TwoKeys
    Password <- TwoPasswords
    Request = {r1}
    CacheLimit = 1
    Source <- OneSource
    NoUser = nobody
    NoKey = nokey
    NoRecord = norecord
    Salt <- MCSalt
SYMMETRY Interchangeable
INVARIANTS
    AccessProved
    TokensCurrent
    RetriesAgree
PROPERTIES
    CredentialsOwned
    StoreKept
