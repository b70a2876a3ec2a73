SPECIFICATION Spec
CONSTANTS
    Conn = {c1, c2, c3}
    Req = {r1, r2, r3}
    NoConn = NoConn
    MinSize = 1
    MaxSize = 2
    MaxIdle = 1
    Releases = 1
    Events = {"createFails", "connectFails", "queryFails", "stop", "acquireTimeout", "borrowTimeout", "destroyBorrowed"}
SYMMETRY Symmetry
INVARIANTS
    TypeOK
    PoolSizeBounded
    OnePlaceAtMost
    NoOrphans
    NoZombies
    TimersFollowLoans
    RequestsAccounted
PROPERTIES
    KeepsPromise
