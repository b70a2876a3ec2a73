SPECIFICATION FairSpec
CONSTANTS
    Conn = {c1, c2}
    Req = {r1, r2}
    NoConn = NoConn
    MinSize = 0
    MaxSize = 1
    MaxIdle = 1
    Releases = 1
    Events = {"connectFails", "queryFails", "destroyBorrowed"}
INVARIANTS
    NoLostWakeUp
PROPERTIES
    RequestsSettle
