SPECIFICATION FairSpec
CONSTANTS
    Conn = {c1}
    Session = {s1, s2}
    Post = {p1}
    Check = {h1}
    Message = {m1}
    NoConn = NoConn
    Pool = Pool
    Release = Release
    Events = {"queryFails", "borrowTimeout", "sendFails", "stop"}
CHECK_DEADLOCK FALSE
INVARIANTS
    TypeOK
    ReleasedOnce
    Isolated
PROPERTIES
    LentToOne
    GivenBack
    MessagesAnswered
