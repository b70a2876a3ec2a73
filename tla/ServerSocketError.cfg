SPECIFICATION Spec
CONSTANTS
    Conn = {c1}
    Session = {s1, s2}
    Post = {}
    Check = {}
    Message = {m1}
    NoConn = NoConn
    Pool = Pool
    Release = Release
    Events = {"socketError"}
CHECK_DEADLOCK FALSE
INVARIANTS
    Exclusive
