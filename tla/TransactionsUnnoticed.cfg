SPECIFICATION Spec
CONSTANTS
    User = {u1, u2}
    Conn = {c1}
    NoConn = NoConn
    Calls = 1
    Events = {"drop", "unnoticed"}
CHECK_DEADLOCK FALSE
INVARIANTS
    CleanHandover
