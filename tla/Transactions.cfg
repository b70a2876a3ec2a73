SPECIFICATION FairSpec
CONSTANTS
    User = {u1, u2}
    Conn = {c1}
    NoConn = NoConn
    Calls = 2
    Events = {"queryFails", "connectionBreaks", "borrowTimeout", "drop"}
INVARIANTS
    TypeOK
    CleanHandover
    NoLostWrite
    NothingUnasked
    BelievedTransaction
PROPERTIES
    GivenBack
