SPECIFICATION FairSpec
CONSTANTS
    Conn = {c1, c2}
    Query = {q1, q2}
    Whatwg = {c2}
    Events = {"openFails", "destroy", "sendThrows", "error", "drop", "odd", "stuck"}
CHECK_DEADLOCK FALSE
INVARIANTS
    TypeOK
    Correlated
PROPERTIES
    QueriesSettle
