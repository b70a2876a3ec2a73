SPECIFICATION FairSpec
CONSTANTS
    Query = {q1, q2, q3}
    NoQuery = NoQuery
CHECK_DEADLOCK FALSE
INVARIANTS
    TypeOK
    OneInFlight
    ClosedForGood
    QueueAwake
PROPERTIES
    SettlesInOrder
    QueriesSettle
