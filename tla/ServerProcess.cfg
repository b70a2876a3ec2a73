SPECIFICATION ProcessFairSpec
CONSTANTS
    Token = {t1, t2}
    Window = 3
    Retain = 6
    Skews <- MCSkews
    MaxTime = 7
    MaxServers = 2
    MaxEdits = 2
    Invalid = {1}
CHECK_DEADLOCK FALSE
INVARIANTS
    ProcessTypeOK
    AcceptedOnce
PROPERTIES
    Restarts
