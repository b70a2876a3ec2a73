SPECIFICATION FairSpec
CONSTANTS
    Migrator = {"m1", "m2", "m3"}
    Release <- MCRelease
    Group <- MCGroup
    MaxRuns = 3
    Events = {"contentsFail", "disconnect", "borrowTimeout"}
CHECK_DEADLOCK FALSE
INVARIANTS
    Recorded
    Migrated
PROPERTIES
    Ends
