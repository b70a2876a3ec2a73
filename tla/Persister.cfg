SPECIFICATION SearchSpec
CONSTANTS
    Column <- MCColumn
    Key = "k"
    Text = "v"
    Sorts <- MCSorts
    Offsets = {0, 1}
    Limits = {0, 1, 2}
    Objects <- MCObjects
    Searches <- MCSearches
    Meanwhile <- MCMeanwhile
    Other <- MCOther
    MaxRows = 2
CHECK_DEADLOCK FALSE
INVARIANTS
    ModelsFaithful
    PageOfOneMoment
