SPECIFICATION CodecsSpec
CONSTANTS
    Objects = {"a", "b", "leaf"}
    Contents <- MCContents
    MaxChanges = 1
INVARIANT
    RoundTrip
