SPECIFICATION FairSpec
CONSTANTS
    N = 3
    Configured = {0, 2}
    Half = 4
    Lens = {12}
    Lists <- MCLists
    MaxLat = 1
    Cost = 1
    MaxCalls = 1
    MaxOthers = 1
    MaxLost = 1
CHECK_DEADLOCK FALSE
INVARIANTS SetReturned AbortsOwn Isolated
PROPERTY CallEnds
