SPECIFICATION Spec
CONSTANTS
    NumBases = 16
    Incs = {3}
    Sizes = {3, 4}
    SaveArea = 3
    MaxCalls = 8
INVARIANT CallEffect
CHECK_DEADLOCK FALSE
