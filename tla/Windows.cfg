SPECIFICATION Spec
CONSTANTS
    NumBases = 16
    Incs = {2}
    Sizes = {2, 3}
    SaveArea = 2
    MaxCalls = 8
INVARIANTS WindowStartTruth CallEffect
PROPERTY ImplementsCallStack
CHECK_DEADLOCK FALSE
