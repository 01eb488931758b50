CONSTANTS
    ByteMod = 16
    MaxIter = 3
    CodeBase = 16448
    DataBase = 512
    InitialSp = 1424
    MaxSteps = 140
    Programs <- MCPrograms
SPECIFICATION Spec
INVARIANTS
    LeastLong
    NoPanic
PROPERTIES
    ImplementsMini
    SaveAreasKept
CHECK_DEADLOCK FALSE
