SPECIFICATION LabSpec
CONSTANTS
    N = 4
    MaxBlocks = 6
    BlockWords = 20
    ByteBits = 2
    RX_CODES = 20
    Programs = {"demo", "loopback", "diag", "sweep", "stress"}
    Upsets <- MCUpsets
    FaultBits <- MCFaultBits
    Labels <- MCLabels
    MaxRun = 2
    FRAMES = 2
    Openings <- MCOpenings
    SOAK_FRAMES = 2
    Rounds = 2
    DueSets <- MCDueSets
INVARIANT WindowsDisjoint
INVARIANT ErrorNamesCulprit
INVARIANT MissesTruthful
INVARIANT WitnessTruthful
INVARIANT VerdictTruthful
INVARIANT ReportsTruthful
INVARIANT BuffersAtRest
