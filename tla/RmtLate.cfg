SPECIFICATION Spec
CONSTANTS
    Half = 3
    FrameBits = {0, 5, 6, 9, 13}
    Classic = FALSE
    Masked = FALSE
    MinLat = 0
    MaxLat = 7
    Burst = 1
    MaxLost = 1
    MaxFrames = 1
    MaxAborts = 0
    MaxWire = 40
CHECK_DEADLOCK FALSE
INVARIANT TypeOK
INVARIANT CleanPrefix
INVARIANT TripsTruthful
INVARIANT LagTruthful
