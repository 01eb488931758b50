SPECIFICATION FairSpec
CONSTANTS
    Half = 3
    FrameBits = {5, 6, 10}
    Classic = TRUE
    Masked = FALSE
    MinLat = 0
    MaxLat = 3
    Burst = 1
    MaxLost = 1
    MaxFrames = 1
    MaxAborts = 1
    MaxWire = 0
CHECK_DEADLOCK FALSE
INVARIANT FrameReadsAlive
PROPERTY AbortSilences
