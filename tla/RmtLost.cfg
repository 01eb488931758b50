SPECIFICATION FairSpec
CONSTANTS
    Half = 3
    FrameBits = {0, 5, 6, 9, 13}
    Classic = FALSE
    Masked = FALSE
    MinLat = 1
    MaxLat = 2
    Burst = 1
    MaxLost = 2
    MaxFrames = 1
    MaxAborts = 0
    MaxWire = 40
CHECK_DEADLOCK FALSE
INVARIANT ReplayThenPrefix
INVARIANT WholeUnlessCounted
PROPERTY FrameCompletes
