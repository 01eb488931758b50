SPECIFICATION Spec
CONSTANTS
    Half = 2
    FrameBits = {3, 7}
    Classic = TRUE
    Masked = FALSE
    MinLat = 1
    MaxLat = 2
    Burst = 1
    MaxLost = 0
    MaxFrames = 2
    MaxAborts = 1
    MaxWire = 0
CHECK_DEADLOCK FALSE
INVARIANT NoEarlyFinish
