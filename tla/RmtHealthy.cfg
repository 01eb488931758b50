SPECIFICATION FairSpec
CONSTANTS
    Half = 4
    FrameBits = {0, 7, 12, 17}
    Classic = FALSE
    Masked = FALSE
    MinLat = 1
    MaxLat = 2
    Burst = 1
    MaxLost = 0
    MaxFrames = 2
    MaxAborts = 1
    MaxWire = 40
CHECK_DEADLOCK FALSE
INVARIANT NoEarlyFinish
INVARIANT CompleteMeansStopped
PROPERTY ImplementsWireFrame
