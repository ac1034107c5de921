CONSTANTS
    IdModulus = 16
    InitialCapacity = 2
    MaxSpan = 4
    MaskBits = 2
    FrameSizes = {1, 2}
    MaxPackets = 20
    Ahead = 5
    Behind = 2
SPECIFICATION Spec
INVARIANT
    NextNeededIsPending
CHECK_DEADLOCK FALSE
