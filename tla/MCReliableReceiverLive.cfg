CONSTANTS
    IdModulus = 16
    InitialCapacity = 2
    MaxSpan = 4
    MaskBits = 2
    FrameSizes = {1, 3}
    MaxPackets = 5
    Ahead = 4
    Behind = 1
SPECIFICATION FairSpec
PROPERTIES
    OwedAckIsSent
    CompleteFrameIsDelivered
CHECK_DEADLOCK FALSE
