CONSTANTS
    IdModulus = 16
    InitialCapacity = 2
    MaxSpan = 4
    MaskBits = 2
    FrameSizes = {1, 3}
    MaxPackets = 20
    Ahead = 5
    Behind = 2
SPECIFICATION Spec
INVARIANTS
    TypeOK
    WindowIsSpan
    NextNeededIsPending
    NothingForgotten
PROPERTIES
    DeliversNextFrame
    FeedbackIsTrue
CHECK_DEADLOCK FALSE
