CONSTANTS
    IdModulus = 8
    FrameSizes = {1, 2}
    MaxPackets = 2
    Outstanding = 3
    Stale = 1
    MaxFaults = 0
    MaxRejects = 1
    MaxNacks = 1
SPECIFICATION FairSpec
PROPERTIES
    AcceptedArrives
    AcceptedReleased
CHECK_DEADLOCK FALSE
