\* Five frames of two packets over eight ids, so that ids are reused.
CONSTANTS
    IdModulus = 8
    FrameSizes = {2}
    MaxPackets = 10
    Outstanding = 3
    Stale = 1
    MaxFaults = 1
    MaxRejects = 1
    MaxNacks = 1
SPECIFICATION Spec
INVARIANTS
    TypeOK
    References
    NothingLost
    
    CancelledLeavesNothing
    RequestsAreKept
    
CHECK_DEADLOCK FALSE
