\* Liveness: the shortest way to streaming, then a stop of any kind.
CONSTANTS
    HostMessages <- StreamingMessages
    MaxPackets = 5
    MaxWindow = 1
    MaxFailures = 0
    MaxEdges = 0
    SilenceLimit = 2
    PausedLimit = 3
SPECIFICATION Spec
PROPERTIES
    DisconnectIsNotified
    WorkerEnds
    DestroyEnds
