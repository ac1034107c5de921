SPECIFICATION FairSpec
CONSTANTS
    h1 = h1
    h2 = h2
    k1 = k1
    k2 = k2
    Hosts = {h1}
    Keys = {k1, k2}
    MaxLaunches = 1
    MaxPairings = 0
    MaxRequests = 2
    MaxFailures = 1
    MaxToHost = 1
    MaxToClient = 1
    CanceledSize = 1
    QueueSize = 1
    AttemptLimit = 1
PROPERTIES
    LaunchEnds
    AbandonedIsReleased
CHECK_DEADLOCK FALSE
