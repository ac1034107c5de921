SPECIFICATION Spec
CONSTANTS
    h1 = h1
    h2 = h2
    k1 = k1
    k2 = k2
    Hosts = {h1, h2}
    Keys = {k1}
    MaxLaunches = 2
    MaxPairings = 1
    MaxRequests = 2
    MaxFailures = 1
    MaxToHost = 1
    MaxToClient = 1
    CanceledSize = 1
    QueueSize = 1
    AttemptLimit = 1

    
PROPERTIES
    OneOutcome
    NoObsoleteRetry
SYMMETRY Symmetry
CHECK_DEADLOCK FALSE
