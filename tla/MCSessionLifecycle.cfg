\* Safety: enough host packets to stream, start video and stop again, one local
\* failure and two foreground edges anywhere.
CONSTANTS
    HostMessages <- AllMessages
    MaxPackets = 5
    MaxWindow = 1
    MaxFailures = 1
    MaxEdges = 2
    SilenceLimit = 1
    PausedLimit = 2
SPECIFICATION Spec
INVARIANTS
    TypeOK
    NotifiedOnce
    OneGoodbye
    
    RetiredIsDead
    MediaStopsBeforeNotice
    FreedIsQuiet
    ForegroundLease
PROPERTIES
    CallbackOrder
    PhaseAdvances
