CONSTANTS
    MaxSessions = 1
    Oversize = TRUE
SPECIFICATION FairSpec
INVARIANTS
    TypeOK
    PipesFollowSession
    NextNotAfterDisconnect
PROPERTIES
    ImplementsPeerTable
    DisconnectHonoured
    SilentPeerDropped
    PingerNotStranded
CHECK_DEADLOCK FALSE
