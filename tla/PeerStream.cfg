CONSTANTS
    Capabilities <- MCCapabilities
    Lengths <- MCLengths
    MessageIds = {0, 1, 2, 16}
    WireBound = 2
SPECIFICATION Spec
INVARIANTS
    SharedBest
    RoundTripOneCapability
CHECK_DEADLOCK FALSE
