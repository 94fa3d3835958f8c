CONSTANTS
    MaxSessions = 1
    Oversize = FALSE
SPECIFICATION Spec
INVARIANT DepartedPeerNotValid
CHECK_DEADLOCK FALSE
