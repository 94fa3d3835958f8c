CONSTANTS
    Client = client
    Server = server
    Stranger = stranger
    None = none
    Block = 2
    AuthSizes = {4}
    AckSize = 4
    Fixed = 3
    AlteredSizes = {2, 3, 5}
    Lengths = {0, 3}
    MaxFrames <- MCMaxFrames
    MaxAltered = 1
SPECIFICATION FairSpec
INVARIANTS
    FailsForAReason
    KeysAgree
PROPERTIES
    ImplementsChannel
    HandshakeSettles
    FramesArrive
CHECK_DEADLOCK FALSE
