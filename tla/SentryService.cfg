CONSTANTS
    p1 = p1  p2 = p2
    c1 = c1
    Peers = {p1, p2}
    Blocks = {0, 1}
    NoBlock = NoBlock
    Calls = {c1}
    MaxSessions = 3
SPECIFICATION FairSpec
INVARIANTS
    MapsAgree
    QueryCorrect
    TrackerFollowsPipes
    SentExactlyOnce
PROPERTY CallsAnswer
CHECK_DEADLOCK FALSE
