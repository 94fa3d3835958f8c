CONSTANTS
    n1 = n1
    n2 = n2
    n3 = n3
    Nodes = {n1}
    Self = self
    Lookups = {"l1", "l2"}
    Distance <- MCDistance
    Bootstraps <- MCBootstraps
    Answers <- MCOneAnswer
    Alpha = 1
    BucketSize = 1
    ReplacementsSize = 0
    MaxClock = 1
SPECIFICATION FairSpec
INVARIANTS
    RequestsOwned
PROPERTIES
    LookupEnds
    IngressServes
CHECK_DEADLOCK FALSE
