CONSTANTS
    n1 = n1
    n2 = n2
    n3 = n3
    Nodes = {n1, n2, n3}
    Self = self
    Lookups = {"l1"}
    Distance <- MCDistance
    Bootstraps <- MCBootstraps
    Answers <- MCAnswers
    Alpha = 1
    BucketSize = 2
    ReplacementsSize = 1
    MaxClock = 2
SPECIFICATION Spec
INVARIANT OldestPinged
CHECK_DEADLOCK FALSE
