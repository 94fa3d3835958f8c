CONSTANTS
    p1 = p1  p2 = p2  p3 = p3
    d1 = d1  d2 = d2
    i1 = i1
    Peers = {p1, p2, p3}
    Dials = {d1, d2}
    Inbound = {i1}
    ManualPeers = {p3}
    Faulty = {p1}
    Banned = {}
    MaxPeers = 1
    CounterMod = 2
    Vacant = Vacant
    Connected = Connected
SPECIFICATION FairSpec
INVARIANTS
    OwnEntry
    EntryOwned
    PipesOwned
    PoolLimit
    DialerExclusive
PROPERTIES
    DialingCount
    SessionsEndByTeardown
    ImplementsPeerTable
    ReservationEnds
    RedialPossible
CHECK_DEADLOCK FALSE
