CONSTANTS
    w1 = w1
    w2 = w2
    d1 = d1
    k1 = k1
    None = None
    Goroutines = {w1, w2, d1, k1}
    MayCall <- Server
    QueueIds = {q1, q2}
    Capacity = 1
    MaxCalls = 4
CHECK_DEADLOCK FALSE
SPECIFICATION FairSpec
INVARIANTS
    TypeOK
    OneChannelPerId
    PayloadsStayInReach
    ListenersAreHeard
PROPERTY CloseReleasesWaiters
