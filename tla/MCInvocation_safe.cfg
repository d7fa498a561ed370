CONSTANTS
    a1 = a1
    w1 = w1
    w2 = w2
    c1 = c1
    c2 = c2
    NoActor = NoActor
    Actors = {a1}
    Workers = {w1, w2}
    Callers = {c1, c2}
    ActorOf <- SharedQueue
    Requests = {"sync", "async", "get"}
    DispatchBuffer = 2
    ResponseBuffer = 1
    MaxInvocations = 2
    MaxFaults = 1
    FaultKinds = {"lose", "dberror", "gone", "crash"}
CHECK_DEADLOCK FALSE
SPECIFICATION Spec
SYMMETRY SharedSymmetry
INVARIANTS
    TypeOK
    TakenOnce
    ResponsesAreTrue
    WokenCallersGetResults
    FinalAnswersStand
    NoLostWakeup
    SyncResponseNotMissed
    MissedResponsesAreRead
PROPERTY KeepsPromise
