CONSTANTS
    a1 = a1
    w1 = w1
    w2 = w2
    c1 = c1
    c2 = c2
    NoActor = NoActor
    Actors = {a1}
    Workers = {w1}
    Callers = {c1, c2}
    ActorOf <- OneWorker
    Requests = {"sync"}
    DispatchBuffer = 1
    ResponseBuffer = 1
    MaxInvocations = 2
    MaxFaults = 1
    FaultKinds = {"lose", "crash"}
CHECK_DEADLOCK FALSE
SPECIFICATION FairSpec
PROPERTIES
    PromptHandOver
    PromptResponse
    EveryCallAnswered
