CONSTANTS
    a = a
    b = b
    p = p
    q = q
    invoke = invoke
    response = response
    None = None
    Topics = {invoke, response}
    Clients = {a, b, p, q}
    TopicOf <- Manager
    Impatient = {a}
    InvokeSub = p
    ResponseSub = q
    Capacity = 2
    SlowOperations = FALSE
    MaxFaults = 1
CHECK_DEADLOCK FALSE
SPECIFICATION FairManagerSpec
INVARIANTS
    ListenedWhileKept
    PushNeverBlocks
PROPERTIES
    InterruptsReturn
    StopCompletes
