CONSTANTS
    a = a
    b = b
    p = p
    q = q
    invoke = invoke
    response = response
    None = None
    Topics = {invoke, response}
    Clients = {a, b, p}
    TopicOf <- TwoTopics
    Impatient = {a}
    InvokeSub = p
    ResponseSub = b
    Capacity = 1
    SlowOperations = TRUE
    MaxFaults = 2
CHECK_DEADLOCK FALSE
SPECIFICATION Spec
INVARIANTS
    TypeOK
    NoInterruptLeftBehind
    OpenWhileInUse
