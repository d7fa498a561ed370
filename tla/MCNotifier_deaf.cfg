CONSTANTS
    a = a
    b = b
    p = p
    q = q
    invoke = invoke
    response = response
    None = None
    Topics = {invoke, response}
    Clients = {a, b, p}
    TopicOf <- TwoTopics
    Impatient = {}
    InvokeSub = p
    ResponseSub = b
    Capacity = 2
    SlowOperations = FALSE
    MaxFaults = 0
CHECK_DEADLOCK FALSE
SPECIFICATION Spec
INVARIANT NobodyStaysDeaf
