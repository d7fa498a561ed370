\* Two tokens of one actor and the bootstrap token, two requests.
CONSTANTS
    a1 = a1
    t1 = t1
    t2 = t2
    boot = boot
    Actors = {a1}
    Tokens = {t1, t2}
    OwnerOf <- Owners
    Bootstrap = boot
    MaxWaiting = 2
    Presented = {t1, boot}
    Grants <- AllPerms
    Expiries = {1, 3}
    TTL = 1
    Latency = 1
    Grace = 1
    BootstrapLife = 1
    Horizon = 3
SPECIFICATION Spec
INVARIANTS
    TypeOK
    AcceptedWereValid
    ValidAreAccepted
CHECK_DEADLOCK FALSE
