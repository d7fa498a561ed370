\* Three calls over two deployments, one fault.
CONSTANTS
    c1 = c1
    c2 = c2
    c3 = c3
    None = None
    Calls = {c1, c2, c3}
    Names = {"x", "y"}
    Services = {"s"}
    Jobs = {"j"}
    Wants <- ThreeSets
    Migrations <- OneJob
    MaxOverlap = 2
    MaxFaults = 1
SPECIFICATION Spec
INVARIANTS
    TypeOK
    PodsCanStart
    SetIsApplied
    DeployedAfterMigrations
CHECK_DEADLOCK FALSE
