\* Two requests in flight, two deployments, one fault.
CONSTANTS
    p1 = p1
    p2 = p2
    Slots = {p1, p2}
    MaxDeployments = 2
    Contents = {0, 1}
    Empty = 0
    Keys = {1, 2, 3, 4, 5}
    Migratable = {2}
    MaxRestarts = 2
    MaxFaults = 1
SPECIFICATION Spec
INVARIANTS
    DeployedIsActive
    DeployedWasMigrated
    ClusterKeysAreKnown
    PublishedEverywhere
PROPERTY RunsEnd
CHECK_DEADLOCK FALSE
