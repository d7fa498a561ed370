\* Two publish requests for one deployment.
CONSTANTS
    p1 = p1
    p2 = p2
    Slots = {p1, p2}
    MaxDeployments = 1
    Contents = {0, 1}
    Empty = 0
    Keys = {1, 2, 3}
    Migratable = {}
    MaxRestarts = 0
    MaxFaults = 0
SPECIFICATION Spec
SYMMETRY SlotSymmetry
INVARIANT OneRunAtATime
CHECK_DEADLOCK FALSE
