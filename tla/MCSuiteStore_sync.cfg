\* Two syncs of a bucket of three, three writes, one failure or restart.
CONSTANTS
    s1 = s1
    s2 = s2
    Names <- ThreeNames
    Self = "here"
    Syncs = {s1, s2}
    PageSize = 2
    MinInterval = 1
    Horizon = 2
    MaxWrites = 3
    MaxFaults = 1
SPECIFICATION Spec
SYMMETRY SyncSymmetry
INVARIANTS
    UnchangedIsCopied
    SyncedIsCopied
CHECK_DEADLOCK FALSE
