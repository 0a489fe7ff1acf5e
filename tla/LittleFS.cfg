SPECIFICATION Spec
CONSTANTS
    N = 14
    MaxEnts = 2
    Room = 4
    Top = {1, 2}
    Dirs = {2}
    Leaves = {1}
    Modes = {"w", "a"}
    Inline = 1
    Seeds = {0}
    Cautious = TRUE
    Settled = TRUE
    MaxOps = 4
    MaxLosses = 1
    MaxFaults = 1
    MaxWrites = 2
    None = None
INVARIANTS BlocksOwned StateAnnounced
PROPERTY TreeAtomic
CHECK_DEADLOCK FALSE
