SPECIFICATION Spec
CONSTANTS
    None = None
    MaxBlocks = 2
    MaxBranches = 5
    MaxLeaves = 5
INVARIANTS
    EndsOfChainsKept
    EveryNodeOwnedOnce
CHECK_DEADLOCK FALSE
