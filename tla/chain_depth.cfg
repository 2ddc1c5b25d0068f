CONSTANTS
    p = p
    q = q
    r = r
    Nodes = {p, q}
    Links <- Pair
    Transactions <- None
    Informed = {p, q}
    Accounts = {0, 1, 2}
    NoBlock = NoBlock
    MaxBlocks = 2
    MaxBusy = 2
SPECIFICATION Spec
SYMMETRY NodeSymmetry
INVARIANT DepthsFollow
CHECK_DEADLOCK FALSE
