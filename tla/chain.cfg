CONSTANTS
    p = p
    q = q
    r = r
    Nodes = {p, q}
    Links <- OneWay
    Transactions <- PaidAndEarned
    Informed = {p}
    Accounts = {0, 1, 2}
    NoBlock = NoBlock
    MaxBlocks = 2
    MaxBusy = 2
SPECIFICATION FairSpec
INVARIANTS TypeOK SolvedIsSolving VerifiedIsUnverified LongestChain 
 
CHECK_DEADLOCK FALSE
