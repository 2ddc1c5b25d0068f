CONSTANTS
    n1 = n1
    n2 = n2
    n3 = n3
    t1 = t1
    Nodes = {n1, n2, n3}
    Service = Service
    Script <- Joining
    NoName = NoName
    MaxConnections = 12
    Mortal = {n1}
    MaxCollected = 1
    MaxBusy = 1
    Hasty = FALSE
    OwnFirst = TRUE
SPECIFICATION FairSpec
INVARIANTS TypeOK LiveNotDeleted 
 
CHECK_DEADLOCK FALSE
