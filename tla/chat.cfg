CONSTANTS
    Nodes = {p, q, r}
    Connected = TRUE
    Typists = {p}
    Verbs = {FALSE}
    Races = {"ends"}
    MaxMessages = 2
    MaxHops = 0
    MaxChunk = 1
    Capacity = 4
    MaxCrashes = 0
SPECIFICATION Spec
SYMMETRY NodeSymmetry
INVARIANTS TypeOK PrintedIsRelayed
PROPERTY ImplementsFifoBroadcast
CHECK_DEADLOCK FALSE
