CONSTANTS
    Nodes = {p, q, r}
    Connected = TRUE
    Typists = {p}
    Verbs = {FALSE}
    Races = {}
    MaxMessages = 1
    MaxHops = 0
    MaxChunk = 1
    Capacity = 4
    MaxCrashes = 1
SPECIFICATION FairSpec
INVARIANT PrintedIsRelayed
PROPERTIES Agreement FailureDetected
CHECK_DEADLOCK FALSE
