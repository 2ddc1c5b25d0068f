CONSTANTS
    Nodes = {p, q}
    Connected = FALSE
    Typists = {p, q}
    Verbs = {FALSE}
    Races = {"ends", "loses"}
    MaxMessages = 1
    MaxHops = 0
    MaxChunk = 1
    Capacity = 4
    MaxCrashes = 0
SPECIFICATION FairSpec
PROPERTIES Agreement StartUp
CHECK_DEADLOCK FALSE
