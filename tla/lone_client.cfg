CONSTANTS
    A = A
    B = B
    x = x
    y = y
    Clients = {c1}
    Servers = {A, B}
    Keys = {x}
    Scripts <- Successive
    MaxCrashes = 0
    NoClient = NoClient
    NoCommand = NoCommand
    NoServer = NoServer
    NoValue = NoValue
SPECIFICATION FairSpec
INVARIANT ReadYourCommits
PROPERTIES ResultsArrive CommittedWritesArrive
CHECK_DEADLOCK FALSE
