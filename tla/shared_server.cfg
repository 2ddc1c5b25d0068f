CONSTANTS
    A = A
    B = B
    x = x
    y = y
    Clients = {c1, c2}
    Servers = {A}
    Keys = {x, y}
    Scripts <- SharedServer
    MaxCrashes = 0
    NoClient = NoClient
    NoCommand = NoCommand
    NoServer = NoServer
    NoValue = NoValue
SPECIFICATION Spec
SYMMETRY ClientSymmetry
INVARIANTS TypeOK OnlyCommittedWrites NoDirtyReads AnswersAccounted SettledHoldsNothing HeldForSomeone
CHECK_DEADLOCK FALSE
