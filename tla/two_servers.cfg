CONSTANTS
    A = A
    B = B
    x = x
    y = y
    Clients = {c1, c2}
    Servers = {A, B}
    Keys = {x}
    Scripts <- WriterReader
    MaxCrashes = 1
    NoClient = NoClient
    NoCommand = NoCommand
    NoServer = NoServer
    NoValue = NoValue
SPECIFICATION Spec
SYMMETRY ClientSymmetry
INVARIANTS ReadsCommitted SettledHoldsNothing HeldForSomeone
CHECK_DEADLOCK FALSE
