\* Two connections, two clients that may use both, one key each.
CONSTANTS
    Clients = {c1, c2}
    Scanned = {c1, c2}
    Servers = {A, B}
    Keys = {x}
    NoClient = NoClient
    NoCommand = NoCommand
    QueueBound = 1
SPECIFICATION Spec
SYMMETRY ClientSymmetry
INVARIANTS TypeOK LockExclusion GrantStillValid HeldIsRegistered
PROPERTY ImplementsLockTable
CHECK_DEADLOCK FALSE
