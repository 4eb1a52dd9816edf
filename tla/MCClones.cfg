CONSTANTS
    a = a
    b = b
    Jobs = {j1, j2}
    Targets = {a, b}
    NoTarget = none
    MaxJobs = 1
    CloneHandlers = {h1, h2}
    InitHandlers = {}
    Within <- Flat
SPECIFICATION Spec
INVARIANT CloneOwnsDestination NoWreckage CleanExit
PROPERTY NothingIsDeleted
SYMMETRY Symmetry
CHECK_DEADLOCK FALSE
