CONSTANTS
    a = a
    b = b
    Jobs = {j1, j2}
    Targets = {a, b}
    NoTarget = none
    MaxJobs = 1
    CloneHandlers = {h1, h2}
    InitHandlers = {}
    Within <- Nested
SPECIFICATION Spec

PROPERTY NothingIsDeleted

CHECK_DEADLOCK FALSE
