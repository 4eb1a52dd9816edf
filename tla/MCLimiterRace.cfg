CONSTANTS
    IPs = {x}
    Requests = {r1, r2}
    MaxFailures = 2
    FailureWindow = 3
    LockoutDuration = 3
    CoalesceWindow = 1
    MaxTracked = 1
    MaxTime = 8
SYMMETRY Symmetry
SPECIFICATION Spec

PROPERTY LockoutLasts
CHECK_DEADLOCK FALSE
