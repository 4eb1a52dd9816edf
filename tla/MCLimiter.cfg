CONSTANTS
    IPs = {x, y}
    Requests = {r1, r2}
    MaxFailures = 3
    FailureWindow = 4
    LockoutDuration = 4
    CoalesceWindow = 1
    MaxTracked = 1
    MaxTime = 8
SYMMETRY Symmetry
SPECIFICATION Spec
INVARIANT LimiterInv BurstCountsOnce MapIsBounded FailuresAreBounded
PROPERTY LockoutOutlivesTheRest
CHECK_DEADLOCK FALSE
