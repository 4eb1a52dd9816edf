\* One destination that a clone handler, two jobs and two inits compete for. No
\* symmetry: one property is a liveness property.
CONSTANTS
    a = a
    b = b
    Jobs = {j1, j2}
    Targets = {a}
    NoTarget = none
    MaxJobs = 1
    CloneHandlers = {h1}
    InitHandlers = {i1, i2}
    Within <- Flat
SPECIFICATION FairSpec
INVARIANT ActionsInv OneWriterPerDirectory
PROPERTY SettledStays ShutdownEnds
CHECK_DEADLOCK FALSE
