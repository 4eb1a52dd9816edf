\* One clone is enough.
CONSTANTS
    Jobs = {j1}
    Targets = {t1}
    NoTarget = none
    MaxJobs = 1
    MaxLosses = 0
SPECIFICATION FairSpec
PROPERTY StickyUntilItEnds
CHECK_DEADLOCK FALSE
