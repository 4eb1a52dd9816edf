CONSTANTS
    Jobs = {j1, j2}
    Targets = {t1}
    NoTarget = none
    MaxJobs = 1
    MaxLosses = 1
SPECIFICATION FairSpec
INVARIANT DashboardInv
PROPERTY ToastsGoForward OutcomesAreTold SpinsForAReason
CHECK_DEADLOCK FALSE
