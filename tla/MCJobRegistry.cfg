\* One slot more than the budget, so that eviction has to choose between two
\* finished records, or meets a running one.  No symmetry: one property is a
\* liveness property.
CONSTANTS
    Jobs = {j1, j2, j3}
    Targets = {t1, t2}
    NoTarget = none
    MaxJobs = 2
SPECIFICATION RegistryFairSpec
INVARIANT RegistryInv EndOfOutputIsShown
PROPERTY ForgottenOnlyWhenDue BudgetKept FinishedIsForgotten
CHECK_DEADLOCK FALSE
