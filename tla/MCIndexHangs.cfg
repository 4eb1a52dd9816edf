\* gh may never answer: ListOwner has no timeout.
SPECIFICATION RunSpec
CONSTANTS
    Checkouts = {c1}
    Remotes = {c1}
    Owners = {o1}
    Actors = {a1}
    FetchConcurrency = 1
    MaxVersion = 2
    MaxWalkErrors = 1
PROPERTY ScansGoOn
CHECK_DEADLOCK FALSE
