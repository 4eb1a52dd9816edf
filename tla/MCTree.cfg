\* One change of the disk during a scan of two levels.
SPECIFICATION Spec
CONSTANTS
    Paths <- MCPaths
    Owners <- MCOwners
    Slugs <- MCSlugs
    Mains <- MCMains
    MaxDepth = 2
    MaxChanges = 1
INVARIANT NothingIsCutOff
INVARIANT WhatIsThereIsShown
INVARIANT GhostsAreTheUncloned
INVARIANT DirectoriesAreKept
INVARIANT PlacesHaveOneName
INVARIANT GhostsMeetTheirClones
INVARIANT StatusIsAsReported
INVARIANT RowsNeverReassure
CHECK_DEADLOCK FALSE
