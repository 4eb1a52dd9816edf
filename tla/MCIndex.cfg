\* One checkout, one actor, one walk that fails as a whole; gh answers or fails.
SPECIFICATION AnsweringSpec
CONSTANTS
    Checkouts = {c1}
    Remotes = {c1}
    Owners = {o1}
    Actors = {a1}
    FetchConcurrency = 1
    MaxVersion = 2
    MaxWalkErrors = 1
INVARIANT IndexInv
INVARIANT NoLostWakeup
PROPERTY NothingVanishesSilently
PROPERTY SnapshotsAreHonest
PROPERTY AnnouncedIsShown
PROPERTY ScansGoOn
CHECK_DEADLOCK FALSE
