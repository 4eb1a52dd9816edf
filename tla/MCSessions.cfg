\* One browser that logs in twice with a store that keeps one session, two
\* requests at a time, and a clock that goes past a session's deadline.
SPECIFICATION Spec
CONSTANTS
    IDs = {s1, s2}
    Browsers = {b1}
    Requests = {r1, r2}
    None = none
    SessionTTL = 3
    ReissueInterval = 1
    MaxSessions = 1
    MaxTime = 6
SYMMETRY Symmetry
INVARIANT SessionInv
INVARIANT SessionsAreBounded
INVARIANT CookieKeepsUp
PROPERTY EndedStaysEnded
CHECK_DEADLOCK FALSE
