\* One refresh token used by two requests at once.
CONSTANTS
    Users = {u1}
    Procs = {p1, p2}
    Fingerprints = {f1}
    AccessLife = 2
    RefreshLife = 3
    ContextHasSession = FALSE
    Ops = {"login", "refresh"}
    Faults = {}
    MaxSessions = 3
    MaxTime = 1
SPECIFICATION Spec
SYMMETRY HandlerSymmetry
INVARIANT AtMostOneLivePerLogin
\* The behaviour ends when the clock and the sessions reach their bounds.
CHECK_DEADLOCK FALSE
