\* Two overlapping requests; the clock passes the expiry of access tokens.
CONSTANTS
    Users = {u1}
    Procs = {p1, p2}
    Fingerprints = {f1, f2}
    AccessLife = 1
    RefreshLife = 2
    ContextHasSession = TRUE
    Ops = {"login", "refresh", "logout"}
    Faults = {}
    MaxSessions = 3
    MaxTime = 1
SPECIFICATION Spec
SYMMETRY HandlerSymmetry
PROPERTY ImplementsLifecycle
INVARIANT LoggedOutTokenRejected
INVARIANT OutdatedTokenRejected
\* The behaviour ends when the clock and the sessions reach their bounds.
CHECK_DEADLOCK FALSE
