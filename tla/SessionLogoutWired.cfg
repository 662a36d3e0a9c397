\* Logout as the GraphQL resolver calls it.
CONSTANTS
    Users = {u1}
    Procs = {p1}
    Fingerprints = {f1}
    AccessLife = 2
    RefreshLife = 3
    ContextHasSession = FALSE
    Ops = {"login", "logout"}
    Faults = {}
    MaxSessions = 1
    MaxTime = 1
SPECIFICATION Spec
INVARIANT LogoutTakesEffect
\* The behaviour ends when the clock and the sessions reach their bounds.
CHECK_DEADLOCK FALSE
