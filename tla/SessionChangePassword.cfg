\* A change of the password, with the caller's session in the context.
CONSTANTS
    Users = {u1}
    Procs = {p1}
    Fingerprints = {f1}
    AccessLife = 2
    RefreshLife = 3
    ContextHasSession = TRUE
    Ops = {"login", "changePassword"}
    Faults = {}
    MaxSessions = 2
    MaxTime = 1
SPECIFICATION Spec
PROPERTY CurrentSignInKept
\* The behaviour ends when the clock and the sessions reach their bounds.
CHECK_DEADLOCK FALSE
