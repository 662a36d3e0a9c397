\* One request at a time, as the resolvers wire it, with failures.
CONSTANTS
    Users = {u1, u2}
    Procs = {p1}
    Fingerprints = {f1}
    AccessLife = 1
    RefreshLife = 2
    ContextHasSession = FALSE
    Ops = {"login", "refresh", "access", "logout", "revokeSession", "revokeAll", "changePassword"}
    Faults = {"redis", "crash"}
    MaxSessions = 3
    MaxTime = 2
SPECIFICATION Spec
INVARIANT AtMostOneLivePerLogin
INVARIANT EndedLoginsStayEnded
\* The behaviour ends when the clock and the sessions reach their bounds.
CHECK_DEADLOCK FALSE
