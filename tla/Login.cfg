\* Lockout: the limit of the code, overlapping logins that may die, an administrator who
\* deactivates.  Rate limit: the limit of the code.  Registration: overlapping owners who
\* may share an e-mail.  Gates: one person of each level.  Rules: two, created and updated.
CONSTANTS
    Procs = {p1, p2}
    MaxFailed = 5
    LockDuration = 2
    Attempts = {"right", "wrong", "stray", "blind"}
    AdminStatus = {"INACTIVE"}
    Faults = {"crash"}
    Null = Null
\* The limits of the code: 5 attempts, 15 minutes; failing Redis calls and crashes.
    Clients = {c1, c2, c3, c4}
    MaxAttempts = 5
    Window = 15
    RateFaults = {"redis", "crash"}
    MaxBlind = 2
    NoTtl = NoTtl
\* Two registrations, two e-mails, two names, and one employee of either.
    Signups = {f1, f2}
    Emails = {e1, e2}
    Names = {n1, n2}
    MaxStaff = 1
    FormFaults = {"database", "crash"}
    Owner = owner
    Managers = {manager}
    Workers = {worker}
\* What is granted: what a manager needs, or reading.
    ActionSets = {{"CREATE", "READ", "GRANT_PERMISSIONS"}, {"READ"}}
\* Two rules that may tie, amounts below, at, between and above their thresholds.
    RuleIds = {r1, r2}
    Types = {t1}
    Amounts = {0, 1, 2, 3}
    Approvers = {"OWNER", "MANAGER"}
    Priorities = {0, 1}
    Forms <- RuleForms
    NoRule = NoRule
SPECIFICATION MCSpec
INVARIANT OrderlyGuessesBounded
INVARIANT OrderlyLockHolds
INVARIANT OvershootBounded
INVARIANT AccountsSound
INVARIANT NothingOutOfReach
INVARIANT EvaluatorsAgree
INVARIANT DemandsCanBeMet
PROPERTY RightfulUserGetsIn
PROPERTY UninterruptedLimitLifts
PROPERTY WindowIsFixed
CHECK_DEADLOCK FALSE
