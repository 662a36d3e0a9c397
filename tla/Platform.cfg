\* One rule, that is created and changed, and an amount below and one above its threshold.
CONSTANTS
    Areas = {"authorization", "queries", "audit", "events", "transactions", "errors"}
    RuleIds = {r1}
    Types = {t1}
    Amounts = {1, 2}
    Forms <- FewForms
    NoRule = NoRule
\* One request among changes by others, with failing calls.
    Callers = {c1}
    Units = {u1}
    NoUnit = NoUnit
    Faults = {"database", "redis"}
    MaxDisturb = 2
\* Two requests with the contexts of four users.
    Handlers = {h1, h2}
    Users <- Contexts
    None = None
    branch = b1
    otherBranch = b2
    department = d1
\* Two reports, tried twice, within two milliseconds, and a client that reads row by row.
    Calls = {c1, c2}
    Readers = {reader1}
    AuditAttempts = 2
    PageSize = 1
    Instants = {0, 1}
    Exercised = {"logout", "getUserPermissions", "checkPermission"}
    MaxStalled = 1
\* Two publications among up to two registrations of three functions, one of them not wrapped;
\* the log keeps one event.
    Listeners = {l1, l2, l3}
    Plain = {l3}
    MaxListening = 2
    Publishers = {p1, p2}
    MaxEvents = 2
    MaxLogSize = 1
\* Two decorated calls on two services.
    TxCalls = {t1, t2}
    Objects = {o1, o2}
    Client = Client
SPECIFICATION MCSpec
INVARIANT AnswersJustified
INVARIANT ScopeRespected
INVARIANT QueuedOutcomesKept
INVARIANT PagingMissesNothing
INVARIANT NobodyMissesForGood
INVARIANT SerialCallsIsolated
INVARIANT ErrorsKeepMeaning
