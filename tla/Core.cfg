\* One key under each strategy and in the two tiers, with every kind of failure; three
\* calls in flight across every transition of a circuit; and
\* an operation with the attempts and the first delay of the code, and a cap that is reached.
CONSTANTS
    Procs = {p1, p2}
    Strategies = {"aside", "through", "behind", "tiers", "breaker", "resilience"}
    MaxWrites = 3
    Faults = {"redis", "database", "flush", "crash"}
    None = None
    Nodes = {n1, n2}
    Requests = {r1, r2}
    MemoryTtl = 2
    Ttls = {1, 3}
    MaxDelay = 1
    MaxValues = 2
    TierFaults = {"redis"}
    Absent = Absent
    NoTtl = NoTtl
    Calls = {c1, c2, c3}
    FailureThreshold = 2
    SuccessThreshold = 2
    Timeout = 4
    RequestTimeout = 2
    Latest = 3
    MaxCount = 3
    Never = Never
    MaxAttempts = 3
    InitialDelay = 1000
    LongestDelay = 1500
    Multiplier = 2
    Services <- EveryService
SPECIFICATION MCFairSpec
INVARIANT InSyncAtRest
INVARIANT StalenessBounded
INVARIANT OwnChangeSeen
INVARIANT OnlyTrialsJudge
INVARIANT RetriesJustified
PROPERTY QueuedWritesStored
PROPERTY ServiceUsedAgain
PROPERTY OperationAnswered
