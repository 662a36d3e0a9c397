\* One request at a time: a snapshot read through a warm cache.
CONSTANTS
    Users = {"owner", "amy", "bob"}
    Modules = {"inventory"}
    Actions = {"read"}
    Procs = {p1}
    Level <- MCLevel
    GrantInputs <- FullOrEmpty
    InitialMatrix <- OwnerRows
    Faults = {}
    MaxRequests = 4
    NoUser = NoUser
    NoEntry = NoEntry
SPECIFICATION Spec
PROPERTY SnapshotIsCurrent
\* The behaviour ends when the request bound is used up.
CHECK_DEADLOCK FALSE
