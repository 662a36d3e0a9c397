\* Two handlers interleave; Redis calls fail and requests die half way.
CONSTANTS
    Users = {"owner", "amy", "worker"}
    Modules = {"inventory"}
    Actions = {"read"}
    Procs = {p1, p2}
    Level <- MCLevel
    GrantInputs <- FullOrEmpty
    InitialMatrix <- OwnerRows
    Faults = {"redis", "crash"}
    MaxRequests = 3
    NoUser = NoUser
    NoEntry = NoEntry
SPECIFICATION Spec
SYMMETRY HandlerSymmetry
INVARIANT GrantsWerePossessed
\* The behaviour ends when the request bound is used up.
CHECK_DEADLOCK FALSE
