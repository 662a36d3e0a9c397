\* One request at a time, no fault: grants, revocations and cascades between three users.
CONSTANTS
    Users = {"owner", "amy", "bob"}
    Modules = {"inventory"}
    Actions = {"read", "write"}
    Procs = {p1}
    Level <- MCLevel
    GrantInputs <- SomeOrAll
    InitialMatrix <- OwnerRows
    Faults = {}
    MaxRequests = 4
    NoUser = NoUser
    NoEntry = NoEntry
SPECIFICATION FairSpec
INVARIANT GoldenRuleAtRest
INVARIANT CacheFreshAtRest
PROPERTY RequestsFinish
\* The behaviour ends when the request bound is used up.
CHECK_DEADLOCK FALSE
