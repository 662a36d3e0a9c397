\* Two overlapping requests on the staff, on the password of one account, or on the
\* dead letters of one piece of work.
CONSTANTS
    Procs = {h1, h2}
    People = {owner, ann, bob}
    Owner = owner
    Branches = {b1, b2}
    Departments = {d1}
    Editable = {ann}
    None = None
    Requests = {h1, h2}
    Passwords = {w1, w2, w3, w4}
    MaxChanges = 5
    Work = {mail}
    Jobs = {1, 2, 3}
    Letters = {1, 2}
    Retriers = {h1, h2}
    Attempts = 2
SPECIFICATION MCSpec
SYMMETRY Symmetry
CHECK_DEADLOCK FALSE
INVARIANT ChainOfCommand
INVARIANT SingleAssignment
INVARIANT NoRecentReuse
INVARIANT HistoryIsGenuine
INVARIANT NothingLost
INVARIANT DoneOnce
