-------------------------------- MODULE Staff --------------------------------
(***************************************************************************)
(* The people of one organization and the branches and departments they    *)
(* manage: modules/user/user.service.ts, modules/organization/branch.      *)
(* service.ts and department.service.ts.                                   *)
(*                                                                         *)
(* Emails, codes and names are left out: the database has a unique index   *)
(* on each, and the look-ups before the writes change only the error that  *)
(* is reported.  Credentials are the business of PasswordHistory.          *)
(***************************************************************************)

CONSTANTS
    Procs,       \* requests in flight
    People,      \* ids of users, the owner's among them
    Owner,
    Branches,    \* ids of branches
    Departments, \* ids of departments
    Editable,    \* people updateUser moves in a run
    None

ASSUME StaffAssumption ==
    /\ Owner \in People /\ None \notin People
    /\ None \notin Branches \cup Departments
    /\ Branches \cap Departments = {}

VARIABLES
    user,      \* the row of each person: level, creator and seat
    opened,    \* branches and departments that exist
    managerOf, \* their managerId
    task,      \* per request: what it is about to write
    edited,    \* history: people whose seat updateUser has set
    contested  \* history: people who were assigned by two overlapping requests

vars == <<user, opened, managerOf, task, edited, contested>>
history == <<edited, contested>>

Kinds == {"branch", "department"}
Units == Branches \cup Departments
KindOf(u) == IF u \in Branches THEN "branch" ELSE "department"
Seats == [branch : Branches \cup {None}, department : Departments \cup {None}]
Nowhere == [branch |-> None, department |-> None]

Row == [level : {"OWNER", "MANAGER", "WORKER"}, creator : People \cup {None}, seat : Seats]
Absent == [level |-> "NONE", creator |-> None, seat |-> Nowhere]

Nothing == [pc |-> "idle"]
Task == {Nothing}
        \cup [pc : {"assign"}, unit : Units, who : People]
        \cup [pc : {"create"}, level : {"MANAGER", "WORKER"}, creator : People, seat : Seats]

Init ==
    /\ user = [p \in People |->
          IF p = Owner THEN [level |-> "OWNER", creator |-> None, seat |-> Nowhere] ELSE Absent]
    /\ opened = {} /\ managerOf = [u \in Units |-> None]
    /\ task = [h \in Procs |-> Nothing]
    /\ edited = {} /\ contested = {}

-----------------------------------------------------------------------------
Idle(h) == task[h] = Nothing
Awaits(h, t) == task' = [task EXCEPT ![h] = t]
Done(h) == Awaits(h, Nothing)
Exists(p) == user[p].level # "NONE"
Assigning(p) == \E h \in Procs : task[h].pc = "assign" /\ task[h].who = p

\* createBranch and createDepartment, once the code is free.
CreateUnit(u) ==
    /\ u \notin opened
    /\ opened' = opened \cup {u}
    /\ UNCHANGED <<user, managerOf, task, history>>

-----------------------------------------------------------------------------
(* Assigning a manager                                                     *)

\* Mutant: the manager's seat is not looked at.
FreeForAnyone(p, u) == TRUE

\* "Check if manager is already assigned to another branch."
FreeFor(p, u) == user[p].seat[KindOf(u)] \in {None, u}

\* assignManager up to its transaction: the unit and the user are read and judged.
BeginAssign(h, u, p) ==
    /\ Idle(h) /\ u \in opened
    /\ user[p].level = "MANAGER" /\ FreeFor(p, u)
    /\ Awaits(h, [pc |-> "assign", unit |-> u, who |-> p])
    /\ contested' = IF Assigning(p) THEN contested \cup {p} ELSE contested
    /\ UNCHANGED <<user, opened, managerOf, edited>>

\* The transaction: the unit's managerId and the manager's branchId or departmentId.
Assign(h) ==
    LET t == task[h] IN
    /\ t.pc = "assign"
    /\ managerOf' = [managerOf EXCEPT ![t.unit] = t.who]
    /\ user' = [user EXCEPT ![t.who].seat[KindOf(t.unit)] = t.unit]
    /\ Done(h)
    /\ UNCHANGED <<opened, history>>

-----------------------------------------------------------------------------
(* Creating and updating users                                             *)

\* A manager's seat comes with the request, and is not empty; both ids must exist.
ManagerSeats ==
    {s \in Seats : s # Nowhere /\ \A k \in Kinds : s[k] \in opened \cup {None}}

\* Mutant: only the request that comes from a worker is refused.
MayCreateUnlessWorker(creator, level) ==
    Exists(creator) /\ user[creator].level # "WORKER"

\* validateUserCreation: owners create managers, managers create workers.
MayCreate(creator, level) ==
    \/ user[creator].level = "OWNER" /\ level = "MANAGER"
    \/ user[creator].level = "MANAGER" /\ level = "WORKER"

\* A worker "inherits manager's scope", as it is when the creator is read.
SeatsFor(creator, level) ==
    IF level = "MANAGER" THEN ManagerSeats ELSE {user[creator].seat}

\* createManager and createWorker up to their transaction.
BeginCreate(h, creator, level) ==
    /\ Idle(h) /\ MayCreate(creator, level)
    /\ \E s \in SeatsFor(creator, level) :
          Awaits(h, [pc |-> "create", level |-> level, creator |-> creator, seat |-> s])
    /\ UNCHANGED <<user, opened, managerOf, history>>

\* The transaction: the user and its staff profile, which names the same creator.
Create(h, p) ==
    LET t == task[h] IN
    /\ t.pc = "create" /\ ~ Exists(p)
    /\ user' = [user EXCEPT ![p] = [level |-> t.level, creator |-> t.creator, seat |-> t.seat]]
    /\ Done(h)
    /\ UNCHANGED <<opened, managerOf, history>>

\* updateUser sets both ids of anyone: to any that exists, to null, or not at all.
UpdateUser(p, s) ==
    /\ p \in Editable /\ Exists(p) /\ \A k \in Kinds : s[k] \in opened \cup {None}
    /\ user' = [user EXCEPT ![p].seat = s]
    /\ edited' = edited \cup {p}
    /\ UNCHANGED <<opened, managerOf, task, contested>>

Next ==
    \/ \E u \in Units : CreateUnit(u)
    \/ \E h \in Procs :
          \/ \E u \in Units, p \in People : BeginAssign(h, u, p)
          \/ Assign(h)
          \/ \E creator \in People, level \in {"MANAGER", "WORKER"} : BeginCreate(h, creator, level)
          \/ \E p \in People : Create(h, p)
    \/ \E p \in People, s \in Seats : UpdateUser(p, s)

Spec == Init /\ [][Next]_vars

-----------------------------------------------------------------------------
(* Correctness                                                             *)

\* The tables are well typed, and refer only to what exists.
TypeOK ==
    /\ user \in [People -> Row \cup {Absent}]
    /\ opened \subseteq Units
    /\ managerOf \in [Units -> People \cup {None}]
    /\ task \in [Procs -> Task]
    /\ \A p \in People, k \in Kinds : user[p].seat[k] \in opened \cup {None}

\* Managers answer to the owner and workers to a manager, whatever requests overlap
\* (validateUserCreation judges a creator it has read earlier).
ChainOfCommand ==
    \A p \in People :
        /\ user[p].level = "MANAGER" => user[p].creator = Owner
        /\ user[p].level = "WORKER" =>
              user[p].creator # None /\ user[user[p].creator].level = "MANAGER"

\* "Enforces single assignment rule": nobody manages two branches or two departments,
\* as long as no two requests assigned that person at once and updateUser left the
\* person's seat alone.
SingleAssignment ==
    \A u, v \in Units :
        KindOf(u) = KindOf(v) /\ managerOf[u] = managerOf[v] /\ managerOf[u] # None
            => u = v \/ managerOf[u] \in edited \cup contested

\* A branch or department has a manager who has a seat of that kind, however
\* assignments of one manager or to one unit overlap.
ManagersAreSeated ==
    \A u \in opened :
        managerOf[u] # None =>
            /\ user[managerOf[u]].level = "MANAGER"
            /\ user[managerOf[u]].seat[KindOf(u)] # None \/ managerOf[u] \in edited

\* Whoever is below the owner belongs to a branch or a department, on which the scope
\* of what they may see depends, unless updateUser has moved them or their creator.
EveryoneHasScope ==
    \A p \in People :
        Exists(p) /\ p # Owner =>
            user[p].seat # Nowhere \/ {p, user[p].creator} \cap edited # {}
=============================================================================
