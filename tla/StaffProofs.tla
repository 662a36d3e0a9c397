----------------------------- MODULE StaffProofs -----------------------------
(***************************************************************************)
(* The invariants of Staff for any number of people, units and requests.   *)
(*                                                                         *)
(* The transactions write what their requests have read earlier, so the    *)
(* strengthening is about the requests: what an assignment knows of its    *)
(* manager (ReadyToAssign, AloneUnlessContested) and a creation of its     *)
(* creator (ReadyToCreate) still holds when they commit.                   *)
(***************************************************************************)
EXTENDS Staff, TLAPS

ReadyToAssign(t) ==
    /\ t.unit \in opened /\ user[t.who].level = "MANAGER"
    /\ t.who \notin edited \cup contested => user[t.who].seat[KindOf(t.unit)] \in {None, t.unit}

ReadyToCreate(t) ==
    /\ \A k \in Kinds : t.seat[k] \in opened \cup {None}
    /\ t.level = "MANAGER" => t.creator = Owner /\ t.seat # Nowhere
    /\ t.level = "WORKER" =>
          user[t.creator].level = "MANAGER" /\ (t.seat # Nowhere \/ t.creator \in edited)

AloneUnlessContested ==
    \A g, h \in Procs :
        /\ g # h /\ task[g].pc = "assign" /\ task[h].pc = "assign"
        /\ task[g].who = task[h].who
        => task[h].who \in contested

Requests ==
    /\ \A h \in Procs : task[h].pc = "assign" => ReadyToAssign(task[h])
    /\ \A h \in Procs : task[h].pc = "create" => ReadyToCreate(task[h])
    /\ AloneUnlessContested

\* The owner is the only owner; the seat of who manages a unit is that unit.
Rows ==
    /\ \A p \in People : user[p].level = "OWNER" <=> p = Owner
    /\ \A p \in People :
          /\ user[p].level = "MANAGER" =>
                user[p].creator = Owner /\ (user[p].seat # Nowhere \/ p \in edited)
          /\ user[p].level = "WORKER" =>
                /\ user[p].creator \in People
                /\ user[user[p].creator].level = "MANAGER"
                /\ user[p].seat # Nowhere \/ p \in edited \/ user[p].creator \in edited
    /\ \A u \in Units :
          managerOf[u] # None =>
             /\ u \in opened /\ user[managerOf[u]].level = "MANAGER"
             /\ managerOf[u] \notin edited => user[managerOf[u]].seat[KindOf(u)] # None
             /\ managerOf[u] \notin edited \cup contested => user[managerOf[u]].seat[KindOf(u)] = u

IInv == TypeOK /\ Requests /\ Rows

-----------------------------------------------------------------------------
LEMMA Kinded == \A u \in Units : KindOf(u) \in Kinds /\ u # None
  BY StaffAssumption DEF Units, KindOf, Kinds

LEMMA Initial == Init => IInv
<1> SUFFICES ASSUME Init PROVE IInv
  OBVIOUS
<1> USE StaffAssumption DEF Init
<1>1. Nowhere \in Seats
  BY DEF Nowhere, Seats
<1>2. TypeOK
  BY <1>1 DEF TypeOK, Row, Absent, Nothing, Task, Nowhere, Kinds
<1>3. Requests
  BY DEF Requests, AloneUnlessContested, Nothing
<1>4. Rows
  BY DEF Rows, Absent
<1> QED
  BY <1>2, <1>3, <1>4 DEF IInv

\* Opening a branch or a department takes nothing back.
LEMMA CreateUnitStep ==
    ASSUME IInv, NEW u \in Units, CreateUnit(u)
    PROVE  IInv'
<1> USE DEF IInv, CreateUnit, history
<1>1. TypeOK'
  BY DEF TypeOK
<1>2. Requests'
  BY DEF Requests, ReadyToAssign, ReadyToCreate, AloneUnlessContested
<1>3. Rows'
  BY DEF Rows
<1> QED
  BY <1>1, <1>2, <1>3

LEMMA BeginAssignStep ==
    ASSUME IInv, NEW h \in Procs, NEW u \in Units, NEW p \in People, BeginAssign(h, u, p)
    PROVE  IInv'
<1> DEFINE t == [pc |-> "assign", unit |-> u, who |-> p]
<1>1. task' = [task EXCEPT ![h] = t] /\ UNCHANGED <<user, opened, managerOf, edited>>
  BY DEF BeginAssign, Awaits
<1>2. task \in [Procs -> Task] /\ t \in Task
  BY DEF IInv, TypeOK, Task
<1>3. task'[h] = t /\ \A g \in Procs : g # h => task'[g] = task[g]
  BY <1>1, <1>2
<1>4. contested \subseteq contested' /\ (Assigning(p) => p \in contested')
  BY DEF BeginAssign
<1>5. TypeOK'
  BY <1>1, <1>2 DEF IInv, TypeOK
<1>6. Requests'
  <2>1. ASSUME NEW g \in Procs, task'[g].pc = "assign" PROVE ReadyToAssign(task[g])'
    <3>1. CASE g = h
      BY <3>1, <1>1, <1>3, <1>4 DEF ReadyToAssign, BeginAssign, FreeFor
    <3>2. CASE g # h
      BY <2>1, <3>2, <1>1, <1>3, <1>4 DEF IInv, Requests, ReadyToAssign
    <3> QED
      BY <3>1, <3>2
  <2>2. ASSUME NEW g \in Procs, task'[g].pc = "create" PROVE ReadyToCreate(task[g])'
    BY <2>2, <1>1, <1>3 DEF IInv, Requests, ReadyToCreate
  <2>3. AloneUnlessContested'
    BY <1>3, <1>4 DEF IInv, Requests, AloneUnlessContested, Assigning
  <2> QED
    BY <2>1, <2>2, <2>3 DEF Requests
<1>7. Rows'
  BY <1>1, <1>4 DEF IInv, Rows
<1> QED
  BY <1>5, <1>6, <1>7 DEF IInv

\* The transaction of assignManager: what was read about the manager still holds.
LEMMA AssignStep ==
    ASSUME IInv, NEW h \in Procs, Assign(h)
    PROVE  IInv'
<1> DEFINE u == task[h].unit
           m == task[h].who
           k == KindOf(u)
<1>1. task[h] \in [pc : {"assign"}, unit : Units, who : People]
  BY DEF IInv, TypeOK, Task, Assign, Nothing
<1>2. u \in Units /\ m \in People /\ k \in Kinds /\ u # None
  BY <1>1, Kinded
<1>3. /\ u \in opened /\ user[m].level = "MANAGER"
      /\ m \notin edited \cup contested => user[m].seat[k] \in {None, u}
  BY DEF IInv, Requests, ReadyToAssign, Assign
<1>4. /\ managerOf' = [managerOf EXCEPT ![u] = m]
      /\ user' = [user EXCEPT ![m].seat[k] = u]
      /\ task' = [task EXCEPT ![h] = Nothing]
      /\ UNCHANGED <<opened, edited, contested>>
  BY DEF Assign, Done, Awaits, history
<1>5. user[m] \in Row /\ user \in [People -> Row \cup {Absent}] /\ user[m].seat \in Seats
  BY <1>2, <1>3 DEF IInv, TypeOK, Absent, Row
<1>6. /\ user'[m].level = user[m].level /\ user'[m].creator = user[m].creator
      /\ user'[m].seat = [user[m].seat EXCEPT ![k] = u]
      /\ \A p \in People : p # m => user'[p] = user[p]
  BY <1>2, <1>4, <1>5 DEF Row
<1>7. \A j \in Kinds : user'[m].seat[j] = IF j = k THEN u ELSE user[m].seat[j]
  BY <1>5, <1>6 DEF Seats, Kinds
<1>8. user'[m].seat \in Seats /\ user'[m].seat # Nowhere
  <2>1. k = "branch" => u \in Branches
    BY <1>2 DEF KindOf
  <2>2. k = "department" => u \in Departments
    BY <1>2 DEF KindOf, Units
  <2> QED
    BY <1>2, <1>5, <1>6, <2>1, <2>2 DEF Seats, Nowhere, Kinds
<1>9. TypeOK'
  <2>1. user'[m] \in Row
    BY <1>2, <1>4, <1>5, <1>8, <1>6 DEF Row
  <2>2. user' \in [People -> Row \cup {Absent}]
    BY <2>1, <1>4, <1>5, <1>6
  <2>3. managerOf' \in [Units -> People \cup {None}] /\ task' \in [Procs -> Task]
    BY <1>2, <1>4 DEF IInv, TypeOK, Task
  <2>4. \A p \in People, j \in Kinds : user'[p].seat[j] \in opened' \cup {None}
    BY <1>3, <1>4, <1>6, <1>7 DEF IInv, TypeOK
  <2> QED
    BY <2>2, <2>3, <2>4, <1>4 DEF IInv, TypeOK
<1>10. \A g \in Procs : g # h => task'[g] = task[g]
  BY <1>4 DEF IInv, TypeOK
<1>11. task'[h] = Nothing
  BY <1>4 DEF IInv, TypeOK
<1>12. Requests'
  <2>1. ASSUME NEW g \in Procs, task'[g].pc = "assign" PROVE ReadyToAssign(task[g])'
    <3>1. g # h /\ task'[g] = task[g] /\ task[g].pc = "assign"
      BY <2>1, <1>10, <1>11 DEF Nothing
    <3>2. task[g].who \in People
      BY <3>1 DEF IInv, TypeOK, Task, Nothing
    <3>3. CASE task[g].who = m
      <4>1. m \in contested
        BY <3>1, <3>3 DEF IInv, Requests, AloneUnlessContested, Assign
      <4> QED
        BY <3>1, <3>3, <4>1, <1>4, <1>6 DEF IInv, Requests, ReadyToAssign
    <3>4. CASE task[g].who # m
      BY <3>1, <3>2, <3>4, <1>4, <1>6 DEF IInv, Requests, ReadyToAssign
    <3> QED
      BY <3>3, <3>4
  <2>2. ASSUME NEW g \in Procs, task'[g].pc = "create" PROVE ReadyToCreate(task[g])'
    <3>1. g # h /\ task'[g] = task[g] /\ task[g].pc = "create"
      BY <2>2, <1>10, <1>11 DEF Nothing
    <3>2. task[g].creator \in People
      BY <3>1 DEF IInv, TypeOK, Task, Nothing
    <3> QED
      BY <3>1, <3>2, <1>4, <1>6 DEF IInv, Requests, ReadyToCreate
  <2>3. AloneUnlessContested'
    BY <1>4, <1>10, <1>11 DEF IInv, Requests, AloneUnlessContested, Nothing
  <2> QED
    BY <2>1, <2>2, <2>3 DEF Requests
<1>13. Rows'
  <2>1. \A p \in People : user'[p].level = user[p].level /\ user'[p].creator = user[p].creator
    BY <1>6
  <2>2. \A p \in People :
          /\ user'[p].level = "MANAGER" =>
                user'[p].creator = Owner /\ (user'[p].seat # Nowhere \/ p \in edited')
          /\ user'[p].level = "WORKER" =>
                /\ user'[p].creator \in People
                /\ user'[user'[p].creator].level = "MANAGER"
                /\ user'[p].seat # Nowhere \/ p \in edited' \/ user'[p].creator \in edited'
    BY <2>1, <1>4, <1>6, <1>8 DEF IInv, Rows
  <2>3. ASSUME NEW v \in Units, managerOf'[v] # None
        PROVE  /\ v \in opened' /\ user'[managerOf'[v]].level = "MANAGER"
               /\ managerOf'[v] \notin edited' => user'[managerOf'[v]].seat[KindOf(v)] # None
               /\ managerOf'[v] \notin edited' \cup contested' =>
                     user'[managerOf'[v]].seat[KindOf(v)] = v
    <3>1. CASE v = u
      <4>1. managerOf'[v] = m
        BY <3>1, <1>4, <1>2 DEF IInv, TypeOK
      <4> QED
        BY <4>1, <3>1, <1>2, <1>3, <1>4, <1>6, <1>7
    <3>2. CASE v # u
      <4>1. managerOf'[v] = managerOf[v] /\ managerOf[v] \in People
        BY <2>3, <3>2, <1>4 DEF IInv, TypeOK
      <4>2. /\ v \in opened /\ user[managerOf[v]].level = "MANAGER"
            /\ managerOf[v] \notin edited => user[managerOf[v]].seat[KindOf(v)] # None
            /\ managerOf[v] \notin edited \cup contested => user[managerOf[v]].seat[KindOf(v)] = v
        BY <2>3, <4>1 DEF IInv, Rows
      <4>3. CASE managerOf[v] # m
        BY <4>1, <4>2, <4>3, <1>4, <1>6
      <4>4. CASE managerOf[v] = m
        <5>1. KindOf(v) \in Kinds /\ v # None
          BY Kinded
        <5>2. m \notin edited \cup contested => KindOf(v) # k
          BY <4>2, <4>4, <5>1, <1>3, <3>2
        <5> QED
          BY <4>1, <4>2, <4>4, <5>1, <5>2, <1>2, <1>3, <1>4, <1>6, <1>7
      <4> QED
        BY <4>3, <4>4
    <3> QED
      BY <3>1, <3>2
  <2>4. \A p \in People : user'[p].level = "OWNER" <=> p = Owner
    BY <2>1 DEF IInv, Rows
  <2> QED
    BY <2>2, <2>3, <2>4 DEF Rows
<1> QED
  BY <1>9, <1>12, <1>13 DEF IInv

LEMMA BeginCreateStep ==
    ASSUME IInv, NEW h \in Procs, NEW creator \in People, NEW level \in {"MANAGER", "WORKER"},
           BeginCreate(h, creator, level)
    PROVE  IInv'
<1>1. PICK s \in SeatsFor(creator, level) :
         task' = [task EXCEPT ![h] =
            [pc |-> "create", level |-> level, creator |-> creator, seat |-> s]]
  BY DEF BeginCreate, Awaits
<1> DEFINE t == [pc |-> "create", level |-> level, creator |-> creator, seat |-> s]
<1>2. UNCHANGED <<user, opened, managerOf, edited, contested>>
  BY DEF BeginCreate, history
<1>3. \/ level = "MANAGER" /\ creator = Owner /\ s \in ManagerSeats
      \/ level = "WORKER" /\ user[creator].level = "MANAGER" /\ s = user[creator].seat
  BY DEF BeginCreate, MayCreate, SeatsFor, IInv, Rows
<1>4. s \in Seats /\ \A k \in Kinds : s[k] \in opened \cup {None}
  <2>1. user[creator].level = "MANAGER" => user[creator].seat \in Seats
    BY DEF IInv, TypeOK, Row, Absent
  <2> QED
    BY <2>1, <1>3 DEF ManagerSeats, IInv, TypeOK
<1>5. task'[h] = t /\ \A g \in Procs : g # h => task'[g] = task[g]
  BY <1>1 DEF IInv, TypeOK
<1>6. TypeOK'
  <2>1. t \in Task
    BY <1>4 DEF Task
  <2> QED
    BY <2>1, <1>1, <1>2 DEF IInv, TypeOK
<1>7. Requests'
  <2>1. ASSUME NEW g \in Procs, task'[g].pc = "assign" PROVE ReadyToAssign(task[g])'
    BY <2>1, <1>2, <1>5 DEF IInv, Requests, ReadyToAssign
  <2>2. ASSUME NEW g \in Procs, task'[g].pc = "create" PROVE ReadyToCreate(task[g])'
    <3>1. CASE g = h
      BY <3>1, <1>2, <1>3, <1>4, <1>5 DEF ReadyToCreate, ManagerSeats, IInv, Rows
    <3>2. CASE g # h
      BY <2>2, <3>2, <1>2, <1>5 DEF IInv, Requests, ReadyToCreate
    <3> QED
      BY <3>1, <3>2
  <2>3. AloneUnlessContested'
    BY <1>2, <1>5 DEF IInv, Requests, AloneUnlessContested
  <2> QED
    BY <2>1, <2>2, <2>3 DEF Requests
<1>8. Rows'
  BY <1>2 DEF IInv, Rows
<1> QED
  BY <1>6, <1>7, <1>8 DEF IInv

\* The new row takes an id nobody had, so nothing known of others changes.
LEMMA CreateStep ==
    ASSUME IInv, NEW h \in Procs, NEW p \in People, Create(h, p)
    PROVE  IInv'
<1> DEFINE t == task[h]
           row == [level |-> t.level, creator |-> t.creator, seat |-> t.seat]
<1>1. t \in [pc : {"create"}, level : {"MANAGER", "WORKER"}, creator : People, seat : Seats]
  BY DEF IInv, TypeOK, Task, Create, Nothing
<1>2. ReadyToCreate(t)
  BY DEF IInv, Requests, Create
<1>3. /\ user[p].level = "NONE" /\ user' = [user EXCEPT ![p] = row]
      /\ task' = [task EXCEPT ![h] = Nothing]
      /\ UNCHANGED <<opened, managerOf, edited, contested>>
  BY DEF Create, Exists, Done, Awaits, history
<1>4. user'[p] = row /\ \A q \in People : q # p => user'[q] = user[q]
  BY <1>3 DEF IInv, TypeOK
<1>5. task'[h] = Nothing /\ \A g \in Procs : g # h => task'[g] = task[g]
  BY <1>3 DEF IInv, TypeOK
<1>6. t.creator # p
  BY <1>2, <1>3, <1>1 DEF ReadyToCreate, IInv, Rows
<1>7. TypeOK'
  <2>1. row \in Row
    BY <1>1 DEF Row
  <2>2. user' \in [People -> Row \cup {Absent}] /\ task' \in [Procs -> Task]
    BY <2>1, <1>3 DEF IInv, TypeOK, Task
  <2>3. \A q \in People, k \in Kinds : user'[q].seat[k] \in opened' \cup {None}
    BY <1>2, <1>3, <1>4 DEF IInv, TypeOK, ReadyToCreate
  <2> QED
    BY <2>2, <2>3, <1>3 DEF IInv, TypeOK
<1>8. Requests'
  <2>1. ASSUME NEW g \in Procs, task'[g].pc = "assign" PROVE ReadyToAssign(task[g])'
    <3>1. g # h /\ task'[g] = task[g] /\ task[g].pc = "assign"
      BY <2>1, <1>5 DEF Nothing
    <3>2. task[g].who \in People /\ task[g].who # p
      BY <3>1, <1>3 DEF IInv, TypeOK, Task, Nothing, Requests, ReadyToAssign
    <3> QED
      BY <3>1, <3>2, <1>3, <1>4 DEF IInv, Requests, ReadyToAssign
  <2>2. ASSUME NEW g \in Procs, task'[g].pc = "create" PROVE ReadyToCreate(task[g])'
    <3>1. g # h /\ task'[g] = task[g] /\ task[g].pc = "create"
      BY <2>2, <1>5 DEF Nothing
    <3>2. task[g].creator \in People
      BY <3>1 DEF IInv, TypeOK, Task, Nothing
    <3> QED
      BY <3>1, <3>2, <1>3, <1>4 DEF IInv, Requests, ReadyToCreate
  <2>3. AloneUnlessContested'
    BY <1>3, <1>5 DEF IInv, Requests, AloneUnlessContested, Nothing
  <2> QED
    BY <2>1, <2>2, <2>3 DEF Requests
<1>9. Rows'
  <2>1. \A q \in People : user'[q].level = "OWNER" <=> q = Owner
    BY <1>1, <1>3, <1>4 DEF IInv, Rows
  <2>2. \A q \in People : user'[q].level = "MANAGER" =>
           user'[q].creator = Owner /\ (user'[q].seat # Nowhere \/ q \in edited')
    BY <1>2, <1>3, <1>4 DEF IInv, Rows, ReadyToCreate
  <2>3. ASSUME NEW q \in People, user'[q].level = "WORKER"
        PROVE  /\ user'[q].creator \in People
               /\ user'[user'[q].creator].level = "MANAGER"
               /\ user'[q].seat # Nowhere \/ q \in edited' \/ user'[q].creator \in edited'
    <3>1. CASE q = p
      BY <2>3, <3>1, <1>1, <1>2, <1>3, <1>4, <1>6 DEF ReadyToCreate
    <3>2. CASE q # p
      BY <2>3, <3>2, <1>3, <1>4 DEF IInv, Rows
    <3> QED
      BY <3>1, <3>2
  <2>4. ASSUME NEW u \in Units, managerOf'[u] # None
        PROVE  /\ u \in opened' /\ user'[managerOf'[u]].level = "MANAGER"
               /\ managerOf'[u] \notin edited' => user'[managerOf'[u]].seat[KindOf(u)] # None
               /\ managerOf'[u] \notin edited' \cup contested' =>
                     user'[managerOf'[u]].seat[KindOf(u)] = u
    <3>1. managerOf'[u] = managerOf[u] /\ managerOf[u] \in People /\ managerOf[u] # p
      BY <2>4, <1>3 DEF IInv, TypeOK, Rows
    <3> QED
      BY <2>4, <3>1, <1>3, <1>4 DEF IInv, Rows
  <2> QED
    BY <2>1, <2>2, <2>3, <2>4 DEF Rows
<1> QED
  BY <1>7, <1>8, <1>9 DEF IInv

LEMMA UpdateUserStep ==
    ASSUME IInv, NEW p \in People, NEW s \in Seats, UpdateUser(p, s)
    PROVE  IInv'
<1>1. /\ user' = [user EXCEPT ![p].seat = s] /\ edited' = edited \cup {p}
      /\ UNCHANGED <<opened, managerOf, task, contested>>
      /\ user[p].level # "NONE" /\ \A k \in Kinds : s[k] \in opened \cup {None}
  BY DEF UpdateUser, Exists
<1>2. user \in [People -> Row \cup {Absent}] /\ user[p] \in Row
  BY <1>1 DEF IInv, TypeOK, Absent
<1>3. /\ user'[p] = [user[p] EXCEPT !.seat = s]
      /\ \A q \in People : q # p => user'[q] = user[q]
      /\ \A q \in People : user'[q].level = user[q].level /\ user'[q].creator = user[q].creator
  BY <1>1, <1>2 DEF Row
<1>4. TypeOK'
  <2>1. user'[p] \in Row /\ user'[p].seat = s
    BY <1>2, <1>3 DEF Row
  <2> QED
    BY <2>1, <1>1, <1>2, <1>3 DEF IInv, TypeOK
<1>5. Requests'
  <2>1. ASSUME NEW g \in Procs, task'[g].pc = "assign" PROVE ReadyToAssign(task[g])'
    <3>1. task'[g] = task[g] /\ task[g].who \in People
      BY <2>1, <1>1 DEF IInv, TypeOK, Task, Nothing
    <3> QED
      BY <2>1, <3>1, <1>1, <1>3 DEF IInv, Requests, ReadyToAssign
  <2>2. ASSUME NEW g \in Procs, task'[g].pc = "create" PROVE ReadyToCreate(task[g])'
    <3>1. task'[g] = task[g] /\ task[g].creator \in People
      BY <2>2, <1>1 DEF IInv, TypeOK, Task, Nothing
    <3> QED
      BY <2>2, <3>1, <1>1, <1>3 DEF IInv, Requests, ReadyToCreate
  <2>3. AloneUnlessContested'
    BY <1>1 DEF IInv, Requests, AloneUnlessContested
  <2> QED
    BY <2>1, <2>2, <2>3 DEF Requests
<1>6. Rows'
  <2>1. ASSUME NEW u \in Units, managerOf'[u] # None
        PROVE  /\ u \in opened' /\ user'[managerOf'[u]].level = "MANAGER"
               /\ managerOf'[u] \notin edited' => user'[managerOf'[u]].seat[KindOf(u)] # None
               /\ managerOf'[u] \notin edited' \cup contested' =>
                     user'[managerOf'[u]].seat[KindOf(u)] = u
    <3>1. managerOf'[u] = managerOf[u] /\ managerOf[u] \in People
      BY <2>1, <1>1 DEF IInv, TypeOK
    <3> QED
      BY <2>1, <3>1, <1>1, <1>3 DEF IInv, Rows
  <2>2. \A q \in People : user'[q].level = "OWNER" <=> q = Owner
    BY <1>3 DEF IInv, Rows
  <2>3. \A q \in People : user'[q].level = "MANAGER" =>
           user'[q].creator = Owner /\ (user'[q].seat # Nowhere \/ q \in edited')
    BY <1>1, <1>3 DEF IInv, Rows
  <2>4. ASSUME NEW q \in People, user'[q].level = "WORKER"
        PROVE  /\ user'[q].creator \in People
               /\ user'[user'[q].creator].level = "MANAGER"
               /\ user'[q].seat # Nowhere \/ q \in edited' \/ user'[q].creator \in edited'
    BY <2>4, <1>1, <1>3 DEF IInv, Rows
  <2> QED
    BY <2>1, <2>2, <2>3, <2>4 DEF Rows
<1> QED
  BY <1>4, <1>5, <1>6 DEF IInv

THEOREM Invariance == Spec => []IInv
<1>1. Init => IInv
  BY Initial
<1>2. IInv /\ [Next]_vars => IInv'
  <2> SUFFICES ASSUME IInv, [Next]_vars PROVE IInv'
    OBVIOUS
  <2>1. CASE \E u \in Units : CreateUnit(u)
    BY <2>1, CreateUnitStep
  <2>2. CASE \E h \in Procs, u \in Units, p \in People : BeginAssign(h, u, p)
    BY <2>2, BeginAssignStep
  <2>3. CASE \E h \in Procs : Assign(h)
    BY <2>3, AssignStep
  <2>4. CASE \E h \in Procs, creator \in People, level \in {"MANAGER", "WORKER"} :
                BeginCreate(h, creator, level)
    BY <2>4, BeginCreateStep
  <2>5. CASE \E h \in Procs, p \in People : Create(h, p)
    BY <2>5, CreateStep
  <2>6. CASE \E p \in People, s \in Seats : UpdateUser(p, s)
    BY <2>6, UpdateUserStep
  <2>7. CASE UNCHANGED vars
    BY <2>7 DEF vars, IInv, TypeOK, Requests, ReadyToAssign, ReadyToCreate,
                AloneUnlessContested, Rows
  <2> QED
    BY <2>1, <2>2, <2>3, <2>4, <2>5, <2>6, <2>7 DEF Next
<1> QED
  BY <1>1, <1>2, PTL DEF Spec

-----------------------------------------------------------------------------
\* The tables stay well typed and refer only to what exists, whatever overlaps.
THEOREM TypeCorrect == Spec => []TypeOK
<1>1. IInv => TypeOK
  BY DEF IInv
<1> QED
  BY <1>1, Invariance, PTL

\* Managers answer to the owner, workers to a manager (createManager, createWorker).
THEOREM CommandChainHolds == Spec => []ChainOfCommand
<1>1. IInv => ChainOfCommand
  BY StaffAssumption DEF IInv, Rows, ChainOfCommand
<1> QED
  BY <1>1, Invariance, PTL

\* Nobody manages two branches, or two departments, but by overlapping assignments or
\* after updateUser has moved that person (assignManager).
THEOREM SinglyAssigned == Spec => []SingleAssignment
<1>1. IInv => SingleAssignment
  BY DEF IInv, Rows, SingleAssignment
<1> QED
  BY <1>1, Invariance, PTL

\* The manager of a branch or a department is a manager with a seat of that kind.
THEOREM ManagersSeated == Spec => []ManagersAreSeated
<1>1. IInv => ManagersAreSeated
  BY DEF IInv, TypeOK, Rows, ManagersAreSeated, Units
<1> QED
  BY <1>1, Invariance, PTL

\* Everyone below the owner has a scope that nobody but updateUser takes away.
THEOREM ScopeForEveryone == Spec => []EveryoneHasScope
<1>1. IInv => EveryoneHasScope
  BY DEF IInv, TypeOK, Row, Absent, Rows, EveryoneHasScope, Exists
<1> QED
  BY <1>1, Invariance, PTL
=============================================================================
