--------------------------- MODULE PlatformProofs ---------------------------
(***************************************************************************)
(* What a request meets besides its own service, for any number of         *)
(* requests, rows, rules and listeners: the middlewares before the         *)
(* database, transactions, the audit log, events, the approval rules, the  *)
(* authorization check, and what the client is told when one fails.        *)
(***************************************************************************)
EXTENDS Authorization, QueryPipeline, AuditTrail, EventBus, TransactionContext, ErrorReplies,
        SequenceTheorems, FiniteSetTheorems, WellFoundedInduction, TLAPS

-----------------------------------------------------------------------------
(***************************************************************************)
(* The scope of a query, for any number of requests and any users.  What   *)
(* makes it right is that the user in the context is the one the guard has *)
(* found: the interceptor copies it, and no guard runs inside of a context.*)
(***************************************************************************)

\* The context of a request is its own, and what came back was narrowed to it.
ContextIsOwn ==
  /\ DOMAIN user = Handlers /\ DOMAIN store = Handlers /\ DOMAIN answer = Handlers
  /\ \A h \in Handlers :
       /\ store[h].inside => store[h].user = user[h]
       /\ answer[h].asked /\ answer[h].inside =>
            /\ store[h].inside
            /\ answer[h].query \in Queries
            /\ answer[h].scope = Rewritten(answer[h].query, user[h]).scope

LEMMA InitPipeline == PipelineInit => ContextIsOwn
  BY DEF PipelineInit, ContextIsOwn, Outside, NoAnswer

LEMMA PipelineInductive == ContextIsOwn /\ [PipelineNext]_pipelineVars => ContextIsOwn'
<1> SUFFICES ASSUME ContextIsOwn, [PipelineNext]_pipelineVars PROVE ContextIsOwn'
  OBVIOUS
<1>1. CASE UNCHANGED pipelineVars
  BY <1>1 DEF pipelineVars, ContextIsOwn
<1>2. ASSUME NEW h \in Handlers, NEW u, Guard(h, u) PROVE ContextIsOwn'
  BY <1>2 DEF Guard, ContextIsOwn
<1>3. ASSUME NEW h \in Handlers, InterceptRequest(h) PROVE ContextIsOwn'
  BY <1>3 DEF InterceptRequest, ContextIsOwn, NoAnswer
<1>4. ASSUME NEW h \in Handlers, Leave(h) PROVE ContextIsOwn'
  BY <1>4 DEF Leave, ContextIsOwn, Outside, NoAnswer
<1>5. ASSUME NEW h \in Handlers, NEW q \in Queries, Query(h, q) PROVE ContextIsOwn'
  <2>1. PICK sent : sent = Rewritten(q, store[h].user)
    OBVIOUS
  <2>2. PICK ok : ok = FitsSchema(sent)
    OBVIOUS
  <2>3. /\ answer' = [answer EXCEPT ![h] =
              [asked |-> TRUE, query |-> q, inside |-> store[h].inside, scope |-> sent.scope,
               ok |-> ok]]
        /\ UNCHANGED <<user, store>>
    BY <1>5, <2>1, <2>2 DEF Query, GetUserContext
  <2>4. /\ answer'[h].query = q /\ answer'[h].inside = store[h].inside
        /\ answer'[h].scope = sent.scope
        /\ \A g \in Handlers \ {h} : answer'[g] = answer[g]
        /\ DOMAIN answer' = Handlers
    BY <2>3 DEF ContextIsOwn
  <2>5. store[h].inside => answer'[h].scope = Rewritten(q, user[h]).scope
    BY <2>1, <2>4 DEF ContextIsOwn
  <2> QED
    BY <2>3, <2>4, <2>5 DEF ContextIsOwn
<1> QED
  BY <1>1, <1>2, <1>3, <1>4, <1>5 DEF PipelineNext

\* Reading users, only the scope filter has a part in the query.
LEMMA ScopeOfReads ==
  ASSUME NEW q \in Queries, NEW u, q.model = "users", q.action \in Reads
  PROVE  Rewritten(q, u).scope =
           IF u = None \/ u.level = "OWNER" \/ (u.branchId = None /\ u.departmentId = None)
           THEN Unscoped ELSE [branchId |-> u.branchId, departmentId |-> u.departmentId]
<1>1. Timestamp(q) = q /\ Tenant(q, None) = q
  BY DEF Timestamp, Tenant, Reads
<1>2. PICK w : w = ScopeFilter(q, u)
  OBVIOUS
<1>3. /\ q.scope = Unscoped
      /\ q \in [model : {"users"}, action : Reads, where : {{"id"}}, data : {{}},
                scope : {Unscoped}]
  <2>1. q \in [model : DOMAIN Columns, action : {"findUnique", "findMany"}, where : {{"id"}},
               data : {{}}, scope : {Unscoped}]
    BY DEF Queries, Reads
  <2> QED
    BY <2>1 DEF Reads
<1>4. /\ w.model = "users"
      /\ w.scope = IF u = None \/ u.level = "OWNER" \/ (u.branchId = None /\ u.departmentId = None)
                   THEN Unscoped ELSE [branchId |-> u.branchId, departmentId |-> u.departmentId]
  <2>1. CASE u = None \/ u.level = "OWNER" \/ (u.branchId = None /\ u.departmentId = None)
    BY <1>2, <1>3, <2>1 DEF ScopeFilter
  <2>2. CASE ~ (u = None \/ u.level = "OWNER" \/ (u.branchId = None /\ u.departmentId = None))
    <3>1. PICK s : s = [branchId |-> u.branchId, departmentId |-> u.departmentId]
      OBVIOUS
    <3>2. w = [q EXCEPT !.where = {}, !.scope = s]
      BY <1>2, <2>2, <3>1 DEF ScopeFilter, Narrow
    <3>3. w.model = "users" /\ w.scope = s
      BY <1>3, <3>2
    <3> QED
      BY <2>2, <3>1, <3>3
  <2> QED
    BY <2>1, <2>2
<1>5. SoftDelete(w) = w
  BY <1>4 DEF SoftDelete
<1> QED
  BY <1>1, <1>2, <1>4, <1>5 DEF Rewritten

\* For any number of requests that interleave and any users: the rows of users that a handler
\* gets are those of the scope of the user who asks, and all of them.
THEOREM ReadsStayInScope == PipelineSpec => []ScopeRespected
<1>1. ContextIsOwn => ScopeRespected
  <2> SUFFICES ASSUME ContextIsOwn, NEW h \in Handlers, NEW place \in UserRows, Answered(h),
                      answer[h].query.model = "users", answer[h].query.action \in Reads,
                      NEW u, u = user[h]
               PROVE  Within(place, answer[h].scope) <=>
                        \/ u = None \/ u.level = "OWNER"
                        \/ Within(place, [branchId |-> u.branchId, departmentId |-> u.departmentId])
    BY DEF ScopeRespected
  <2>1. answer[h].scope =
           IF u = None \/ u.level = "OWNER" \/ (u.branchId = None /\ u.departmentId = None)
           THEN Unscoped ELSE [branchId |-> u.branchId, departmentId |-> u.departmentId]
    BY ScopeOfReads DEF ContextIsOwn, Answered
  <2>2. Within(place, Unscoped)
    BY DEF Within, Unscoped
  <2>3. u.branchId = None /\ u.departmentId = None =>
          Within(place, [branchId |-> u.branchId, departmentId |-> u.departmentId])
    BY DEF Within
  <2> QED
    BY <2>1, <2>2, <2>3
<1> QED
  BY <1>1, InitPipeline, PipelineInductive, PTL DEF PipelineSpec
-----------------------------------------------------------------------------
(***************************************************************************)
(* Decorated calls that do not overlap are isolated, for any number of     *)
(* calls and services, whatever fails.                                     *)
(***************************************************************************)

Clients == TxCalls \cup {Client}

Underway ==
    [at : {"begin", "inside", "end"}, on : Objects, client : Clients, aside : Clients,
     own : BOOLEAN]

TxTypeOK ==
    /\ context \in TxCalls \cup {"none"}
    /\ prisma \in [Objects -> Clients]
    /\ txCall \in [TxCalls -> Underway \cup {Done}]
    /\ wrote \in [TxCalls -> SUBSET Clients]
    /\ crossed \in BOOLEAN

\* The fields of all services hold the client itself, but for that of service o.
Untouched(o) == \A s \in Objects \ {o} : prisma[s] = Client

\* What the only call under way knows at each await: it is the one that opens the
\* transaction, and what it has set is still there.
Alone ==
    \A c \in TxCalls : ~ TxAt(c, "done") =>
        /\ \A d \in TxCalls \ {c} : TxAt(d, "done")
        /\ txCall[c].own /\ txCall[c].client = Client /\ txCall[c].aside = Client
        /\ Untouched(txCall[c].on)
        /\ prisma[txCall[c].on] = IF TxAt(c, "inside") THEN c ELSE Client

Clean ==
    /\ AtRest => context = "none" /\ \A o \in Objects : prisma[o] = Client
    /\ \A c \in TxCalls : wrote[c] \subseteq {c}

IInv == TxTypeOK /\ (~ crossed => Alone /\ Clean)

LEMMA InitialState == TxInit => IInv
<1> SUFFICES ASSUME TxInit PROVE IInv
  OBVIOUS
<1>1. TxTypeOK
  BY DEF TxInit, TxTypeOK, Clients
<1>2. \A c \in TxCalls : TxAt(c, "done")
  BY DEF TxInit, TxAt, Done
<1>3. Clean
  BY DEF TxInit, Clean
<1> QED
  BY <1>1, <1>2, <1>3 DEF IInv, Alone

\* A step keeps the types; who is done has no other fields.
LEMMA TypesKept ==
    ASSUME TxTypeOK, [TxNext]_txVars PROVE TxTypeOK'
<1> USE DEF TxTypeOK, Clients, Underway, Done, Moves, TxAt
<1>1. ASSUME NEW c \in TxCalls, NEW o \in Objects, Call(c, o) PROVE TxTypeOK'
  BY <1>1 DEF Call
<1>2. ASSUME NEW c \in TxCalls, TxBegin(c) PROVE TxTypeOK'
  <2>1. txCall[c] \in Underway /\ txCall[c].on \in Objects
    BY <1>2 DEF TxBegin
  <2>2. [txCall[c] EXCEPT !.at = "inside", !.aside = prisma[txCall[c].on]] \in Underway
    BY <2>1
  <2> QED
    BY <1>2, <2>1, <2>2 DEF TxBegin
<1>3. ASSUME NEW c \in TxCalls, FailToBegin(c) PROVE TxTypeOK'
  BY <1>3 DEF FailToBegin
<1>4. ASSUME NEW c \in TxCalls, Write(c) PROVE TxTypeOK'
  BY <1>4 DEF Write, Through
<1>5. ASSUME NEW c \in TxCalls, End(c) PROVE TxTypeOK'
  BY <1>5 DEF End
<1>6. ASSUME NEW c \in TxCalls, NEW fails \in BOOLEAN, Return(c, fails) PROVE TxTypeOK'
  BY <1>6 DEF Return, Restore
<1>7. CASE UNCHANGED txVars
  BY <1>7 DEF txVars
<1> QED
  BY <1>1, <1>2, <1>3, <1>4, <1>5, <1>6, <1>7 DEF TxNext

\* As long as no two calls have overlapped, the one under way is alone.
LEMMA IsolationKept ==
    ASSUME IInv, ~ crossed', [TxNext]_txVars PROVE Alone' /\ Clean'
<1> USE DEF IInv, TxTypeOK, Clients, Underway, Done, Moves, TxAt, AtRest, Untouched
<1>0. ~ crossed
  BY DEF TxNext, Call, TxBegin, FailToBegin, Write, End, Return, txVars
<1>1. ASSUME NEW c \in TxCalls, NEW o \in Objects, Call(c, o) PROVE Alone' /\ Clean'
  <2>1. AtRest /\ context = "none" /\ \A s \in Objects : prisma[s] = Client
    BY <1>0, <1>1 DEF Call, Clean
  <2> QED
    BY <1>0, <1>1, <2>1 DEF Call, Alone, Clean
<1>2. ASSUME NEW c \in TxCalls, TxBegin(c) PROVE Alone' /\ Clean'
  BY <1>0, <1>2 DEF TxBegin, Alone, Clean
<1>3. ASSUME NEW c \in TxCalls, FailToBegin(c) PROVE Alone' /\ Clean'
  BY <1>0, <1>3 DEF FailToBegin, Alone, Clean
<1>4. ASSUME NEW c \in TxCalls, Write(c) PROVE Alone' /\ Clean'
  BY <1>0, <1>4 DEF Write, Through, Alone, Clean
<1>5. ASSUME NEW c \in TxCalls, End(c) PROVE Alone' /\ Clean'
  BY <1>0, <1>5 DEF End, Alone, Clean
<1>6. ASSUME NEW c \in TxCalls, NEW fails \in BOOLEAN, Return(c, fails)
      PROVE Alone' /\ Clean'
  BY <1>0, <1>6 DEF Return, Restore, Alone, Clean
<1>7. CASE UNCHANGED txVars
  BY <1>0, <1>7 DEF txVars, Alone, Clean
<1> QED
  BY <1>1, <1>2, <1>3, <1>4, <1>5, <1>6, <1>7 DEF TxNext

\* For any number of calls and services, and whatever fails: as long as no two decorated
\* calls overlap, each one's statements run in its own transaction, and the context and
\* the clients are back when it is over (transaction.decorator.ts).
THEOREM SerialIsolation == TxSpec => []SerialCallsIsolated
<1>1. IInv /\ [TxNext]_txVars => IInv'
  BY TypesKept, IsolationKept DEF IInv
<1>2. IInv => SerialCallsIsolated
  BY DEF IInv, SerialCallsIsolated, Clean
<1> QED
  BY InitialState, <1>1, <1>2, PTL DEF TxSpec

-----------------------------------------------------------------------------
(***************************************************************************)
(* The audit log for any number of operations, readers and rows a page,    *)
(* and any clocks: rows are only ever added, so what was written stays,    *)
(* and what a reader has not reached yet moves further away from it.  A    *)
(* row whose createdAt is its own has one place in every order a query     *)
(* may return.                                                             *)
(***************************************************************************)

Reports == {Report(f, result) : f \in DOMAIN Fields, result \in {"SUCCESS", "FAILURE"}}
LogRow == [call : Calls, report : Reports, try : Nat, createdAt : Nat]
JobState == {"waiting", "delayed", "refused", "active", "written", "done", "failed"}
NoJob == [state : {"idle", "unaudited"}]
Job == [state : {"reported"} \cup JobState, report : Reports, made : Nat, stalls : Nat]

AuditTypeOK ==
  /\ call \in [Calls -> NoJob \cup Job]
  /\ log \in Seq(LogRow)
  /\ reader \in [Readers -> [at : Nat, owed : SUBSET LogRow]]

\* What a worker has written is in the log.
InLog(c) == \E i \in DOMAIN log : log[i].call = c /\ log[i].report = call[c].report
WrittenIsThere == \A c \in Calls : call[c].state \in {"written", "done"} => InLog(c)

\* What a reader has yet to see is beyond its offset, and nothing is once it is done; or it
\* shares its createdAt.
Ahead(x, offset) == \E i \in DOMAIN log : i > offset /\ log[i] = x
RestIsAhead ==
  \A r \in Readers : \A x \in reader[r].owed :
    Tied(x) \/ (reader[r].at # 0 /\ Ahead(x, reader[r].at))

AuditInv == AuditTypeOK /\ WrittenIsThere /\ RestIsAhead

LEMMA InitAudit == AuditInit => AuditInv
<1> SUFFICES ASSUME AuditInit PROVE AuditInv
  OBVIOUS
<1>1. AuditTypeOK
  <2>1. call \in [Calls -> NoJob \cup Job]
    BY DEF AuditInit, NoJob
  <2>2. log \in Seq(LogRow) /\ reader \in [Readers -> [at : Nat, owed : SUBSET LogRow]]
    BY DEF AuditInit
  <2> QED
    BY <2>1, <2>2 DEF AuditTypeOK
<1>2. WrittenIsThere /\ RestIsAhead
  BY DEF AuditInit, WrittenIsThere, RestIsAhead
<1> QED
  BY <1>1, <1>2 DEF AuditInv

\* Adding a row leaves the others where they are or moves them on.
LEMMA RowAdded ==
  ASSUME NEW x \in LogRow, log \in Seq(LogRow), NEW k \in 1 .. Len(log) + 1,
         log' = InsertAt(log, k, x)
  PROVE  /\ log' \in Seq(LogRow)
         /\ k \in DOMAIN log' /\ log'[k] = x
         /\ \A i \in DOMAIN log : \E j \in DOMAIN log' : j >= i /\ log'[j] = log[i]
<1>0. k \in Nat /\ k >= 1 /\ k <= Len(log) + 1 /\ DOMAIN log = 1 .. Len(log)
  OBVIOUS
<1>1. PICK front : front = SubSeq(log, 1, k - 1)
  OBVIOUS
<1>2. front \in Seq(LogRow) /\ Len(front) = k - 1 /\ \A i \in 1 .. k - 1 : front[i] = log[i]
  <2>1. \A i \in 1 .. k - 1 : log[i] \in LogRow
    BY <1>0
  <2>2. /\ front \in Seq(LogRow)
        /\ Len(front) = IF 1 <= k - 1 THEN (k - 1) - 1 + 1 ELSE 0
        /\ \A i \in 1 .. (k - 1) - 1 + 1 : front[i] = log[1 + i - 1]
    BY <1>0, <1>1, <2>1, SubSeqProperties
  <2> QED
    BY <1>0, <2>2
<1>3. PICK rest : rest = SubSeq(log, k, Len(log))
  OBVIOUS
<1>4. /\ rest \in Seq(LogRow) /\ Len(rest) = Len(log) - k + 1
      /\ \A i \in 1 .. Len(log) - k + 1 : rest[i] = log[k + i - 1]
  <2>1. \A i \in k .. Len(log) : log[i] \in LogRow
    BY <1>0
  <2>2. /\ rest \in Seq(LogRow)
        /\ Len(rest) = IF k <= Len(log) THEN Len(log) - k + 1 ELSE 0
        /\ \A i \in 1 .. Len(log) - k + 1 : rest[i] = log[k + i - 1]
    BY <1>0, <1>3, <2>1, SubSeqProperties
  <2> QED
    BY <1>0, <2>2
<1>5. PICK head : head = front \o <<x>>
  OBVIOUS
<1>6. /\ head \in Seq(LogRow) /\ Len(head) = k /\ head[k] = x
      /\ \A i \in 1 .. k - 1 : head[i] = log[i]
  <2>1. head = Append(front, x)
    BY <1>2, <1>5
  <2> QED
    BY <1>0, <1>2, <2>1
<1>7. /\ log' \in Seq(LogRow) /\ Len(log') = Len(log) + 1
      /\ \A i \in 1 .. k : log'[i] = head[i]
      /\ \A i \in 1 .. Len(log) - k + 1 : log'[k + i] = rest[i]
  <2>1. log' = head \o rest
    BY <1>1, <1>3, <1>5 DEF InsertAt
  <2>2. /\ head \o rest \in Seq(LogRow) /\ Len(head \o rest) = Len(head) + Len(rest)
        /\ \A i \in 1 .. Len(head) + Len(rest) :
             (head \o rest)[i] = IF i <= Len(head) THEN head[i] ELSE rest[i - Len(head)]
    BY <1>4, <1>6, ConcatProperties
  <2> QED
    BY <1>0, <1>4, <1>6, <2>1, <2>2
<1>8. k \in DOMAIN log' /\ log'[k] = x
  BY <1>0, <1>6, <1>7
<1>9. ASSUME NEW i \in DOMAIN log PROVE \E j \in DOMAIN log' : j >= i /\ log'[j] = log[i]
  <2>1. CASE i < k
    BY <1>0, <1>6, <1>7, <2>1
  <2>2. CASE i >= k
    <3>1. i - k + 1 \in 1 .. Len(log) - k + 1
      BY <1>0, <2>2
    <3>2. log'[k + (i - k + 1)] = rest[i - k + 1] /\ rest[i - k + 1] = log[k + (i - k + 1) - 1]
      BY <1>4, <1>7, <3>1
    <3>3. k + (i - k + 1) = i + 1 /\ k + (i - k + 1) - 1 = i
      BY <1>0
    <3> QED
      BY <1>0, <1>7, <3>2, <3>3
  <2> QED
    BY <1>0, <2>1, <2>2
<1> QED
  BY <1>7, <1>8, <1>9

\* What is ahead of a reader stays so when a row is added, and a tie lasts.
LEMMA AheadStays ==
  ASSUME log \in Seq(LogRow), log' \in Seq(LogRow),
         \A i \in DOMAIN log : \E j \in DOMAIN log' : j >= i /\ log'[j] = log[i]
  PROVE  /\ \A x : \A offset \in Nat : Ahead(x, offset) => Ahead(x, offset)'
         /\ \A x : Tied(x) => Tied(x)'
<1>1. ASSUME NEW x, NEW offset \in Nat, Ahead(x, offset) PROVE Ahead(x, offset)'
  <2>1. PICK i \in DOMAIN log : i > offset /\ log[i] = x
    BY <1>1 DEF Ahead
  <2>2. PICK j \in DOMAIN log' : j >= i /\ log'[j] = x
    BY <2>1
  <2> QED
    BY <2>1, <2>2 DEF Ahead
<1>2. ASSUME NEW x, Tied(x) PROVE Tied(x)'
  BY <1>2 DEF Tied, ToSet
<1> QED
  BY <1>1, <1>2

\* A page holds the rows between its offset and the next that are not tied; one that is not
\* full reaches the end.
LEMMA PageHolds ==
  ASSUME log \in Seq(LogRow), NEW offset \in Nat, NEW page \in Page(offset, PageSize)
  PROVE  /\ \A i \in DOMAIN log : offset < i /\ i <= offset + PageSize =>
              log[i] \in ToSet(page) \/ Tied(log[i])
         /\ Len(page) < PageSize => Len(log) <= offset + PageSize
<1>1. PICK order \in Orders : page = Rows(order, offset + 1, offset + PageSize)
  BY DEF Page
<1>2. /\ order \in [DOMAIN log -> ToSet(log)]
      /\ \A i \in DOMAIN log : order[i].createdAt = log[i].createdAt
  BY DEF Orders
<1>3. order \in Seq(LogRow) /\ Len(order) = Len(log)
  BY <1>2 DEF ToSet
<1>4. PICK last \in Nat :
        /\ last = IF offset + PageSize < Len(log) THEN offset + PageSize ELSE Len(log)
        /\ page = SubSeq(order, offset + 1, last)
  BY <1>1, <1>3, PageAssumption DEF Rows
<1>5. last <= Len(log) /\ last <= offset + PageSize
  BY <1>4, PageAssumption
<1>6. CASE offset + 1 > last
  <2>1. page = << >>
    BY <1>3, <1>4, <1>6, SubSeqEmpty
  <2> QED
    BY <1>4, <1>5, <1>6, <2>1, PageAssumption
<1>7. CASE offset + 1 <= last
  <2>1. /\ Len(page) = last - offset
        /\ \A i \in 1 .. last - offset : page[i] = order[offset + i]
        /\ DOMAIN page = 1 .. last - offset
    BY <1>3, <1>4, <1>5, <1>7
  <2>2. ASSUME NEW i \in DOMAIN log, offset < i, i <= offset + PageSize, ~ Tied(log[i])
        PROVE  log[i] \in ToSet(page)
    <3>1. i - offset \in 1 .. last - offset
      BY <1>4, <2>2, PageAssumption
    <3>2. page[i - offset] = order[i]
      BY <2>1, <3>1
    <3>3. order[i] = log[i]
      BY <1>2, <2>2 DEF Tied
    <3> QED
      BY <2>1, <3>1, <3>2, <3>3 DEF ToSet
  <2>3. Len(page) < PageSize => Len(log) <= offset + PageSize
    BY <1>4, <2>1, PageAssumption
  <2> QED
    BY <2>2, <2>3
<1> QED
  BY <1>4, <1>6, <1>7

\* A job that changes its state keeps its report.
LEMMA JobMoves ==
  ASSUME AuditTypeOK, NEW c \in Calls, call[c].state \notin {"idle", "unaudited"},
         NEW n \in Nat, NEW s \in JobState,
         \/ call' = [call EXCEPT ![c].state = s]
         \/ call' = [call EXCEPT ![c].made = n, ![c].state = s]
         \/ call' = [call EXCEPT ![c].stalls = n, ![c].state = s]
  PROVE  /\ call' \in [Calls -> NoJob \cup Job]
         /\ call'[c].state = s /\ call'[c].report = call[c].report
         /\ \A d \in Calls \ {c} : call'[d] = call[d]
<1>1. call[c] \in Job
  BY DEF AuditTypeOK, NoJob
<1>2. PICK m \in Nat, k \in Nat :
        call' = [call EXCEPT ![c] = [state |-> s, report |-> call[c].report, made |-> m,
                                     stalls |-> k]]
  BY <1>1 DEF Job
<1>3. [state |-> s, report |-> call[c].report, made |-> m, stalls |-> k] \in Job
  BY <1>1 DEF Job
<1> QED
  BY <1>2, <1>3 DEF AuditTypeOK

LEMMA AuditInductive == AuditInv /\ [AuditNext]_auditVars => AuditInv'
<1> SUFFICES ASSUME AuditInv, [AuditNext]_auditVars PROVE AuditInv'
  OBVIOUS
<1>0. /\ AuditTypeOK /\ WrittenIsThere /\ RestIsAhead
      /\ log \in Seq(LogRow)
  BY DEF AuditInv, AuditTypeOK
<1>1. CASE UNCHANGED auditVars
  BY <1>1 DEF auditVars, AuditInv, AuditTypeOK, WrittenIsThere, InLog, RestIsAhead, Ahead, Tied
<1>2. ASSUME NEW c \in Calls, NEW f \in Exercised, NEW result \in {"SUCCESS", "FAILURE"},
             Intercept(c, f, result)
      PROVE  AuditInv'
  <2>1. Report(f, result) \in Reports
    BY ExercisedAssumption DEF Reports
  <2>2. /\ call'[c].state \in {"reported", "unaudited"}
        /\ \A d \in Calls \ {c} : call'[d] = call[d]
        /\ UNCHANGED <<log, reader>>
    BY <1>0, <1>2 DEF Intercept, AuditTypeOK
  <2>3. AuditTypeOK'
    BY <1>0, <1>2, <2>1, <2>2 DEF Intercept, AuditTypeOK, NoJob, Job
  <2> QED
    BY <1>0, <2>2, <2>3 DEF AuditInv, WrittenIsThere, InLog, RestIsAhead, Ahead, Tied
<1>3. ASSUME NEW c \in Calls,
             \/ LogAction(c) \/ Refuse(c) \/ Take(c) \/ Complete(c)
             \/ Fail(c) \/ BackoffOver(c) \/ Stall(c)
      PROVE  AuditInv'
  <2>1. PICK s \in JobState, n \in Nat :
          /\ \/ call' = [call EXCEPT ![c].state = s]
             \/ call' = [call EXCEPT ![c].made = n, ![c].state = s]
             \/ call' = [call EXCEPT ![c].stalls = n, ![c].state = s]
          /\ s \in {"written", "done"} => call[c].state = "written"
          /\ call[c].state \notin {"idle", "unaudited"}
          /\ UNCHANGED <<log, reader>>
    <3>1. CASE LogAction(c) \/ Refuse(c) \/ Take(c) \/ Complete(c) \/ BackoffOver(c)
      BY <3>1 DEF LogAction, Refuse, Take, Complete, BackoffOver, In, Becomes, JobState
    <3>2. CASE Fail(c)
      <4>1. call[c].made + 1 \in Nat
        BY <1>0, <3>2 DEF AuditTypeOK, Fail, In, NoJob, Job
      <4> QED
        BY <3>2, <4>1 DEF Fail, In, JobState
    <3>3. CASE Stall(c)
      BY <3>3 DEF Stall, JobState
    <3> QED
      BY <1>3, <3>1, <3>2, <3>3
  <2>2. /\ call' \in [Calls -> NoJob \cup Job]
        /\ call'[c].state = s /\ call'[c].report = call[c].report
        /\ \A d \in Calls \ {c} : call'[d] = call[d]
    BY <1>0, <2>1, JobMoves
  <2>3. AuditTypeOK'
    BY <1>0, <2>1, <2>2 DEF AuditTypeOK
  <2>4. WrittenIsThere' /\ RestIsAhead'
    BY <1>0, <2>1, <2>2 DEF WrittenIsThere, InLog, RestIsAhead, Ahead, Tied
  <2> QED
    BY <2>3, <2>4 DEF AuditInv
<1>4. ASSUME NEW c \in Calls, HandleLogAction(c) PROVE AuditInv'
  <2>1. PICK t \in Instants, k \in 1 .. Len(log) + 1 : log' = InsertAt(log, k, Row(c, t))
    BY <1>4 DEF HandleLogAction
  <2>2. /\ call[c].state = "active"
        /\ call' = [call EXCEPT ![c].state = "written"] /\ reader' = reader
    BY <1>4 DEF HandleLogAction, In, Becomes
  <2>3. /\ call' \in [Calls -> NoJob \cup Job]
        /\ call'[c].state = "written" /\ call'[c].report = call[c].report
        /\ \A d \in Calls \ {c} : call'[d] = call[d]
    BY <1>0, <2>2, JobMoves DEF JobState
  <2>4. Row(c, t) \in LogRow /\ Row(c, t).call = c /\ Row(c, t).report = call[c].report
    <3>1. call[c].report \in Reports /\ call[c].made + call[c].stalls \in Nat
      BY <1>0, <2>2 DEF AuditTypeOK, NoJob, Job
    <3> QED
      BY <3>1, PageAssumption DEF Row, LogRow
  <2>5. /\ log' \in Seq(LogRow)
        /\ k \in DOMAIN log' /\ log'[k] = Row(c, t)
        /\ \A i \in DOMAIN log : \E j \in DOMAIN log' : j >= i /\ log'[j] = log[i]
    BY <1>0, <2>1, <2>4, RowAdded
  <2>6. AuditTypeOK'
    BY <1>0, <2>2, <2>3, <2>5 DEF AuditTypeOK
  <2>7. WrittenIsThere'
    <3> SUFFICES ASSUME NEW d \in Calls, call'[d].state \in {"written", "done"}
                 PROVE  \E i \in DOMAIN log' : log'[i].call = d /\ log'[i].report = call'[d].report
      BY DEF WrittenIsThere, InLog
    <3>1. CASE d = c
      BY <2>3, <2>4, <2>5, <3>1
    <3>2. CASE d # c
      <4>1. PICK i \in DOMAIN log : log[i].call = d /\ log[i].report = call[d].report
        BY <1>0, <2>3, <3>2 DEF WrittenIsThere, InLog
      <4> QED
        BY <2>3, <2>5, <3>2, <4>1
    <3> QED
      BY <3>1, <3>2
  <2>8. RestIsAhead'
    <3> SUFFICES ASSUME NEW r \in Readers, NEW x \in reader[r].owed
                 PROVE  Tied(x)' \/ (reader[r].at # 0 /\ Ahead(x, reader[r].at)')
      BY <2>2 DEF RestIsAhead, Ahead
    <3>1. reader[r].at \in Nat
      BY <1>0 DEF AuditTypeOK
    <3>2. Tied(x) \/ (reader[r].at # 0 /\ Ahead(x, reader[r].at))
      BY <1>0 DEF RestIsAhead
    <3>3. /\ Tied(x) => Tied(x)'
          /\ Ahead(x, reader[r].at) => \E i \in DOMAIN log' : i > reader[r].at /\ log'[i] = x
      BY <1>0, <2>2, <2>5, <3>1, AheadStays DEF Ahead
    <3> QED
      BY <2>2, <3>2, <3>3 DEF Ahead
  <2> QED
    BY <2>6, <2>7, <2>8 DEF AuditInv
<1>5. ASSUME NEW r \in Readers, GetAuditLogs(r) PROVE AuditInv'
  <2>1. PICK from \in Nat : from = reader[r].at
    BY <1>0 DEF AuditTypeOK
  <2>2. PICK owed \in SUBSET LogRow : owed = IF from = 0 THEN ToSet(log) ELSE reader[r].owed
    <3>1. ToSet(log) \subseteq LogRow
      BY <1>0 DEF ToSet
    <3>2. reader[r].owed \subseteq LogRow
      BY <1>0 DEF AuditTypeOK
    <3> QED
      BY <3>1, <3>2
  <2>3. \A x \in owed : Tied(x) \/ Ahead(x, from)
    <3>1. CASE from = 0
      BY <1>0, <2>2, <3>1 DEF ToSet, Ahead
    <3>2. CASE from # 0
      BY <1>0, <2>1, <2>2, <3>2 DEF RestIsAhead
    <3> QED
      BY <3>1, <3>2
  <2>4. PICK page \in Page(from, PageSize) :
          /\ reader' = [reader EXCEPT ![r] =
                [at |-> IF Len(page) < PageSize THEN 0 ELSE from + PageSize,
                 owed |-> owed \ ToSet(page)]]
          /\ UNCHANGED <<call, log>>
    BY <1>5, <2>1, <2>2 DEF GetAuditLogs
  <2>5. /\ \A i \in DOMAIN log : from < i /\ i <= from + PageSize =>
             log[i] \in ToSet(page) \/ Tied(log[i])
        /\ Len(page) < PageSize => Len(log) <= from + PageSize
    BY <1>0, PageHolds
  <2>6. [at |-> IF Len(page) < PageSize THEN 0 ELSE from + PageSize, owed |-> owed \ ToSet(page)]
          \in [at : Nat, owed : SUBSET LogRow]
    BY PageAssumption
  <2>7. AuditTypeOK'
    BY <1>0, <2>4, <2>6 DEF AuditTypeOK
  <2>8. WrittenIsThere'
    BY <1>0, <2>4 DEF WrittenIsThere, InLog
  <2>9. /\ reader'[r].at = IF Len(page) < PageSize THEN 0 ELSE from + PageSize
        /\ reader'[r].owed = owed \ ToSet(page)
        /\ \A s \in Readers \ {r} : reader'[s] = reader[s]
    BY <1>0, <2>4 DEF AuditTypeOK
  <2>10. ASSUME NEW x \in owed \ ToSet(page), ~ Tied(x)
         PROVE  reader'[r].at # 0 /\ Ahead(x, reader'[r].at)
    <3>1. PICK i \in DOMAIN log : i > from /\ log[i] = x
      BY <2>3, <2>10 DEF Ahead
    <3>2. i > from + PageSize
      BY <1>0, <2>5, <2>10, <3>1, PageAssumption
    <3>3. ~ (Len(page) < PageSize)
      BY <1>0, <2>5, <3>2, PageAssumption
    <3> QED
      BY <2>9, <3>1, <3>2, <3>3, PageAssumption DEF Ahead
  <2>11. RestIsAhead'
    <3> SUFFICES ASSUME NEW q \in Readers, NEW x \in reader'[q].owed, ~ Tied(x)
                 PROVE  reader'[q].at # 0 /\ Ahead(x, reader'[q].at)
      BY <2>4 DEF RestIsAhead, Ahead, Tied
    <3>1. CASE q = r
      BY <2>9, <2>10, <3>1
    <3>2. CASE q # r
      BY <1>0, <2>9, <3>2 DEF RestIsAhead
    <3> QED
      BY <3>1, <3>2
  <2> QED
    BY <2>7, <2>8, <2>11 DEF AuditInv
<1> QED
  BY <1>1, <1>2, <1>3, <1>4, <1>5 DEF AuditNext

LEMMA AuditInvariance == AuditSpec => []AuditInv
  BY InitAudit, AuditInductive, PTL DEF AuditSpec

\* For any number of operations and attempts, however workers die and the database fails:
\* an outcome that logAction has queued is in the log when its job is gone.
THEOREM OutcomesAreKept == AuditSpec => []QueuedOutcomesKept
<1>1. AuditInv => QueuedOutcomesKept
  BY DEF AuditInv, WrittenIsThere, InLog, QueuedOutcomesKept, In
<1> QED
  BY <1>1, AuditInvariance, PTL

\* For any size of a page, any clocks and any number of rows added meanwhile: a client that
\* reads page by page misses no row that was there when it began, unless another row has
\* its createdAt.
THEOREM ReadersMissNothing == AuditSpec => []PagingMissesNothing
<1>1. AuditInv => PagingMissesNothing
  BY DEF AuditInv, RestIsAhead, PagingMissesNothing
<1> QED
  BY <1>1, AuditInvariance, PTL

-----------------------------------------------------------------------------
(***************************************************************************)
(* Events, for any listeners, any number of publications that overlap and  *)
(* any size of the log.  The log holds the newest events, and how many of  *)
(* them follows from how many there were.                                  *)
(***************************************************************************)

\* What is known of a publication; who its listeners are is left open.
Publication(d) ==
  /\ d = [awaited |-> d.awaited, missed |-> d.missed, plain |-> d.plain, event |-> d.event,
          outcome |-> d.outcome]
  /\ d.event \in 0 .. Len(events)
  /\ ~ d.plain => /\ d.outcome # "thrown" /\ ~ d.missed
                 /\ \A due \in d.awaited : due[2] \notin Plain

LogHoldsNewest ==
  /\ Len(eventLog) = IF Len(events) < MaxLogSize THEN Len(events) ELSE MaxLogSize
  /\ \A i \in DOMAIN eventLog : eventLog[i] = Len(events) - Len(eventLog) + i

BusInv ==
  /\ eventLog \in Seq(Nat) /\ events \in Seq(Nat)
  /\ DOMAIN publish = Publishers /\ publish = [p \in Publishers |-> publish[p]]
  /\ \A p \in Publishers : Publication(publish[p])
  /\ LogHoldsNewest

LEMMA QuietPublication == Quiet.event = 0 /\ Publication(Quiet)
  BY DEF Quiet, Publication

LEMMA InitBus == BusInit => BusInv
<1> SUFFICES ASSUME BusInit PROVE BusInv
  OBVIOUS
<1>1. /\ eventLog = << >> /\ events = << >> /\ Len(events) = 0
      /\ publish = [p \in Publishers |-> Quiet]
  BY DEF BusInit
<1>2. \A p \in Publishers : Publication(publish[p])
  BY <1>1, QuietPublication
<1>3. LogHoldsNewest
  BY <1>1, BusAssumption DEF LogHoldsNewest
<1> QED
  BY <1>1, <1>2, <1>3 DEF BusInv

\* Only the number of the events matters to what is known of a publication.
LEMMA PublicationStays ==
  ASSUME events \in Seq(Nat), events' \in Seq(Nat), Len(events') >= Len(events),
         NEW d, Publication(d)
  PROVE  /\ d.event \in 0 .. Len(events')
         /\ d = [awaited |-> d.awaited, missed |-> d.missed, plain |-> d.plain,
                 event |-> d.event, outcome |-> d.outcome]
         /\ ~ d.plain => /\ d.outcome # "thrown" /\ ~ d.missed
                        /\ \A due \in d.awaited : due[2] \notin Plain
<1>1. Len(events) \in Nat /\ Len(events') \in Nat
  OBVIOUS
<1> QED
  BY <1>1 DEF Publication

\* logEvent appends the event and drops the oldest when there are too many.
LEMMA Logged ==
  ASSUME eventLog \in Seq(Nat), events \in Seq(Nat), LogHoldsNewest, LogEvent(Len(events) + 1)
  PROVE  /\ eventLog' \in Seq(Nat) /\ events' \in Seq(Nat)
         /\ Len(events') = Len(events) + 1
         /\ LogHoldsNewest'
<1>1. PICK e \in Nat : e = Len(events) + 1
  OBVIOUS
<1>2. PICK s \in Seq(Nat) : /\ s = Append(eventLog, e)
                            /\ Len(s) = Len(eventLog) + 1
                            /\ s[Len(s)] = e
                            /\ \A i \in 1 .. Len(eventLog) : s[i] = eventLog[i]
  <2>1. PICK s \in Seq(Nat) : s = Append(eventLog, e)
    BY <1>1, AppendProperties
  <2>2. Len(s) = Len(eventLog) + 1 /\ s[Len(eventLog) + 1] = e
    BY <1>1, <2>1, AppendProperties
  <2>3. \A i \in 1 .. Len(eventLog) : s[i] = eventLog[i]
    BY <1>1, <2>1, AppendProperties
  <2> QED
    BY <2>1, <2>2, <2>3
<1>0. /\ Len(events) \in Nat /\ Len(eventLog) \in Nat /\ Len(s) \in Nat
      /\ DOMAIN s = 1 .. Len(s) /\ DOMAIN eventLog = 1 .. Len(eventLog)
  BY <1>2
<1>3. /\ events' \in Seq(Nat) /\ Len(events') = Len(events) + 1
      /\ eventLog' = IF Len(s) > MaxLogSize THEN Tail(s) ELSE s
  BY <1>1, <1>2 DEF LogEvent, Trimmed
<1>4. \A i \in DOMAIN s : s[i] = Len(events) - Len(eventLog) + i
  <2> SUFFICES ASSUME NEW i \in DOMAIN s PROVE s[i] = Len(events) - Len(eventLog) + i
    OBVIOUS
  <2>1. CASE i = Len(s)
    BY <1>0, <1>1, <1>2, <2>1
  <2>2. CASE i # Len(s)
    <3>1. i \in 1 .. Len(eventLog)
      BY <1>0, <1>2, <2>2
    <3> QED
      BY <1>0, <1>2, <3>1 DEF LogHoldsNewest
  <2> QED
    BY <2>1, <2>2
<1>5. CASE Len(s) > MaxLogSize
  <2>1. /\ eventLog' \in Seq(Nat) /\ Len(eventLog') = Len(s) - 1
        /\ \A i \in DOMAIN eventLog' : i + 1 \in DOMAIN s /\ eventLog'[i] = s[i + 1]
    <3>1. s # << >>
      BY <1>2, <1>0
    <3>2. /\ Tail(s) \in Seq(Nat) /\ Len(Tail(s)) = Len(s) - 1
          /\ \A i \in 1 .. Len(Tail(s)) : Tail(s)[i] = s[i + 1]
      BY <1>2, <3>1, HeadTailProperties
    <3>3. eventLog' = Tail(s)
      BY <1>3, <1>5
    <3>4. DOMAIN eventLog' = 1 .. Len(s) - 1
      BY <3>2, <3>3
    <3> QED
      BY <1>0, <3>2, <3>3, <3>4
  <2>2. Len(eventLog) = MaxLogSize /\ MaxLogSize <= Len(events)
    BY <1>2, <1>5, BusAssumption DEF LogHoldsNewest
  <2>3. Len(eventLog') = IF Len(events') < MaxLogSize THEN Len(events') ELSE MaxLogSize
    BY <1>2, <1>3, <2>1, <2>2, BusAssumption
  <2>4. \A i \in DOMAIN eventLog' : eventLog'[i] = Len(events') - Len(eventLog') + i
    <3> SUFFICES ASSUME NEW i \in DOMAIN eventLog'
                 PROVE  eventLog'[i] = Len(events') - Len(eventLog') + i
      OBVIOUS
    <3>1. eventLog'[i] = Len(events) - Len(eventLog) + (i + 1) /\ i \in Int
      BY <1>4, <2>1
    <3>2. Len(events') = Len(events) + 1
      BY <1>3
    <3>3. Len(eventLog') = Len(s) - 1 /\ Len(s) = Len(eventLog) + 1
      BY <1>2, <2>1
    <3> QED
      BY <1>0, <3>1, <3>2, <3>3
  <2> QED
    BY <1>3, <2>1, <2>3, <2>4 DEF LogHoldsNewest
<1>6. CASE ~ (Len(s) > MaxLogSize)
  <2>1. eventLog' = s /\ Len(events) < MaxLogSize /\ Len(eventLog) = Len(events)
    BY <1>2, <1>3, <1>6, BusAssumption DEF LogHoldsNewest
  <2>2. Len(eventLog') = IF Len(events') < MaxLogSize THEN Len(events') ELSE MaxLogSize
    BY <1>2, <1>3, <2>1, BusAssumption
  <2>3. \A i \in DOMAIN eventLog' : eventLog'[i] = Len(events') - Len(eventLog') + i
    <3> SUFFICES ASSUME NEW i \in DOMAIN s
                 PROVE  s[i] = Len(events') - Len(s) + i
      BY <2>1
    <3>1. s[i] = Len(events) - Len(eventLog) + i /\ i \in Int
      BY <1>0, <1>4
    <3> QED
      BY <1>0, <1>2, <1>3, <3>1
  <2> QED
    BY <1>2, <1>3, <2>1, <2>2, <2>3 DEF LogHoldsNewest
<1> QED
  BY <1>5, <1>6

\* One publication changes, and the others are what they were.
LEMMA OthersStay ==
  ASSUME BusInv, NEW p \in Publishers, NEW d, publish' = [publish EXCEPT ![p] = d]
  PROVE  /\ DOMAIN publish' = Publishers /\ publish' = [q \in Publishers |-> publish'[q]]
         /\ publish'[p] = d
         /\ \A q \in Publishers \ {p} : publish'[q] = publish[q]
  BY DEF BusInv

LEMMA BusInductive == BusInv /\ [BusNext]_busVars => BusInv'
<1> SUFFICES ASSUME BusInv, [BusNext]_busVars PROVE BusInv'
  OBVIOUS
<1>0. /\ eventLog \in Seq(Nat) /\ events \in Seq(Nat) /\ Len(events) \in Nat
      /\ DOMAIN publish = Publishers /\ LogHoldsNewest
      /\ \A p \in Publishers : Publication(publish[p])
  BY DEF BusInv
<1>1. CASE UNCHANGED <<publish, eventLog, events>>
  BY <1>1 DEF BusInv, Publication, LogHoldsNewest
<1>2. ASSUME NEW p \in Publishers, NEW k \in 0 .. Len(listeners), Publish(p, k) PROVE BusInv'
  <2>1. PICK reached : reached = {i \in DOMAIN listeners : k = 0 \/ i <= k}
    OBVIOUS
  <2>3. PICK d :
          /\ d = [missed |-> reached # DOMAIN listeners,
                  plain |-> \E i \in DOMAIN listeners : listeners[i].f \in Plain,
                  event |-> Len(events) + 1,
                  awaited |-> {<<i, listeners[i].f>> : i \in reached \ {k}},
                  outcome |-> IF k # 0 THEN "thrown" ELSE "pending"]
          /\ publish' = [publish EXCEPT ![p] = d]
    BY <1>2, <2>1 DEF Publish
  <2>4. LogEvent(Len(events) + 1) /\ (k # 0 => k \in DOMAIN listeners /\ listeners[k].f \in Plain)
    BY <1>2 DEF Publish
  <2>5. /\ eventLog' \in Seq(Nat) /\ events' \in Seq(Nat)
        /\ Len(events') = Len(events) + 1 /\ LogHoldsNewest'
    BY <1>0, <2>4, Logged
  <2>6. /\ d = [awaited |-> d.awaited, missed |-> d.missed, plain |-> d.plain,
                event |-> d.event, outcome |-> d.outcome]
        /\ d.event \in 0 .. Len(events')
    BY <1>0, <2>3, <2>5
  <2>7. ASSUME ~ d.plain
        PROVE  /\ d.outcome # "thrown" /\ ~ d.missed
               /\ \A due \in d.awaited : due[2] \notin Plain
    <3>1. \A i \in DOMAIN listeners : listeners[i].f \notin Plain
      BY <2>3, <2>7
    <3>2. k = 0 /\ reached = DOMAIN listeners
      BY <2>1, <2>4, <3>1
    <3>3. d.awaited = {<<i, listeners[i].f>> : i \in reached \ {k}}
      BY <2>3
    <3>4. \A due \in d.awaited : due[2] \notin Plain
      <4> SUFFICES ASSUME NEW due \in d.awaited PROVE due[2] \notin Plain
        OBVIOUS
      <4>1. PICK i \in DOMAIN listeners : due = <<i, listeners[i].f>>
        BY <3>2, <3>3
      <4>2. due[2] = listeners[i].f
        BY <4>1
      <4> QED
        BY <3>1, <4>1, <4>2
    <3>5. d.outcome # "thrown" /\ ~ d.missed
      BY <2>3, <3>2
    <3> QED
      BY <3>4, <3>5
  <2>8. Publication(d)'
    BY <2>6, <2>7 DEF Publication
  <2>9. /\ DOMAIN publish' = Publishers /\ publish' = [q \in Publishers |-> publish'[q]]
        /\ publish'[p] = d
        /\ \A q \in Publishers \ {p} : publish'[q] = publish[q]
    BY <2>3, OthersStay
  <2>10. \A q \in Publishers : Publication(publish[q])'
    <3> SUFFICES ASSUME NEW q \in Publishers PROVE Publication(publish[q])'
      OBVIOUS
    <3>1. CASE q = p
      BY <2>8, <2>9, <3>1 DEF Publication
    <3>2. CASE q # p
      <4>1. PICK e : e = publish[q] /\ Publication(e) /\ publish'[q] = e
        BY <1>0, <2>9, <3>2
      <4> QED
        BY <1>0, <2>5, <4>1, PublicationStays DEF Publication
    <3> QED
      BY <3>1, <3>2
  <2> QED
    BY <2>5, <2>9, <2>10 DEF BusInv
<1>3. ASSUME NEW p \in Publishers, NEW due, NEW fails \in BOOLEAN, Settle(p, due, fails)
      PROVE  BusInv'
  <2>1. due \in publish[p].awaited /\ Publication(publish[p])
    BY <1>0, <1>3 DEF Settle
  <2>2. PICK o : o = IF publish[p].outcome = "pending" /\ Rejects(due[2], fails) THEN "thrown"
                     ELSE publish[p].outcome
    OBVIOUS
  <2>3. PICK d : d = [awaited |-> publish[p].awaited \ {due}, missed |-> publish[p].missed,
                      plain |-> publish[p].plain, event |-> publish[p].event, outcome |-> o]
    OBVIOUS
  <2>4. publish' = [publish EXCEPT ![p] = d] /\ UNCHANGED <<eventLog, events>>
    <3>1. publish' = [publish EXCEPT ![p] =
              [publish[p] EXCEPT !.awaited = publish[p].awaited \ {due}, !.outcome = o]]
      BY <1>3, <2>2 DEF Settle
    <3>2. [publish[p] EXCEPT !.awaited = publish[p].awaited \ {due}, !.outcome = o] = d
      <4>1. PICK a, m, b, e, q :
              publish[p] = [awaited |-> a, missed |-> m, plain |-> b, event |-> e, outcome |-> q]
        BY <2>1 DEF Publication
      <4>2. /\ publish[p].awaited = a /\ publish[p].missed = m /\ publish[p].plain = b
            /\ publish[p].event = e
        BY <4>1
      <4>3. [publish[p] EXCEPT !.awaited = a \ {due}, !.outcome = o]
              = [[publish[p] EXCEPT !.awaited = a \ {due}] EXCEPT !.outcome = o]
        OBVIOUS
      <4>4. [publish[p] EXCEPT !.awaited = a \ {due}]
              = [awaited |-> a \ {due}, missed |-> m, plain |-> b, event |-> e, outcome |-> q]
        BY <4>1
      <4>5. [[awaited |-> a \ {due}, missed |-> m, plain |-> b, event |-> e, outcome |-> q]
                EXCEPT !.outcome = o]
              = [awaited |-> a \ {due}, missed |-> m, plain |-> b, event |-> e, outcome |-> o]
        OBVIOUS
      <4> QED
        BY <2>3, <4>2, <4>3, <4>4, <4>5
    <3> QED
      BY <1>3, <3>1, <3>2 DEF Settle
  <2>5. Publication(d)
    BY <2>1, <2>2, <2>3 DEF Publication, Rejects
  <2> QED
    BY <1>0, <2>4, <2>5, OthersStay DEF BusInv, Publication, LogHoldsNewest
<1>4. ASSUME NEW p \in Publishers, Resolve(p) PROVE BusInv'
  <2>1. PICK d : d = [Quiet EXCEPT !.event = publish[p].event]
    OBVIOUS
  <2>2. publish' = [publish EXCEPT ![p] = d] /\ UNCHANGED <<eventLog, events>>
    BY <1>4, <2>1 DEF Resolve
  <2>3. Publication(d)
    BY <1>0, <2>1 DEF Publication, Quiet
  <2> QED
    BY <1>0, <2>2, <2>3, OthersStay DEF BusInv, Publication, LogHoldsNewest
<1>5. CASE Clear
  <2>1. /\ eventLog' = << >> /\ events' = << >> /\ Len(events') = 0
        /\ publish' = [p \in Publishers |-> [publish[p] EXCEPT !.event = 0]]
    BY <1>5 DEF Clear
  <2>2. \A p \in Publishers : Publication(publish[p])'
    <3> SUFFICES ASSUME NEW p \in Publishers PROVE Publication(publish[p])'
      OBVIOUS
    <3>1. publish'[p] = [publish[p] EXCEPT !.event = 0]
      BY <2>1
    <3>2. publish'[p] = [awaited |-> publish[p].awaited, missed |-> publish[p].missed,
                         plain |-> publish[p].plain, event |-> 0,
                         outcome |-> publish[p].outcome]
      BY <1>0, <3>1 DEF Publication
    <3> QED
      BY <1>0, <2>1, <3>2 DEF Publication
  <2>3. LogHoldsNewest'
    BY <2>1, BusAssumption DEF LogHoldsNewest
  <2> QED
    BY <2>1, <2>2, <2>3 DEF BusInv
<1>6. ASSUME NEW f \in Listeners, Unsubscribe(f) \/ \E once \in BOOLEAN : Subscribe(f, once)
      PROVE  BusInv'
  BY <1>1, <1>6 DEF Unsubscribe, Subscribe
<1> QED
  BY <1>1, <1>2, <1>3, <1>4, <1>5, <1>6 DEF BusNext, busVars

\* For any listeners that come and go, any publications that overlap and any size of the log:
\* while no plain listener is subscribed nobody misses an event and publish does not fail, and
\* an event that is among the newest can be replayed.
THEOREM NobodyMisses == BusSpec => []NobodyMissesForGood
<1>1. BusInv => NobodyMissesForGood
  <2> SUFFICES ASSUME BusInv, NEW p \in Publishers, NEW d, d = publish[p]
               PROVE  /\ ~ d.plain => d.outcome # "thrown" /\ ~ d.missed
                      /\ d.event # 0 /\ d.event + MaxLogSize > Len(events) =>
                           \E i \in DOMAIN eventLog : eventLog[i] = d.event
    BY DEF NobodyMissesForGood, ReplayEvents
  <2>1. Publication(d)
    BY DEF BusInv
  <2>2. ASSUME d.event # 0, d.event + MaxLogSize > Len(events)
        PROVE  \E i \in DOMAIN eventLog : eventLog[i] = d.event
    <3>1. /\ eventLog \in Seq(Nat) /\ events \in Seq(Nat)
          /\ d.event \in 1 .. Len(events)
      BY <2>1, <2>2 DEF BusInv, Publication
    <3>2. PICK i \in Int : i = d.event - (Len(events) - Len(eventLog))
      BY <3>1
    <3>3. i \in 1 .. Len(eventLog)
      BY <2>2, <3>1, <3>2, BusAssumption DEF BusInv, LogHoldsNewest
    <3>4. i \in DOMAIN eventLog /\ Len(events) \in Nat /\ Len(eventLog) \in Nat
      BY <3>1, <3>3
    <3>5. eventLog[i] = Len(events) - Len(eventLog) + i
      BY <3>4 DEF BusInv, LogHoldsNewest
    <3> QED
      BY <3>1, <3>2, <3>4, <3>5
  <2> QED
    BY <2>1, <2>2 DEF Publication
<1> QED
  BY <1>1, InitBus, BusInductive, PTL DEF BusSpec

-----------------------------------------------------------------------------
(***************************************************************************)
(* The approval rules, for any finite number of rules, any amounts and any *)
(* order of equal priorities.  Two facts about numbers come first: a set   *)
(* of natural numbers has a least element, and one that holds 0 and the    *)
(* successor of each of its elements holds them all.                       *)
(***************************************************************************)

LEMMA LeastNumber ==
  ASSUME NEW T \in SUBSET Nat, T # {}
  PROVE  \E x \in T : \A y \in T : x <= y
<1>1. IsWellFoundedOn(OpToRel(<, Nat), Nat)
  BY NatLessThanWellFounded
<1>2. \E x \in T : \A y \in T : ~ (<<y, x>> \in OpToRel(<, Nat))
  BY <1>1, WFMin
<1>3. PICK x \in T : \A y \in T : ~ (<<y, x>> \in OpToRel(<, Nat))
  BY <1>2
<1>4. x \in Nat /\ \A y \in T : y \in Nat /\ ~ (y < x)
  BY <1>3 DEF OpToRel
<1>5. \A y \in T : x <= y
  BY <1>4
<1> QED
  BY <1>5

LEMMA CountUp ==
  ASSUME NEW T \in SUBSET Nat, 0 \in T, \A n \in T : n + 1 \in T
  PROVE  T = Nat
<1> SUFFICES ASSUME Nat \ T # {} PROVE FALSE
  OBVIOUS
<1>1. PICK x \in Nat \ T : \A y \in Nat \ T : x <= y
  BY LeastNumber
<1>2. x - 1 \in Nat
  BY <1>1
<1>3. x - 1 \in T
  BY <1>1, <1>2
<1> QED
  BY <1>1, <1>2, <1>3

\* A rule as it is stored: what was typed, checked.
StoredRules ==
  [transactionType : Types, thresholdValue : Nat \ {0}, priority : Nat,
   appliesToLevel : Levels, approverLevel : Levels, isActive : BOOLEAN]

RulesInv == rules \in [RuleIds -> StoredRules \cup {NoRule}]

LEMMA InitRules == RulesInit => RulesInv
  BY DEF RulesInit, RulesInv

LEMMA GivenFields ==
  ASSUME NEW f, NEW old, NEW new, new = Given(f, old)
  PROVE  /\ new = [transactionType |-> new.transactionType, thresholdValue |-> new.thresholdValue,
                   priority |-> new.priority, appliesToLevel |-> new.appliesToLevel,
                   approverLevel |-> new.approverLevel, isActive |-> new.isActive]
         /\ \A k \in RuleFields : new[k] = IF k \in DOMAIN f THEN f[k] ELSE old[k]
  BY DEF Given, RuleFields

LEMMA CreationStored ==
  ASSUME NEW f \in Forms, Acceptable(f)
  PROVE  Given(f, [isActive |-> TRUE]) \in StoredRules
<1>1. PICK new : new = Given(f, [isActive |-> TRUE])
  OBVIOUS
<1>2. f \in [transactionType : Types, thresholdValue : Int, priority : Int,
             appliesToLevel : Levels, approverLevel : Levels]
  BY RulesAssumption
<1>3. DOMAIN f = RuleFields \ {"isActive"}
  BY <1>2 DEF RuleFields
<1>4. f.thresholdValue > 0 /\ f.priority >= 0
  BY <1>3 DEF Acceptable, RuleFields
<1>5. /\ new.transactionType = f.transactionType /\ new.thresholdValue = f.thresholdValue
      /\ new.priority = f.priority /\ new.appliesToLevel = f.appliesToLevel
      /\ new.approverLevel = f.approverLevel
  BY <1>1, <1>3, GivenFields DEF RuleFields
<1>6. new.isActive = TRUE
  BY <1>1, <1>3, GivenFields DEF RuleFields
<1>7. new = [transactionType |-> new.transactionType, thresholdValue |-> new.thresholdValue,
             priority |-> new.priority, appliesToLevel |-> new.appliesToLevel,
             approverLevel |-> new.approverLevel, isActive |-> new.isActive]
  BY <1>1, GivenFields
<1>8. /\ f.transactionType \in Types /\ f.thresholdValue \in Int /\ f.priority \in Int
      /\ f.appliesToLevel \in Levels /\ f.approverLevel \in Levels
  BY <1>2
<1>9. f.thresholdValue \in Nat \ {0} /\ f.priority \in Nat
  BY <1>4, <1>8
<1>10. /\ new.transactionType \in Types /\ new.thresholdValue \in Nat \ {0} /\ new.priority \in Nat
       /\ new.appliesToLevel \in Levels /\ new.approverLevel \in Levels /\ new.isActive \in BOOLEAN
  BY <1>5, <1>6, <1>8, <1>9
<1> QED
  BY <1>1, <1>7, <1>10 DEF StoredRules

LEMMA UpdateStored ==
  ASSUME NEW f \in Updates, Acceptable(f), NEW old \in StoredRules
  PROVE  Given(f, old) \in StoredRules
<1>1. PICK new : new = Given(f, old)
  OBVIOUS
<1>2. PICK k, x :
        /\ k \in RuleFields
        /\ f = [y \in {k} |-> x]
        /\ k = "transactionType" => x \in Types
        /\ k \in {"thresholdValue", "priority"} => x \in Int
        /\ k \in {"appliesToLevel", "approverLevel"} => x \in Levels
        /\ k = "isActive" => x \in BOOLEAN
  <2>1. CASE \E b \in BOOLEAN : f = [isActive |-> b]
    <3>1. PICK b \in BOOLEAN : f = [isActive |-> b]
      BY <2>1
    <3>2. f = [y \in {"isActive"} |-> b] /\ "isActive" \in RuleFields
      BY <3>1 DEF RuleFields
    <3> QED
      BY <3>2
  <2>2. CASE \E k \in RuleFields \ {"isActive"}, g \in Forms : f = [y \in {k} |-> g[k]]
    <3>1. PICK k \in RuleFields \ {"isActive"}, g \in Forms : f = [y \in {k} |-> g[k]]
      BY <2>2
    <3>2. g \in [transactionType : Types, thresholdValue : Int, priority : Int,
                 appliesToLevel : Levels, approverLevel : Levels]
      BY RulesAssumption
    <3>3. /\ g["transactionType"] \in Types /\ g["thresholdValue"] \in Int
          /\ g["priority"] \in Int /\ g["appliesToLevel"] \in Levels
          /\ g["approverLevel"] \in Levels
      BY <3>2
    <3> QED
      BY <3>1, <3>3 DEF RuleFields
  <2> QED
    <3>1. CASE f \in {[isActive |-> b] : b \in BOOLEAN}
      BY <2>1, <3>1
    <3>2. CASE f \in UNION {{[x \in {k} |-> g[k]] : k \in RuleFields \ {"isActive"}} : g \in Forms}
      <4>1. PICK g \in Forms : f \in {[x \in {k} |-> g[k]] : k \in RuleFields \ {"isActive"}}
        BY <3>2
      <4> QED
        BY <2>2, <4>1
    <3> QED
      BY <3>1, <3>2, Zenon DEF Updates
<1>3. DOMAIN f = {k} /\ f[k] = x
  BY <1>2
<1>4. k = "thresholdValue" => x \in Nat \ {0}
  <2>1. k = "thresholdValue" => f.thresholdValue = x /\ f.thresholdValue > 0
    BY <1>3 DEF Acceptable
  <2> QED
    BY <1>2, <2>1
<1>5. k = "priority" => x \in Nat
  <2>1. k = "priority" => f.priority = x /\ f.priority >= 0
    BY <1>3 DEF Acceptable
  <2> QED
    BY <1>2, <2>1
<1>6. \A y \in RuleFields : new[y] = IF y = k THEN x ELSE old[y]
  BY <1>1, <1>3, GivenFields
<1>7. /\ new.transactionType = IF k = "transactionType" THEN x ELSE old.transactionType
      /\ new.thresholdValue = IF k = "thresholdValue" THEN x ELSE old.thresholdValue
      /\ new.priority = IF k = "priority" THEN x ELSE old.priority
      /\ new.appliesToLevel = IF k = "appliesToLevel" THEN x ELSE old.appliesToLevel
      /\ new.approverLevel = IF k = "approverLevel" THEN x ELSE old.approverLevel
      /\ new.isActive = IF k = "isActive" THEN x ELSE old.isActive
  BY <1>6 DEF RuleFields
<1>8. new = [transactionType |-> new.transactionType, thresholdValue |-> new.thresholdValue,
             priority |-> new.priority, appliesToLevel |-> new.appliesToLevel,
             approverLevel |-> new.approverLevel, isActive |-> new.isActive]
  BY <1>1, GivenFields
<1>9. /\ old.transactionType \in Types /\ old.thresholdValue \in Nat \ {0} /\ old.priority \in Nat
      /\ old.appliesToLevel \in Levels /\ old.approverLevel \in Levels /\ old.isActive \in BOOLEAN
  BY DEF StoredRules
<1>10. /\ new.transactionType \in Types /\ new.thresholdValue \in Nat \ {0} /\ new.priority \in Nat
       /\ new.appliesToLevel \in Levels /\ new.approverLevel \in Levels /\ new.isActive \in BOOLEAN
  BY <1>2, <1>4, <1>5, <1>7, <1>9
<1> QED
  BY <1>1, <1>8, <1>10 DEF StoredRules

LEMMA RulesInductive == RulesInv /\ [WriteRule]_rules => RulesInv'
<1> SUFFICES ASSUME RulesInv, [WriteRule]_rules PROVE RulesInv'
  OBVIOUS
<1>1. ASSUME NEW r \in RuleIds, NEW f \in Forms, CreateRule(r, f) PROVE RulesInv'
  BY <1>1, CreationStored DEF CreateRule, RulesInv
<1>2. ASSUME NEW r \in RuleIds, NEW f \in Updates, UpdateRule(r, f) PROVE RulesInv'
  <2>1. rules[r] \in StoredRules
    BY <1>2 DEF UpdateRule, RulesInv
  <2> QED
    BY <1>2, <2>1, UpdateStored DEF UpdateRule, RulesInv
<1> QED
  BY <1>1, <1>2 DEF WriteRule, RulesInv
-----------------------------------------------------------------------------
\* Rules can be put in the order of their priorities, and any one of them before those
\* of its own priority.
Before(s, q) ==
  \A i, j \in DOMAIN s : i < j =>
    /\ rules[s[i]].priority >= rules[s[j]].priority
    /\ s[j] = q => rules[s[i]].priority > rules[q].priority

Ranked(R, n, q) ==
  \E s \in [1 .. n -> R] : Before(s, q) /\ \A i, j \in 1 .. n : i # j => s[i] # s[j]

LEMMA OrderOneMore ==
  ASSUME NEW q, NEW n \in Nat, NEW R, IsFiniteSet(R), Cardinality(R) = n + 1,
         \A r \in R : rules[r].priority \in Nat,
         \A Q \in SUBSET R : Cardinality(Q) = n => Ranked(Q, n, q)
  PROVE  Ranked(R, n + 1, q)
<1>1. R # {}
  BY FS_EmptySet
<1>2. PICK least \in {rules[r].priority : r \in R} : \A r \in R : least <= rules[r].priority
  <2>1. {rules[r].priority : r \in R} \in SUBSET Nat /\ {rules[r].priority : r \in R} # {}
    BY <1>1
  <2>2. \E x \in {rules[r].priority : r \in R} : \A y \in {rules[r].priority : r \in R} : x <= y
    BY <2>1, LeastNumber
  <2> QED
    BY <2>2
<1>3. PICK m \in R : /\ rules[m].priority = least
                     /\ m = q => \A r \in R \ {m} : rules[r].priority # least
  <2>1. PICK r \in R : rules[r].priority = least
    BY <1>2
  <2>2. CASE \E o \in R \ {q} : rules[o].priority = least
    BY <2>2
  <2>3. CASE ~ \E o \in R \ {q} : rules[o].priority = least
    BY <2>1, <2>3
  <2> QED
    BY <2>2, <2>3
<1>4. Cardinality(R \ {m}) = n
  <2>1. Cardinality(R \ {m}) = (n + 1) - 1
    BY <1>3, FS_RemoveElement
  <2> QED
    BY <2>1
<1>5. PICK t \in [1 .. n -> R \ {m}] :
        Before(t, q) /\ \A i, j \in 1 .. n : i # j => t[i] # t[j]
  BY <1>4 DEF Ranked
<1>6. PICK s : s = [i \in 1 .. n + 1 |-> IF i = n + 1 THEN m ELSE t[i]]
  OBVIOUS
<1>7. /\ s \in [1 .. n + 1 -> R] /\ DOMAIN s = 1 .. n + 1
      /\ s[n + 1] = m /\ \A i \in 1 .. n : s[i] = t[i] /\ t[i] \in R \ {m}
  BY <1>5, <1>6
<1>8. \A i, j \in 1 .. n + 1 : i # j => s[i] # s[j]
  <2> SUFFICES ASSUME NEW i \in 1 .. n + 1, NEW j \in 1 .. n + 1, i # j PROVE s[i] # s[j]
    OBVIOUS
  <2>1. CASE i = n + 1
    <3>1. j \in 1 .. n
      BY <2>1
    <3> QED
      BY <1>7, <2>1, <3>1
  <2>2. CASE j = n + 1
    <3>1. i \in 1 .. n
      BY <2>2
    <3> QED
      BY <1>7, <2>2, <3>1
  <2>3. CASE i # n + 1 /\ j # n + 1
    <3>1. i \in 1 .. n /\ j \in 1 .. n
      BY <2>3
    <3> QED
      BY <1>5, <1>7, <3>1
  <2> QED
    BY <2>1, <2>2, <2>3
<1>9. Before(s, q)
  <2> SUFFICES ASSUME NEW i \in 1 .. n + 1, NEW j \in 1 .. n + 1, i < j
               PROVE  /\ rules[s[i]].priority >= rules[s[j]].priority
                      /\ s[j] = q => rules[s[i]].priority > rules[q].priority
    BY <1>7 DEF Before
  <2>1. i \in 1 .. n
    OBVIOUS
  <2>2. CASE j = n + 1
    <3>1. s[j] = m /\ s[i] \in R \ {m}
      BY <1>7, <2>1, <2>2
    <3>2. /\ rules[s[i]].priority \in Nat /\ rules[s[j]].priority = least /\ least \in Nat
          /\ least <= rules[s[i]].priority
      BY <1>2, <1>3, <3>1
    <3>3. s[j] = q => rules[s[i]].priority # least /\ rules[q].priority = least
      BY <1>3, <3>1
    <3> QED
      BY <3>2, <3>3
  <2>3. CASE j # n + 1
    <3>1. j \in 1 .. n /\ DOMAIN t = 1 .. n
      BY <1>5, <2>3
    <3> QED
      BY <1>5, <1>7, <2>1, <3>1 DEF Before
  <2> QED
    BY <2>2, <2>3
<1> QED
  BY <1>7, <1>8, <1>9 DEF Ranked

LEMMA OrderExists ==
  ASSUME NEW q, NEW R, IsFiniteSet(R), \A r \in R : rules[r].priority \in Nat
  PROVE  Ranked(R, Cardinality(R), q)
<1>1. PICK T : T = {n \in Nat : \A Q \in SUBSET R : Cardinality(Q) = n => Ranked(Q, n, q)}
  OBVIOUS
<1>2. \A Q \in SUBSET R : IsFiniteSet(Q)
  BY FS_Subset
<1>3. 0 \in T
  <2> SUFFICES ASSUME NEW Q \in SUBSET R, Cardinality(Q) = 0 PROVE Ranked(Q, 0, q)
    BY <1>1
  <2>1. Q = {}
    BY <1>2, FS_EmptySet
  <2>2. PICK s : s = [i \in 1 .. 0 |-> q]
    OBVIOUS
  <2>3. DOMAIN s = 1 .. 0 /\ \A i \in 1 .. 0 : FALSE
    BY <2>2
  <2>4. s \in [1 .. 0 -> Q]
    BY <2>2, <2>3
  <2> QED
    BY <2>3, <2>4 DEF Ranked, Before
<1>4. ASSUME NEW n \in T PROVE n + 1 \in T
  <2>1. n \in Nat /\ \A Q \in SUBSET R : Cardinality(Q) = n => Ranked(Q, n, q)
    BY <1>1, <1>4
  <2> SUFFICES ASSUME NEW Q \in SUBSET R, Cardinality(Q) = n + 1 PROVE Ranked(Q, n + 1, q)
    BY <1>1, <2>1
  <2>2. IsFiniteSet(Q) /\ \A r \in Q : rules[r].priority \in Nat
    BY <1>2
  <2>3. \A P \in SUBSET Q : Cardinality(P) = n => Ranked(P, n, q)
    BY <2>1
  <2> QED
    BY <2>1, <2>2, <2>3, OrderOneMore
<1>5. T = Nat
  BY <1>1, <1>3, <1>4, CountUp
<1>6. Cardinality(R) \in T /\ R \in SUBSET R
  BY <1>5, FS_CardinalityType
<1> QED
  BY <1>1, <1>6

\* An order the database may answer with holds all the rules.
LEMMA OrderIsComplete ==
  ASSUME NEW R, IsFiniteSet(R), NEW s \in SetToSeqs(R)
  PROVE  /\ s \in [1 .. Cardinality(R) -> R] /\ DOMAIN s \in SUBSET Nat
         /\ \A r \in R : \E i \in DOMAIN s : s[i] = r
<1>1. PICK n \in Nat : n = Cardinality(R)
  BY FS_CardinalityType
<1>2. s \in [1 .. n -> R] /\ \A i, j \in 1 .. n : i # j => s[i] # s[j]
  BY <1>1 DEF SetToSeqs
<1>3. s \in Injection(1 .. n, R)
  BY <1>2 DEF Injection, IsInjective
<1>4. IsFiniteSet(1 .. n) /\ Cardinality(1 .. n) = n
  BY <1>1, FS_Interval
<1>5. s \in Surjection(1 .. n, R)
  BY <1>1, <1>3, <1>4, FS_Injection
<1> QED
  BY <1>1, <1>2, <1>5 DEF Surjection

\* The first rule of an order that triggers, if there is one.
LEMMA FirstHit ==
  ASSUME NEW R, IsFiniteSet(R), NEW s \in SetToSeqs(R), NEW T \in SUBSET R
  PROVE  \/ T = {} /\ FirstOf(s, T) = Passed
         \/ \E i \in DOMAIN s : /\ s[i] \in T /\ FirstOf(s, T) = Demand(s[i])
                                /\ \A j \in DOMAIN s : s[j] \in T => i <= j
<1>1. /\ DOMAIN s \in SUBSET Nat
      /\ \A r \in R : \E i \in DOMAIN s : s[i] = r
  BY OrderIsComplete
<1>2. PICK hits : hits = {i \in DOMAIN s : s[i] \in T}
  OBVIOUS
<1>3. FirstOf(s, T) = IF hits = {} THEN Passed ELSE Demand(s[Min(hits)])
  BY <1>2 DEF FirstOf
<1>4. CASE hits = {}
  BY <1>1, <1>2, <1>3, <1>4
<1>5. CASE hits # {}
  <2>1. \E x \in hits : \A y \in hits : x <= y
    BY <1>1, <1>2, <1>5, LeastNumber
  <2>2. Min(hits) \in hits /\ \A y \in hits : Min(hits) <= y
    BY <2>1 DEF Min
  <2> QED
    BY <1>2, <1>3, <1>5, <2>2
<1> QED
  BY <1>4, <1>5

\* What the loop over rules R can answer when those of T trigger.
LEMMA Evaluation ==
  ASSUME RulesInv, NEW R \in SUBSET Existing, NEW T \in SUBSET R
  PROVE  {FirstOf(s, T) : s \in ByPriority(R)} =
           IF T = {} THEN {Passed}
           ELSE {Demand(r) : r \in {q \in T : \A o \in T : rules[o].priority <= rules[q].priority}}
<1>1. /\ IsFiniteSet(R)
      /\ \A r \in R : rules[r].priority \in Nat
  <2>1. R \in SUBSET RuleIds
    BY DEF Existing
  <2>2. \A r \in R : rules[r] \in StoredRules
    BY <2>1 DEF Existing, RulesInv
  <2> QED
    BY <2>1, <2>2, FS_Subset, RulesAssumption DEF StoredRules
<1>2. ASSUME NEW q PROVE \E s \in ByPriority(R) : Before(s, q)
  <2>1. PICK s \in [1 .. Cardinality(R) -> R] :
          Before(s, q) /\ \A i, j \in 1 .. Cardinality(R) : i # j => s[i] # s[j]
    BY <1>1, OrderExists DEF Ranked
  <2>2. s \in SetToSeqs(R)
    BY <2>1 DEF SetToSeqs
  <2> QED
    BY <2>1, <2>2 DEF ByPriority, Before
<1>3. CASE T = {}
  <2>1. \A s \in ByPriority(R) : FirstOf(s, T) = Passed
    BY <1>1, <1>3, FirstHit DEF ByPriority
  <2>2. ByPriority(R) # {}
    BY <1>2
  <2> QED
    BY <1>3, <2>1, <2>2
<1>4. CASE T # {}
  <2>1. ASSUME NEW s \in ByPriority(R)
        PROVE  \E q \in T : /\ FirstOf(s, T) = Demand(q)
                            /\ \A o \in T : rules[o].priority <= rules[q].priority
    <3>1. s \in SetToSeqs(R) /\ \A i, j \in DOMAIN s : i < j =>
             rules[s[i]].priority >= rules[s[j]].priority
      BY DEF ByPriority
    <3>2. PICK i \in DOMAIN s : /\ s[i] \in T /\ FirstOf(s, T) = Demand(s[i])
                                /\ \A j \in DOMAIN s : s[j] \in T => i <= j
      BY <1>1, <1>4, <3>1, FirstHit
    <3>3. ASSUME NEW o \in T PROVE rules[o].priority <= rules[s[i]].priority
      <4>1. PICK j \in DOMAIN s : s[j] = o
        BY <1>1, <3>1, OrderIsComplete
      <4>2. i \in Nat /\ j \in Nat /\ i <= j
        BY <1>1, <3>1, <3>2, <4>1, OrderIsComplete
      <4>3. rules[o].priority \in Nat /\ rules[s[i]].priority \in Nat
        BY <1>1, <3>2
      <4>4. CASE i = j
        BY <4>1, <4>3, <4>4
      <4>5. CASE i < j
        BY <3>1, <4>1, <4>3, <4>5
      <4> QED
        BY <4>2, <4>4, <4>5
    <3> QED
      BY <3>2, <3>3
  <2>2. ASSUME NEW q \in T, \A o \in T : rules[o].priority <= rules[q].priority
        PROVE  \E s \in ByPriority(R) : FirstOf(s, T) = Demand(q)
    <3>1. PICK s \in ByPriority(R) : Before(s, q)
      BY <1>2
    <3>2. s \in SetToSeqs(R)
      BY DEF ByPriority
    <3>3. PICK i \in DOMAIN s : /\ s[i] \in T /\ FirstOf(s, T) = Demand(s[i])
                                /\ \A j \in DOMAIN s : s[j] \in T => i <= j
      BY <1>1, <1>4, <3>2, FirstHit
    <3>4. PICK j \in DOMAIN s : s[j] = q
      BY <1>1, <3>2, OrderIsComplete
    <3>5. i \in Nat /\ j \in Nat /\ i <= j
      BY <1>1, <3>2, <3>3, <3>4, OrderIsComplete
    <3>6. rules[q].priority \in Nat /\ rules[s[i]].priority \in Nat
      BY <1>1, <3>3
    <3>7. ~ (i < j)
      BY <2>2, <3>1, <3>3, <3>4, <3>6 DEF Before
    <3>8. i = j
      BY <3>5, <3>7
    <3> QED
      BY <3>3, <3>4, <3>8
  <2> QED
    BY <1>4, <2>1, <2>2
<1> QED
  BY <1>3, <1>4

LEMMA BothEvaluations ==
  ASSUME RulesInv, NEW type, NEW amount, NEW l
  PROVE  /\ EvaluateRules(type, amount, l) = Reference(type, amount, l)
         /\ CheckBusinessRules(type, amount, l) = Reference(type, amount, l)
<1>1. CASE l = "OWNER"
  BY <1>1 DEF EvaluateRules, CheckBusinessRules, Reference
<1>2. CASE l # "OWNER"
  <2>1. PICK found : found = {r \in ActiveRules(type) : rules[r].appliesToLevel = l}
    OBVIOUS
  <2>2. PICK T : T = Triggered(type, amount, l)
    OBVIOUS
  <2>3. /\ {r \in Above(ActiveRules(type), amount) : rules[r].appliesToLevel = l} = T
        /\ Above(found, amount) = T
    BY <2>1, <2>2 DEF Above, Triggered
  <2>4. /\ ActiveRules(type) \in SUBSET Existing /\ found \in SUBSET Existing
        /\ T \in SUBSET ActiveRules(type) /\ T \in SUBSET found
    BY <2>1, <2>2 DEF ActiveRules, Triggered
  <2>5. /\ EvaluateRules(type, amount, l) = {FirstOf(s, T) : s \in ByPriority(ActiveRules(type))}
        /\ CheckBusinessRules(type, amount, l) = {FirstOf(s, T) : s \in ByPriority(found)}
    BY <1>2, <2>1, <2>3 DEF EvaluateRules, CheckBusinessRules
  <2>6. Reference(type, amount, l) =
          IF T = {} THEN {Passed}
          ELSE {Demand(r) : r \in {q \in T : \A o \in T : rules[o].priority <= rules[q].priority}}
    BY <1>2, <2>2 DEF Reference
  <2> QED
    BY <2>4, <2>5, <2>6, Evaluation
<1> QED
  BY <1>1, <1>2

LEMMA RulesInvariance == RulesSpec => []RulesInv
  BY InitRules, RulesInductive, PTL DEF RulesSpec

\* For any rules, however they were created and updated, and any order of equal priorities:
\* evaluateRules and the engine's layer 4 can give the same answers, and those are what the
\* rules mean.
THEOREM EvaluationsAgree == RulesSpec => []EvaluatorsAgree
<1>1. RulesInv => EvaluatorsAgree
  BY BothEvaluations DEF EvaluatorsAgree
<1> QED
  BY <1>1, RulesInvariance, PTL

\* For any rules: whoever is told to get an approval can get it from the owner, and an amount
\* of zero or less needs none.
THEOREM DemandsAreMet == RulesSpec => []DemandsCanBeMet
<1>1. RulesInv => DemandsCanBeMet
  <2> SUFFICES ASSUME RulesInv, NEW type \in Types, NEW amount \in Amounts, NEW l \in Levels,
                      NEW v \in CheckBusinessRules(type, amount, l), ~ v.passed
               PROVE  amount > 0 /\ ValidateApprover(l = "OWNER", "OWNER", v.approverLevel)
    BY DEF DemandsCanBeMet
  <2>1. v \in Reference(type, amount, l) /\ v # Passed
    BY BothEvaluations DEF Passed
  <2>2. l # "OWNER" /\ \E r \in Triggered(type, amount, l) : v = Demand(r)
    BY <2>1 DEF Reference
  <2>3. PICK r \in Triggered(type, amount, l) : v = Demand(r)
    BY <2>2
  <2>4. rules[r] \in StoredRules /\ amount > rules[r].thresholdValue
    BY DEF Triggered, ActiveRules, Existing, RulesInv
  <2>5. amount \in Int /\ rules[r].thresholdValue \in Nat \ {0} /\ rules[r].approverLevel \in Levels
    BY <2>4, RulesAssumption DEF StoredRules
  <2>6. v.approverLevel = rules[r].approverLevel
    BY <2>3 DEF Demand
  <2> QED
    BY <2>2, <2>4, <2>5, <2>6 DEF ValidateApprover, Rank, Levels
<1> QED
  BY <1>1, RulesInvariance, PTL
-----------------------------------------------------------------------------
(***************************************************************************)
(* The authorization check, for any number of requests.  What is shown is  *)
(* shown of one request at a time: nothing that another request or another *)
(* change does can take away what has been recorded of it.                 *)
(***************************************************************************)

\* A request from its start to its answer.
Requests ==
  [via : {"engine", "guards"}, need : Levels, scope : Seats, type : Types \cup {NoType},
   amount : Amounts, user : [level : Levels \cup {"none"}, seat : Seats], fault : BOOLEAN,
   seen : {"none", "yes", "no"},
   at : {"findById", "findUnique", "lookup", "fetch", "fill", "rules"} \cup Verdicts]

AuthTypeOK ==
  /\ RulesInv
  /\ level \in Levels \cup {"none"} /\ seat \in Seats /\ claims \in Seats
  /\ row \in BOOLEAN /\ cached \in {"none", "yes", "no"}
  /\ req \in [Callers -> Requests \cup {Idle}]
  /\ held \in [Callers -> SUBSET Layers] /\ failed \in [Callers -> SUBSET Layers]

\* While a request is on its way, what holds and what fails now is on record.
OnRecord(c) ==
  Busy(c) => /\ Holds(req[c]) \cup Copied(req[c]) \subseteq held[c]
             /\ (Layers \ Holds(req[c])) \cup Copied(req[c]) \subseteq failed[c]

\* A request that is about no transaction has nothing to fear of the rules.
NoTransaction(c) ==
  req[c] # Idle /\ req[c].type = NoType => "BUSINESS_RULES" \in held[c]

\* Past layer 1 the level that was read is the user's, and high enough.
LevelKnown(c) ==
  /\ At(c, "findUnique") => level # "none" /\ req[c].need = level
  /\ req[c].at \in {"lookup", "fetch", "fill", "rules"} =>
        /\ level # "none" /\ req[c].user.level = level
        /\ "HIERARCHY_LEVEL" \in held[c]

\* What layer 3 will say of the seat that was read was so at that time.
ScopeKnown(c) ==
  req[c].at \in {"lookup", "fetch", "fill"} =>
    "SCOPE" \in IF CheckScope(req[c].user, req[c].scope) THEN held[c] ELSE failed[c]

\* And so was what was read of the permission.
PermissionKnown(c) ==
  At(c, "fill") => /\ req[c].seen \in {"yes", "no"}
                   /\ "MODULE_PERMISSION" \in IF req[c].seen = "yes" THEN held[c] ELSE failed[c]

\* Only the rules are left.
RulesLeft(c) ==
  At(c, "rules") => req[c].type # NoType /\ {"MODULE_PERMISSION", "SCOPE"} \subseteq held[c]

Justified(c) ==
  /\ At(c, "ok") => Layers \subseteq held[c]
  /\ req[c].at \in Layers => req[c].at \in failed[c] \/ req[c].fault

Accounted(c) ==
  /\ OnRecord(c) /\ NoTransaction(c) /\ LevelKnown(c) /\ ScopeKnown(c)
  /\ PermissionKnown(c) /\ RulesLeft(c) /\ Justified(c)

AuthInv == AuthTypeOK /\ \A c \in Callers : Accounted(c)

-----------------------------------------------------------------------------
LEMMA RequestsAreNotIdle == \A r \in Requests : r # Idle /\ r.at # "idle"
  BY DEF Requests, Idle, Verdicts, Layers

LEMMA InitAuth == AuthInit => AuthInv
<1> SUFFICES ASSUME AuthInit PROVE AuthInv
  OBVIOUS
<1>1. AuthTypeOK
  BY InitRules DEF AuthInit, AuthTypeOK
<1>2. ASSUME NEW c \in Callers PROVE Accounted(c)
  <2>1. req[c] = Idle /\ req[c].at = "idle"
    BY DEF AuthInit, Idle
  <2> QED
    BY <2>1 DEF Accounted, OnRecord, NoTransaction, LevelKnown, ScopeKnown, PermissionKnown,
       RulesLeft, Justified, Busy, At, Layers
<1> QED
  BY <1>1, <1>2 DEF AuthInv

\* What a step leaves on record.
LEMMA Recorded ==
  ASSUME AuthTypeOK, Observe, NEW c \in Callers
  PROVE  /\ held' \in [Callers -> SUBSET Layers] /\ failed' \in [Callers -> SUBSET Layers]
         /\ req[c]' # Idle =>
              /\ held[c] \subseteq held[c]' /\ failed[c] \subseteq failed[c]'
              /\ Busy(c)' \/ req[c] = Idle =>
                   /\ (Holds(req[c]) \cup Copied(req[c]))' \subseteq held[c]'
                   /\ ((Layers \ Holds(req[c])) \cup Copied(req[c]))' \subseteq failed[c]'
<1>1. \A r : /\ (Holds(r) \cup Copied(r))' \subseteq Layers
             /\ ((Layers \ Holds(r)) \cup Copied(r))' \subseteq Layers
  BY DEF Holds, Copied
<1> QED
  BY <1>1 DEF Observe, AuthTypeOK

\* A step that leaves a request alone leaves what is known of it.
LEMMA OthersKeep ==
  ASSUME AuthTypeOK, Observe, level' = level, NEW c \in Callers, Accounted(c),
         req[c]' = req[c]
  PROVE  Accounted(c)'
<1>1. CASE req[c] = Idle
  <2>1. req[c]'.at = "idle"
    BY <1>1 DEF Idle
  <2> QED
    BY <1>1, <2>1 DEF Accounted, OnRecord, NoTransaction, LevelKnown, ScopeKnown, PermissionKnown,
       RulesLeft, Justified, Busy, At, Layers
<1>2. CASE req[c] # Idle
  <2>1. held[c] \subseteq held[c]' /\ failed[c] \subseteq failed[c]'
    BY <1>2, Recorded
  <2>2. OnRecord(c)'
    BY <1>2, Recorded DEF OnRecord
  <2>3. CheckScope(req[c].user, req[c].scope)' = CheckScope(req[c].user, req[c].scope)
    BY DEF CheckScope
  <2>4. /\ NoTransaction(c)' /\ LevelKnown(c)' /\ ScopeKnown(c)' /\ PermissionKnown(c)'
        /\ RulesLeft(c)' /\ Justified(c)'
    BY <2>1, <2>3 DEF Accounted, NoTransaction, LevelKnown, ScopeKnown, PermissionKnown,
       RulesLeft, Justified, At
  <2> QED
    BY <2>2, <2>4 DEF Accounted
<1> QED
  BY <1>1, <1>2

\* The fields that the steps of a request write.
LEMMA Written ==
  ASSUME AuthTypeOK, NEW c \in Callers, req[c] # Idle,
         NEW at \in {"findById", "findUnique", "lookup", "fetch", "fill", "rules"} \cup Verdicts
  PROVE  /\ req[c] \in Requests
         /\ \A new : req' = [req EXCEPT ![c] = new] /\ new \in Requests =>
              req' \in [Callers -> Requests \cup {Idle}] /\ req[c]' = new
         /\ Goto(c, at) =>
              /\ req' = [req EXCEPT ![c] = [req[c] EXCEPT !.at = at]]
              /\ [req[c] EXCEPT !.at = at] \in Requests
         /\ Failing(c, at) =>
              /\ req' = [req EXCEPT ![c] = [req[c] EXCEPT !.at = at, !.fault = TRUE]]
              /\ [req[c] EXCEPT !.at = at, !.fault = TRUE] \in Requests
<1>1. req \in [Callers -> Requests \cup {Idle}] /\ req[c] \in Requests
  BY DEF AuthTypeOK
<1>2. \A new : req' = [req EXCEPT ![c] = new] /\ new \in Requests =>
         req' \in [Callers -> Requests \cup {Idle}] /\ req[c]' = new
  BY <1>1
<1>3. Goto(c, at) => req' = [req EXCEPT ![c] = [req[c] EXCEPT !.at = at]]
  BY <1>1 DEF Goto
<1>4. [req[c] EXCEPT !.at = at] \in Requests
  BY <1>1 DEF Requests
<1>5. Failing(c, at) => req' = [req EXCEPT ![c] = [req[c] EXCEPT !.at = at, !.fault = TRUE]]
  BY <1>1 DEF Failing
<1>6. [req[c] EXCEPT !.at = at, !.fault = TRUE] \in Requests
  BY <1>1 DEF Requests
<1> QED
  BY <1>1, <1>2, <1>3, <1>4, <1>5, <1>6

\* A request that fails under a call is over, and says so.
LEMMA FailingAccounts ==
  ASSUME AuthTypeOK, Observe, NEW c \in Callers, req[c] # Idle, Accounted(c),
         NEW v \in Verdicts \ {"ok"}, Failing(c, v)
  PROVE  req' \in [Callers -> Requests \cup {Idle}] /\ Accounted(c)'
<1>1. /\ req' = [req EXCEPT ![c] = [req[c] EXCEPT !.at = v, !.fault = TRUE]]
      /\ [req[c] EXCEPT !.at = v, !.fault = TRUE] \in Requests /\ req[c] \in Requests
  BY Written
<1>2. /\ req' \in [Callers -> Requests \cup {Idle}]
      /\ req[c]' = [req[c] EXCEPT !.at = v, !.fault = TRUE] /\ req[c]' # Idle
  BY <1>1, Written, RequestsAreNotIdle
<1>3. req[c]'.at = v /\ req[c]'.fault /\ req[c]'.type = req[c].type
  BY <1>1, <1>2 DEF Requests
<1>4. held[c] \subseteq held[c]'
  BY <1>2, Recorded
<1> QED
  BY <1>2, <1>3, <1>4 DEF Accounted, OnRecord, NoTransaction, LevelKnown, ScopeKnown,
     PermissionKnown, RulesLeft, Justified, Busy, At, Verdicts, Layers

\* What a step that only moves a request on leaves of it.
LEMMA GotoAccounts ==
  ASSUME AuthTypeOK, Observe, level' = level, NEW c \in Callers, req[c] # Idle, Accounted(c),
         NEW at \in {"fetch", "rules"} \cup Verdicts, Goto(c, at)
  PROVE  /\ req' \in [Callers -> Requests \cup {Idle}]
         /\ req[c]'.at = at /\ req[c]' # Idle /\ req[c]'.type = req[c].type
         /\ req[c]'.user = req[c].user /\ req[c]'.scope = req[c].scope
         /\ held[c] \subseteq held[c]' /\ failed[c] \subseteq failed[c]'
         /\ OnRecord(c)' /\ NoTransaction(c)'
<1>1. /\ req' = [req EXCEPT ![c] = [req[c] EXCEPT !.at = at]]
      /\ [req[c] EXCEPT !.at = at] \in Requests /\ req[c] \in Requests
  BY Written
<1>2. /\ req' \in [Callers -> Requests \cup {Idle}]
      /\ req[c]' = [req[c] EXCEPT !.at = at] /\ req[c]' # Idle
  BY <1>1, Written, RequestsAreNotIdle
<1>3. /\ req[c]'.at = at /\ req[c]'.type = req[c].type
      /\ req[c]'.user = req[c].user /\ req[c]'.scope = req[c].scope
  BY <1>1, <1>2 DEF Requests
<1>4. held[c] \subseteq held[c]' /\ failed[c] \subseteq failed[c]' /\ OnRecord(c)'
  BY <1>2, Recorded DEF OnRecord
<1>5. NoTransaction(c)'
  BY <1>3, <1>4 DEF Accounted, NoTransaction
<1> QED
  BY <1>2, <1>3, <1>4, <1>5

LEMMA BeginAccounts ==
  ASSUME AuthTypeOK, Observe, NEW c \in Callers, Accounted(c), Begin(c)
  PROVE  req' \in [Callers -> Requests \cup {Idle}] /\ Accounted(c)'
<1>1. PICK q, new :
        /\ q \in Questions
        /\ q.via = "guards" => level # "none"
        /\ new = [via |-> q.via, need |-> q.need, scope |-> q.scope, type |-> q.type,
               amount |-> q.amount,
               user |-> [level |-> level, seat |-> claims], fault |-> FALSE, seen |-> "none",
               at |-> IF q.via = "engine" THEN "findById"
                      ELSE IF CheckHierarchyLevel(level, q.need) THEN "lookup"
                      ELSE "HIERARCHY_LEVEL"]
        /\ req' = [req EXCEPT ![c] = new]
  BY DEF Begin
<1>2. new \in Requests
  BY <1>1 DEF Requests, Questions, AuthTypeOK, Verdicts, Layers
<1>3. req[c] = Idle /\ req' \in [Callers -> Requests \cup {Idle}] /\ req[c]' = new /\ new # Idle
  BY <1>1, <1>2, RequestsAreNotIdle DEF Begin, AuthTypeOK
<1>4. level' = level /\ claims' = claims /\ seat' = seat
  BY DEF Begin, world
<1>5. /\ (Holds(new) \cup Copied(new))' \subseteq held[c]'
      /\ ((Layers \ Holds(new)) \cup Copied(new))' \subseteq failed[c]'
  <2>1. req[c]' # Idle
    BY <1>3
  <2> QED
    BY <1>3, <2>1, Recorded
<1>6. OnRecord(c)'
  BY <1>3, <1>5 DEF OnRecord
<1>7. NoTransaction(c)'
  BY <1>3, <1>5 DEF NoTransaction, Holds, Layers
<1>8. new.at \in {"findById", "lookup", "HIERARCHY_LEVEL"}
  BY <1>1
<1>9. CASE new.at = "findById"
  BY <1>3, <1>6, <1>7, <1>9 DEF Accounted, LevelKnown, ScopeKnown, PermissionKnown,
     RulesLeft, Justified, At, Layers
<1>10. CASE new.at = "lookup"
  <2>1. /\ new.via = "guards" /\ level # "none" /\ CheckHierarchyLevel(level, new.need)
        /\ new.user.level = level /\ new.user.seat = claims
    BY <1>1, <1>10 DEF Questions
  <2>2. LevelKnown(c)'
    BY <1>3, <1>4, <1>5, <1>10, <2>1 DEF LevelKnown, Holds, Layers, CheckHierarchyLevel, At
  <2>3. ScopeKnown(c)'
    <3>1. CASE claims # seat
      <4>1. "SCOPE" \in Copied(new)'
        BY <1>4, <2>1, <3>1 DEF Copied, Layers
      <4> QED
        BY <1>3, <1>5, <4>1 DEF ScopeKnown
    <3>2. CASE claims = seat
      <4>1. CheckScope(new.user, new.scope) <=> "SCOPE" \in Holds(new)'
        BY <1>4, <2>1, <3>2 DEF Holds, Layers, CheckScope
      <4> QED
        BY <1>3, <1>5, <4>1 DEF ScopeKnown, CheckScope, Layers
    <3> QED
      BY <3>1, <3>2
  <2> QED
    BY <1>3, <1>6, <1>7, <1>10, <2>2, <2>3 DEF Accounted, PermissionKnown,
       RulesLeft, Justified, At, Layers
<1>11. CASE new.at = "HIERARCHY_LEVEL"
  <2>1. level # "none" /\ ~ CheckHierarchyLevel(level, new.need)
    BY <1>1, <1>11 DEF Questions
  <2>2. "HIERARCHY_LEVEL" \in failed[c]'
    BY <1>4, <1>5, <2>1 DEF Holds, Layers, CheckHierarchyLevel
  <2> QED
    BY <1>3, <1>6, <1>7, <1>11, <2>2 DEF Accounted, LevelKnown, ScopeKnown, PermissionKnown,
       RulesLeft, Justified, At, Layers
<1> QED
  BY <1>3, <1>8, <1>9, <1>10, <1>11

LEMMA FindByIdAccounts ==
  ASSUME AuthTypeOK, Observe, NEW c \in Callers, Accounted(c), FindById(c)
  PROVE  req' \in [Callers -> Requests \cup {Idle}] /\ Accounted(c)'
<1>1. req[c] # Idle /\ level' = level /\ req[c] \in Requests
  BY DEF FindById, At, Idle, world, AuthTypeOK
<1>2. CASE level # "none" /\ req' = [req EXCEPT ![c].at = "findUnique", ![c].need = level]
  <2>1. PICK new : new = [req[c] EXCEPT !.at = "findUnique", !.need = level]
    OBVIOUS
  <2>2. /\ new \in Requests /\ new.at = "findUnique" /\ new.need = level
        /\ new.type = req[c].type
    BY <1>1, <1>2, <2>1 DEF Requests, AuthTypeOK
  <2>3. req' = [req EXCEPT ![c] = new]
    BY <1>2, <2>1 DEF AuthTypeOK
  <2>4. req' \in [Callers -> Requests \cup {Idle}] /\ req[c]' = new /\ new # Idle
    BY <2>2, <2>3, RequestsAreNotIdle DEF AuthTypeOK
  <2>5. held[c] \subseteq held[c]' /\ OnRecord(c)'
    BY <2>4, Recorded DEF OnRecord
  <2> QED
    BY <1>1, <1>2, <2>2, <2>4, <2>5 DEF Accounted, NoTransaction, LevelKnown, ScopeKnown,
       PermissionKnown, RulesLeft, Justified, At, Layers
<1>3. CASE Goto(c, "not_found")
  <2>1. "not_found" \in {"fetch", "rules"} \cup Verdicts
    BY DEF Verdicts
  <2> QED
    BY <1>1, <1>3, <2>1, GotoAccounts DEF Accounted, LevelKnown, ScopeKnown,
       PermissionKnown, RulesLeft, Justified, At, Layers
<1>4. CASE Failing(c, "SYSTEM_ERROR")
  BY <1>1, <1>4, FailingAccounts DEF Verdicts
<1> QED
  BY <1>2, <1>3, <1>4 DEF FindById

LEMMA FindUniqueAccounts ==
  ASSUME AuthTypeOK, Observe, NEW c \in Callers, Accounted(c), FindUnique(c)
  PROVE  req' \in [Callers -> Requests \cup {Idle}] /\ Accounted(c)'
<1>1. /\ req[c] # Idle /\ req[c] \in Requests /\ At(c, "findUnique")
      /\ level' = level /\ seat' = seat /\ claims' = claims /\ row' = row /\ cached' = cached
      /\ rules' = rules
  BY DEF FindUnique, At, Idle, world, AuthTypeOK
<1>2. level \in Levels /\ req[c].need = level
  BY <1>1 DEF Accounted, LevelKnown, AuthTypeOK
<1>3. CASE req' = [req EXCEPT ![c].user = [level |-> level, seat |-> seat],
                  ![c].at = IF CheckHierarchyLevel(level, req[c].need) THEN "lookup"
                            ELSE "HIERARCHY_LEVEL"]
  <2>1. CheckHierarchyLevel(level, req[c].need)
    BY <1>2 DEF CheckHierarchyLevel, Rank, Levels
  <2>2. PICK own : own = [level |-> level, seat |-> seat]
    OBVIOUS
  <2>3. PICK new : new = [req[c] EXCEPT !.user = own, !.at = "lookup"]
    OBVIOUS
  <2>4. /\ new \in Requests /\ new.at = "lookup" /\ new.user = own
        /\ new.type = req[c].type /\ new.scope = req[c].scope /\ new.need = req[c].need
        /\ new.via = req[c].via
    BY <1>1, <2>2, <2>3 DEF Requests, AuthTypeOK
  <2>5. req' = [req EXCEPT ![c] = new]
    BY <1>3, <2>1, <2>2, <2>3 DEF AuthTypeOK
  <2>6. req' \in [Callers -> Requests \cup {Idle}] /\ req[c]' = new /\ new # Idle
    BY <2>4, <2>5, RequestsAreNotIdle DEF AuthTypeOK
  <2>7. /\ held[c] \subseteq held[c]' /\ failed[c] \subseteq failed[c]' /\ OnRecord(c)'
    BY <2>6, Recorded DEF OnRecord
  <2>8. Busy(c)'
    BY <2>4, <2>6 DEF Busy, Verdicts, Layers
  <2>9. Holds(new)' \subseteq held[c]' /\ (Layers \ Holds(new))' \subseteq failed[c]'
    BY <2>6, <2>7, <2>8 DEF OnRecord
  <2>10. "HIERARCHY_LEVEL" \in Holds(new)'
    BY <1>1, <1>2, <2>4 DEF Holds, Layers, Rank, Levels
  <2>11. CheckScope(new.user, new.scope) <=> "SCOPE" \in Holds(new)'
    <3>1. own.level = level /\ own.seat = seat
      BY <2>2
    <3> QED
      BY <1>1, <2>4, <3>1 DEF Holds, Layers, CheckScope
  <2>12. LevelKnown(c)'
    BY <1>1, <1>2, <2>2, <2>4, <2>6, <2>9, <2>10 DEF LevelKnown, At, Levels
  <2>13. ScopeKnown(c)'
    BY <2>6, <2>9, <2>11 DEF ScopeKnown, CheckScope, Layers
  <2> QED
    BY <1>1, <2>4, <2>6, <2>7, <2>12, <2>13 DEF Accounted, NoTransaction,
       PermissionKnown, RulesLeft, Justified, At, Layers
<1>4. CASE Failing(c, "SYSTEM_ERROR")
  BY <1>1, <1>4, FailingAccounts DEF Verdicts
<1> QED
  BY <1>3, <1>4 DEF FindUnique

\* What is read of the permission was so while the request was on its way.
LEMMA AfterPermissionAccounts ==
  ASSUME AuthTypeOK, Observe, level' = level, NEW c \in Callers, req[c] # Idle, Accounted(c),
         req[c].at \in {"lookup", "fetch", "fill"}, NEW yes \in BOOLEAN, AfterPermission(c, yes),
         "MODULE_PERMISSION" \in IF yes THEN held[c] ELSE failed[c]
  PROVE  req' \in [Callers -> Requests \cup {Idle}] /\ Accounted(c)'
<1>1. PICK next : next = IF ~ yes THEN "MODULE_PERMISSION"
                         ELSE IF ~ CheckScope(req[c].user, req[c].scope) THEN "SCOPE"
                         ELSE IF req[c].type # NoType THEN "rules" ELSE "ok"
  OBVIOUS
<1>2. next \in {"MODULE_PERMISSION", "SCOPE", "rules", "ok"}
  BY <1>1
<1>3. next \in {"fetch", "rules"} \cup Verdicts /\ Goto(c, next)
  BY <1>1, <1>2 DEF AfterPermission, Verdicts, Layers
<1>4. /\ req' \in [Callers -> Requests \cup {Idle}]
      /\ req[c]'.at = next /\ req[c]'.type = req[c].type
      /\ req[c]'.user = req[c].user /\ req[c]'.scope = req[c].scope
      /\ held[c] \subseteq held[c]' /\ failed[c] \subseteq failed[c]'
      /\ OnRecord(c)' /\ NoTransaction(c)'
  BY <1>3, GotoAccounts
<1>5. /\ level # "none" /\ req[c].user.level = level /\ "HIERARCHY_LEVEL" \in held[c]
      /\ "SCOPE" \in IF CheckScope(req[c].user, req[c].scope) THEN held[c] ELSE failed[c]
      /\ req[c].type = NoType => "BUSINESS_RULES" \in held[c]
  BY DEF Accounted, LevelKnown, ScopeKnown, NoTransaction
<1>6. LevelKnown(c)'
  BY <1>2, <1>4, <1>5 DEF LevelKnown, At
<1>7. RulesLeft(c)'
  BY <1>1, <1>4, <1>5 DEF RulesLeft, At
<1>8. Justified(c)'
  BY <1>1, <1>4, <1>5 DEF Justified, At, Layers
<1> QED
  BY <1>2, <1>4, <1>6, <1>7, <1>8 DEF Accounted, ScopeKnown, PermissionKnown, At

LEMMA LookupAccounts ==
  ASSUME AuthTypeOK, Observe, NEW c \in Callers, Accounted(c), Lookup(c)
  PROVE  req' \in [Callers -> Requests \cup {Idle}] /\ Accounted(c)'
<1>1. /\ req[c] # Idle /\ req[c] \in Requests /\ req[c].at = "lookup" /\ level' = level
      /\ Busy(c)
  BY DEF Lookup, At, Idle, world, AuthTypeOK, Busy, Verdicts, Layers
<1>2. CASE cached # "none" /\ AfterPermission(c, cached = "yes")
  <2>1. "MODULE_PERMISSION" \in IF cached = "yes" THEN held[c] ELSE failed[c]
    <3>1. \/ "MODULE_PERMISSION" \in Copied(req[c])
          \/ row /\ cached = "yes"
          \/ ~ row /\ cached = "no"
      <4>1. cached = "yes" \/ cached = "no"
        BY <1>2 DEF AuthTypeOK
      <4>2. row /\ cached = "no" => "MODULE_PERMISSION" \in Copied(req[c])
        BY DEF Copied, Layers
      <4>3. ~ row /\ cached = "yes" => "MODULE_PERMISSION" \in Copied(req[c])
        BY DEF Copied, Layers
      <4> QED
        BY <4>1, <4>2, <4>3, Zenon
    <3>2. "MODULE_PERMISSION" \in Holds(req[c]) <=> row
      BY DEF Holds, Layers
    <3> QED
      BY <1>1, <3>1, <3>2 DEF Accounted, OnRecord, Layers
  <2> QED
    BY <1>1, <1>2, <2>1, AfterPermissionAccounts
<1>3. CASE Goto(c, "fetch")
  BY <1>1, <1>3, GotoAccounts DEF Accounted, LevelKnown, ScopeKnown, CheckScope,
     PermissionKnown, RulesLeft, Justified, At, Layers
<1> QED
  BY <1>2, <1>3 DEF Lookup

LEMMA FetchAccounts ==
  ASSUME AuthTypeOK, Observe, NEW c \in Callers, Accounted(c), Fetch(c)
  PROVE  req' \in [Callers -> Requests \cup {Idle}] /\ Accounted(c)'
<1>1. /\ req[c] # Idle /\ req[c] \in Requests /\ req[c].at = "fetch" /\ level' = level
      /\ Busy(c)
  BY DEF Fetch, At, Idle, world, AuthTypeOK, Busy, Verdicts, Layers
<1>2. CASE req' = [req EXCEPT ![c].at = "fill", ![c].seen = IF row THEN "yes" ELSE "no"]
  <2>1. PICK seen \in {"yes", "no"} : seen = IF row THEN "yes" ELSE "no"
    OBVIOUS
  <2>2. PICK new : new = [req[c] EXCEPT !.at = "fill", !.seen = seen]
    OBVIOUS
  <2>3. /\ new \in Requests /\ new.at = "fill" /\ new.seen = seen
        /\ new.type = req[c].type /\ new.scope = req[c].scope /\ new.user = req[c].user
    BY <1>1, <2>1, <2>2 DEF Requests
  <2>4. req' = [req EXCEPT ![c] = new]
    BY <1>2, <2>1, <2>2 DEF AuthTypeOK
  <2>5. req' \in [Callers -> Requests \cup {Idle}] /\ req[c]' = new /\ new # Idle
    BY <2>3, <2>4, RequestsAreNotIdle DEF AuthTypeOK
  <2>6. held[c] \subseteq held[c]' /\ failed[c] \subseteq failed[c]' /\ OnRecord(c)'
    BY <2>5, Recorded DEF OnRecord
  <2>7. "MODULE_PERMISSION" \in IF seen = "yes" THEN held[c] ELSE failed[c]
    <3>1. "MODULE_PERMISSION" \in Holds(req[c]) <=> row
      BY DEF Holds, Layers
    <3> QED
      BY <1>1, <2>1, <3>1 DEF Accounted, OnRecord, Layers
  <2>8. LevelKnown(c)' /\ ScopeKnown(c)' /\ NoTransaction(c)'
    BY <1>1, <2>3, <2>5, <2>6 DEF Accounted, LevelKnown, ScopeKnown, NoTransaction, CheckScope, At
  <2>9. PermissionKnown(c)'
    BY <2>1, <2>3, <2>5, <2>6, <2>7 DEF PermissionKnown
  <2> QED
    BY <2>3, <2>5, <2>6, <2>8, <2>9 DEF Accounted, RulesLeft, Justified, At, Layers
<1>3. CASE Failing(c, "MODULE_PERMISSION")
  BY <1>1, <1>3, FailingAccounts DEF Verdicts, Layers
<1> QED
  BY <1>2, <1>3 DEF Fetch

LEMMA FillAccounts ==
  ASSUME AuthTypeOK, Observe, NEW c \in Callers, Accounted(c), Fill(c)
  PROVE  req' \in [Callers -> Requests \cup {Idle}] /\ Accounted(c)'
<1>1. /\ req[c] # Idle /\ req[c].at = "fill" /\ level' = level
      /\ AfterPermission(c, req[c].seen = "yes")
  BY DEF Fill, At, Idle
<1>2. "MODULE_PERMISSION" \in IF req[c].seen = "yes" THEN held[c] ELSE failed[c]
  BY <1>1 DEF Accounted, PermissionKnown, At
<1> QED
  BY <1>1, <1>2, AfterPermissionAccounts

LEMMA CheckRulesAccounts ==
  ASSUME AuthTypeOK, Observe, NEW c \in Callers, Accounted(c), CheckRules(c)
  PROVE  req' \in [Callers -> Requests \cup {Idle}] /\ Accounted(c)'
<1>1. /\ req[c] # Idle /\ req[c] \in Requests /\ req[c].at = "rules" /\ level' = level
      /\ Busy(c)
  BY DEF CheckRules, At, Idle, world, AuthTypeOK, Busy, Verdicts, Layers
<1>2. /\ req[c].user.level = level /\ req[c].type # NoType
      /\ {"HIERARCHY_LEVEL", "MODULE_PERMISSION", "SCOPE"} \subseteq held[c]
  BY <1>1 DEF Accounted, LevelKnown, RulesLeft, At
<1>3. CASE Failing(c, "BUSINESS_RULES")
  BY <1>1, <1>3, FailingAccounts DEF Verdicts, Layers
<1>4. ASSUME NEW v \in CheckBusinessRules(req[c].type, req[c].amount, req[c].user.level),
             Goto(c, IF v.passed THEN "ok" ELSE "BUSINESS_RULES")
      PROVE  req' \in [Callers -> Requests \cup {Idle}] /\ Accounted(c)'
  <2>1. v \in Reference(req[c].type, req[c].amount, level)
    BY <1>2, BothEvaluations DEF AuthTypeOK
  <2>2. v.passed <=> "BUSINESS_RULES" \in Holds(req[c])
    <3>1. PICK T : T = Triggered(req[c].type, req[c].amount, level)
      OBVIOUS
    <3>2. "BUSINESS_RULES" \in Holds(req[c]) <=> level = "OWNER" \/ T = {}
      BY <1>2, <3>1 DEF Holds, Layers
    <3>3. CASE level = "OWNER" \/ T = {}
      <4>1. v = Passed
        BY <2>1, <3>1, <3>3 DEF Reference
      <4> QED
        BY <3>2, <3>3, <4>1 DEF Passed
    <3>4. CASE ~ (level = "OWNER" \/ T = {})
      <4>1. PICK r \in T : v = Demand(r)
        BY <2>1, <3>1, <3>4 DEF Reference
      <4> QED
        BY <3>2, <3>4, <4>1 DEF Demand
    <3> QED
      BY <3>3, <3>4
  <2>3. PICK verdict : verdict = IF v.passed THEN "ok" ELSE "BUSINESS_RULES"
    OBVIOUS
  <2>4. verdict \in {"ok", "BUSINESS_RULES"}
    BY <2>3
  <2>5. verdict \in {"fetch", "rules"} \cup Verdicts /\ Goto(c, verdict)
    BY <1>4, <2>3, <2>4 DEF Verdicts, Layers
  <2>6. /\ req' \in [Callers -> Requests \cup {Idle}]
        /\ req[c]'.at = verdict
        /\ held[c] \subseteq held[c]' /\ failed[c] \subseteq failed[c]'
        /\ OnRecord(c)' /\ NoTransaction(c)'
    BY <1>1, <2>5, GotoAccounts
  <2>7. Justified(c)'
    <3>1. "BUSINESS_RULES" \in IF v.passed THEN held[c] ELSE failed[c]
      BY <1>1, <2>2 DEF Accounted, OnRecord, Layers
    <3> QED
      BY <1>2, <2>3, <2>6, <3>1 DEF Justified, At, Layers
  <2> QED
    BY <2>4, <2>6, <2>7 DEF Accounted, LevelKnown, ScopeKnown, PermissionKnown, RulesLeft, At
<1> QED
  BY <1>3, <1>4 DEF CheckRules

LEMMA AnswerAccounts ==
  ASSUME AuthTypeOK, NEW c \in Callers, Answer(c)
  PROVE  req' \in [Callers -> Requests \cup {Idle}] /\ Accounted(c)'
<1>1. req' \in [Callers -> Requests \cup {Idle}] /\ req[c]' = Idle /\ req[c]'.at = "idle"
  BY DEF Answer, AuthTypeOK, Idle
<1> QED
  BY <1>1 DEF Accounted, OnRecord, NoTransaction, LevelKnown, ScopeKnown, PermissionKnown,
     RulesLeft, Justified, Busy, At, Layers

-----------------------------------------------------------------------------
\* A request's step touches neither the other requests nor the rules.
LEMMA RequestKeeps ==
  ASSUME NEW c \in Callers, Request(c)
  PROVE  /\ UNCHANGED <<level, seat, claims, row, rules>>
         /\ AuthTypeOK => cached' \in {"none", "yes", "no"}
         /\ AuthTypeOK => \A d \in Callers \ {c} : req[d]' = req[d]
<1>1. CASE Fill(c)
  BY <1>1 DEF Fill, AfterPermission, Goto, AuthTypeOK, Requests, At, Idle
<1>2. CASE ~ Fill(c)
  BY <1>2 DEF Request, Begin, FindById, FindUnique, Lookup, Fetch, CheckRules, Answer,
     world, AfterPermission, Goto, Failing, AuthTypeOK
<1> QED
  BY <1>1, <1>2

LEMMA AuthInductive == AuthInv /\ [AuthNext]_authVars => AuthInv'
<1> SUFFICES ASSUME AuthInv, [AuthNext]_authVars PROVE AuthInv'
  OBVIOUS
<1>1. CASE UNCHANGED authVars
  <2>1. AuthTypeOK'
    BY <1>1 DEF AuthInv, AuthTypeOK, RulesInv, authVars, world
  <2>2. ASSUME NEW c \in Callers PROVE Accounted(c)'
    <3>1. Accounted(c)
      BY DEF AuthInv
    <3>2. Holds(req[c])' = Holds(req[c]) /\ Copied(req[c])' = Copied(req[c])
      BY <1>1 DEF Holds, Copied, Triggered, ActiveRules, Existing, authVars, world
    <3>3. /\ level' = level /\ req[c]' = req[c] /\ held[c]' = held[c] /\ failed[c]' = failed[c]
          /\ Busy(c)' <=> Busy(c)
      BY <1>1 DEF authVars, world, Busy
    <3>4. CheckScope(req[c].user, req[c].scope)' = CheckScope(req[c].user, req[c].scope)
      BY <3>3 DEF CheckScope
    <3>5. OnRecord(c)'
      BY <3>1, <3>2, <3>3 DEF Accounted, OnRecord
    <3>6. /\ NoTransaction(c)' /\ LevelKnown(c)' /\ ScopeKnown(c)' /\ PermissionKnown(c)'
          /\ RulesLeft(c)' /\ Justified(c)'
      BY <3>1, <3>3, <3>4 DEF Accounted, NoTransaction, LevelKnown, ScopeKnown, PermissionKnown,
         RulesLeft, Justified, At
    <3> QED
      BY <3>5, <3>6 DEF Accounted
  <2> QED
    BY <2>1, <2>2 DEF AuthInv
<1>2. CASE AuthNext
  <2> USE DEF AuthInv
  <2>1. AuthTypeOK /\ Observe /\ \A c \in Callers : Accounted(c)
    BY <1>2 DEF AuthNext
  <2>2. \A c \in Callers : /\ held' \in [Callers -> SUBSET Layers]
                           /\ failed' \in [Callers -> SUBSET Layers]
    BY <2>1, Recorded
  <2>3. held' \in [Callers -> SUBSET Layers] /\ failed' \in [Callers -> SUBSET Layers]
    <3>1. held' = [c \in Callers |-> held'[c]] /\ failed' = [c \in Callers |-> failed'[c]]
      BY <2>1 DEF Observe
    <3> QED
      BY <2>2, <3>1
  <2>4. ASSUME NEW c \in Callers, Request(c) PROVE AuthInv'
    <3>1. req' \in [Callers -> Requests \cup {Idle}] /\ Accounted(c)'
      BY <2>1, <2>4, BeginAccounts, FindByIdAccounts, FindUniqueAccounts, LookupAccounts,
         FetchAccounts, FillAccounts, CheckRulesAccounts, AnswerAccounts DEF Request
    <3>2. /\ UNCHANGED <<level, seat, claims, row, rules>>
          /\ cached' \in {"none", "yes", "no"}
          /\ \A d \in Callers \ {c} : req[d]' = req[d]
      BY <2>1, <2>4, RequestKeeps
    <3>3. AuthTypeOK'
      BY <2>1, <2>3, <3>1, <3>2 DEF AuthTypeOK, RulesInv
    <3>4. ASSUME NEW d \in Callers \ {c} PROVE Accounted(d)'
      BY <2>1, <3>2, OthersKeep
    <3> QED
      BY <3>1, <3>3, <3>4
  <2>5. CASE Move \/ ChangeRow \/ DeleteCopy \/ ExpireCopy \/ IssueToken \/ ChangeRules
    <3>1. UNCHANGED <<level, req>>
      BY <2>5 DEF Move, ChangeRow, DeleteCopy, ExpireCopy, IssueToken, ChangeRules, Disturb
    <3>2. RulesInv'
      <4>1. CASE ChangeRules
        BY <2>1, <4>1, RulesInductive DEF ChangeRules, AuthTypeOK
      <4>2. CASE ~ ChangeRules
        BY <2>1, <2>5, <4>2 DEF Move, ChangeRow, DeleteCopy, ExpireCopy, IssueToken, AuthTypeOK,
             RulesInv
      <4> QED
        BY <4>1, <4>2
    <3>3. /\ seat' \in Seats /\ claims' \in Seats /\ row' \in BOOLEAN
          /\ cached' \in {"none", "yes", "no"}
      BY <2>1, <2>5 DEF Move, ChangeRow, DeleteCopy, ExpireCopy, IssueToken, ChangeRules, AuthTypeOK
    <3>4. AuthTypeOK'
      BY <2>1, <2>3, <3>1, <3>2, <3>3 DEF AuthTypeOK
    <3>5. ASSUME NEW c \in Callers PROVE Accounted(c)'
      BY <2>1, <3>1, OthersKeep
    <3> QED
      BY <3>4, <3>5
  <2> QED
    BY <1>2, <2>4, <2>5 DEF AuthNext
<1> QED
  BY <1>1, <1>2

\* For any number of requests at a time, any branches, departments and rules, and whatever
\* fails or is changed between their awaits: a request that is let through passed all four
\* layers, and one that is refused failed the layer it is told, or a call failed under it.
THEOREM AnswersAreJustified == AuthSpec => []AnswersJustified
<1>1. AuthSpec => []AuthInv
  BY InitAuth, AuthInductive, PTL DEF AuthSpec
<1>2. AuthInv => AnswersJustified
  BY DEF AuthInv, Accounted, Justified, AnswersJustified, GrantJustified, DenialJustified
<1> QED
  BY <1>1, <1>2, PTL

-----------------------------------------------------------------------------
(***************************************************************************)
(* What a client is told of an error.  Each reply is made from the error   *)
(* alone, so nothing is carried from one step to the next: what has to be  *)
(* shown is that class, status, code and words of what src/ and Prisma     *)
(* throw never say different things to the ones that look at one of them.  *)
(***************************************************************************)

\* What the errors have in common: a class has its status, only an error without a status
\* has a code, and a broken constraint is reported with one.
Known(e) == 
  /\ e.status \in {0, 400, 401, 403, 404, 408, 409, 429}
  /\ e.class = "UnauthorizedException" => e.status = 401
  /\ e.class \in {"BadRequestException", "ValidationException"} => e.status = 400
  /\ e.class = "NotFoundException" => e.status = 404
  /\ e.class = "ConflictException" => e.status = 409
  /\ e.status = 401 => e.class = "UnauthorizedException"
  /\ e.class = "RequestTimeoutException" <=> e.status = 408
  /\ e.status # 0 => e.code = "none"
  /\ e.code # "INTERNAL_SERVER_ERROR"
  /\ e.says \cap {"UniqueConstraintFailed", "ForeignKeyConstraintFailed"} # {} =>
        e.code # "none"

\* Every error that src/ or Prisma throws is of this kind.
LEMMA RaisedKnown == \A e \in Raised : Known(e)
<1> SUFFICES ASSUME NEW e \in Raised PROVE Known(e)
  OBVIOUS
<1>1. e.status \in {0, 400, 401, 403, 404, 408, 409, 429}
  BY DEF Raised, An, OfDatabase, Saying
<1>2. /\ e.class = "UnauthorizedException" <=> e.status = 401
      /\ e.class \in {"BadRequestException", "ValidationException"} => e.status = 400
      /\ e.class = "NotFoundException" => e.status = 404
      /\ e.class = "ConflictException" => e.status = 409
      /\ e.class = "RequestTimeoutException" <=> e.status = 408
  BY DEF Raised, An, OfDatabase, Saying
<1>3. e.status # 0 => e.code = "none"
  BY DEF Raised, An, OfDatabase, Saying
<1>4. e.code # "INTERNAL_SERVER_ERROR"
  BY DEF Raised, An, OfDatabase, Saying
<1>5. "UniqueConstraintFailed" \in e.says \/ "ForeignKeyConstraintFailed" \in e.says => e.code # "none"
  BY DEF Raised, An, OfDatabase, Saying
<1> QED
  BY <1>1, <1>2, <1>3, <1>4, <1>5 DEF Known

\* GraphQLExceptionFilter.catch: with a status, class and status give the same code; without
\* one, only the code of the error keeps its words from being replaced.
LEMMA GraphQLReplies ==
  ASSUME NEW e \in Raised, Catch(e) PROVE ErrorsKeepMeaning'
<1>1. Known(e)
  BY RaisedKnown
<1>2. /\ reply'.to = e /\ reply'.by = "graphql" /\ reply'.code = GetErrorCode(e)
      /\ reply'.words = SanitizeErrorMessage(e, GetErrorCode(e))
      /\ reply'.level = IF IsCriticalError(e) \/ ~ IsClientError(e) THEN "error" ELSE "warn"
  BY DEF Catch, Reply
<1>3. CASE e.status = 0
  <2>1. GetErrorCode(e) = IF e.code # "none" THEN e.code ELSE "INTERNAL_SERVER_ERROR"
    BY <1>1, <1>3 DEF Known, GetErrorCode, InstanceOf, StatusCode
  <2> QED
    BY <1>1, <1>2, <1>3, <2>1 DEF Known, ErrorsKeepMeaning, SanitizeErrorMessage, Friendly, IsCriticalError,
     IsClientError
<1>4. CASE e.status # 0
  <2>1. /\ GetErrorCode(e) = StatusCode(e.status)
        /\ StatusCode(e.status) = "INTERNAL_SERVER_ERROR" <=> e.status = 408
    BY <1>1, <1>4 DEF Known, GetErrorCode, InstanceOf, StatusCode
  <2> QED
    BY <1>1, <1>2, <1>4, <2>1 DEF Known, ErrorsKeepMeaning, SanitizeErrorMessage, Friendly, IsCriticalError,
     IsClientError
<1> QED
  BY <1>3, <1>4

\* mapErrorToGrpcError: every status that is thrown is below 500.
LEMMA InterceptorReplies ==
  ASSUME NEW e \in Raised, InterceptError(e) PROVE ErrorsKeepMeaning'
<1>1. Known(e)
  BY RaisedKnown
<1>2. /\ reply'.to = e /\ reply'.by = "interceptor"
      /\ reply'.code = IF e.class = "RpcException" THEN "ItsOwn" ELSE MapErrorToGrpcError(e)
  BY DEF InterceptError, Reply
<1>3. e.status = 0 <=> MapErrorToGrpcError(e) = "INTERNAL"
  BY <1>1 DEF Known, MapErrorToGrpcError, InstanceOf, IsCriticalError
<1> QED
  BY <1>2, <1>3 DEF ErrorsKeepMeaning

\* For every error: the filter of the GraphQL API tells the meaning of its status, of a timeout
\* only what of an internal error, keeps the words of what says nothing about itself back, and
\* logs only errors without a status as errors; the gRPC interceptor blames the server for the
\* same errors.
THEOREM ErrorsTellTheTruth == ErrorsSpec => []ErrorsKeepMeaning
<1>1. ErrorsInit => ErrorsKeepMeaning
  BY DEF ErrorsInit, ErrorsKeepMeaning
<1>2. ErrorsKeepMeaning /\ [ErrorsNext]_reply => ErrorsKeepMeaning'
  <2> SUFFICES ASSUME ErrorsKeepMeaning, [ErrorsNext]_reply PROVE ErrorsKeepMeaning'
    OBVIOUS
  <2>1. ASSUME NEW e \in Raised, HandleGrpcError(e) \/ HandleError(e) PROVE ErrorsKeepMeaning'
    <3>1. reply'.by \in {"controller", "base"}
      BY <2>1 DEF HandleGrpcError, HandleError, Reply
    <3> QED
      BY <3>1 DEF ErrorsKeepMeaning
  <2>2. CASE UNCHANGED reply
    BY <2>2 DEF ErrorsKeepMeaning
  <2> QED
    BY <2>1, <2>2, GraphQLReplies, InterceptorReplies DEF ErrorsNext
<1> QED
  BY <1>1, <1>2, PTL DEF ErrorsSpec
=============================================================================
