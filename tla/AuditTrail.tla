----------------------------- MODULE AuditTrail -----------------------------
(***************************************************************************)
(* The audit log: audit.interceptor.ts reports what an operation came to,  *)
(* audit.service.ts queues the report, audit.processor.ts writes the row,  *)
(* and the queries read the rows page by page, newest first, in an order   *)
(* that rows of one millisecond have no place in.                          *)
(*                                                                         *)
(* Reports are not awaited: the client has its answer before the queue has *)
(* the job.  Bull, an external library, takes a failed job up again until  *)
(* its attempts are used, and one whose worker has died.                   *)
(***************************************************************************)
EXTENDS Naturals, Sequences, SequencesExt, FiniteSets

CONSTANTS
    Calls,         \* operations on their way, each with one report
    Exercised,     \* the fields they are of
    Readers,       \* clients reading the log page by page
    AuditAttempts, \* attempts of a job: 3 in audit.module.ts
    PageSize,      \* the limit of a query, 100 if it names none
    Instants,      \* the milliseconds in which rows are written
    MaxStalled     \* bound: jobs whose workers die

ASSUME PageAssumption == PageSize \in Nat \ {0} /\ Instants \subseteq Nat

VARIABLES
    call,   \* per operation: its field, its outcome, and where its report is
    log,    \* the rows of audit_logs, newest first
    reader  \* per client: the next offset, and what it has not seen of the rows at its start

auditVars == <<call, log, reader>>

-----------------------------------------------------------------------------
(* The interceptor: what is reported                                       *)

\* The patterns that occur in the names of some operations, and how they are called.
Fields == [
    logout |-> [kind |-> "mutation", words |-> {"logout"}],
    grantPermissions |-> [kind |-> "mutation", words |-> {"grant", "permission"}],
    getUserPermissions |-> [kind |-> "query", words |-> {"user", "permission"}],
    checkPermission |-> [kind |-> "query", words |-> {"permission"}]]

ASSUME ExercisedAssumption == Exercised \subseteq DOMAIN Fields

SensitiveQueries == {"getUserPermissions", "getPermissionHistory", "getUserAuditLogs",
                     "getOrganizationAuditLogs", "getActiveSessions"}

\* "Audit all mutations and specific sensitive queries"
ShouldAuditOperation(f) == Fields[f].kind = "mutation" \/ f \in SensitiveQueries

\* The first of patterns that the name of the operation contains.
FirstIn(patterns, f, else) ==
    LET found == SelectSeq(patterns, LAMBDA p : p \in Fields[f].words)
    IN  IF found = << >> THEN else ELSE Head(found)

MapOperationToAction(f) ==
    IF Fields[f].kind = "query" THEN "read"
    ELSE FirstIn(<<"create", "update", "delete", "grant", "revoke", "login", "logout",
                   "register", "assign", "approve", "change">>, f, "mutation")

ExtractResourceType(f) ==
    FirstIn(<<"user", "organization", "branch", "department", "permission", "session",
              "role", "rule">>, f, "parent type")

\* 1 is served first.  The interceptor's words for grants, revocations and changes of a
\* password are not on the list.
GetPriority(action) ==
    IF action \in {"login", "logout", "access denied", "password change",
                   "permission grant", "permission revoke"} THEN 1 ELSE 5

Report(f, result) ==
    [action |-> MapOperationToAction(f), resource |-> ExtractResourceType(f), result |-> result]

-----------------------------------------------------------------------------
(* From the operation to the row                                           *)

AuditInit ==
    /\ call = [c \in Calls |-> [state |-> "idle"]]
    /\ log = << >>
    /\ reader = [r \in Readers |-> [at |-> 0, owed |-> {}]]

Becomes(c, s) == call' = [call EXCEPT ![c].state = s]
In(c, s) == call[c].state = s

\* The operation ends, in tap or catchError, and its outcome is reported if it is audited.
Intercept(c, f, result) ==
    /\ In(c, "idle")
    /\ call' = [call EXCEPT ![c] =
          IF ShouldAuditOperation(f)
          THEN [state |-> "reported", report |-> Report(f, result), made |-> 0, stalls |-> 0]
          ELSE [state |-> "unaudited"]]
    /\ UNCHANGED <<log, reader>>

\* logAction adds the job ...
LogAction(c) == In(c, "reported") /\ Becomes(c, "waiting") /\ UNCHANGED <<log, reader>>

\* ... or the queue refuses, or the server stops first: "Log failure but don't throw".
Refuse(c) == In(c, "reported") /\ Becomes(c, "refused") /\ UNCHANGED <<log, reader>>

\* A worker takes the most urgent of the jobs that are waiting.
Take(c) ==
    /\ In(c, "waiting")
    /\ \A d \in Calls : In(d, "waiting") =>
          GetPriority(call[c].report.action) <= GetPriority(call[d].report.action)
    /\ Becomes(c, "active") /\ UNCHANGED <<log, reader>>

Row(c, t) == [call |-> c, report |-> call[c].report, try |-> call[c].made + call[c].stalls,
              createdAt |-> t]

\* handleLogAction creates the row; its id is drawn anew in every attempt.  createdAt is the
\* clock of the server that writes it, and may be behind that of another.
HandleLogAction(c) ==
    /\ In(c, "active")
    /\ \E t \in Instants, k \in 1 .. Len(log) + 1 :
          /\ \A i \in DOMAIN log : i < k <=> log[i].createdAt > t
          /\ log' = InsertAt(log, k, Row(c, t))
    /\ Becomes(c, "written") /\ UNCHANGED reader

\* removeOnComplete.
Complete(c) == In(c, "written") /\ Becomes(c, "done") /\ UNCHANGED <<log, reader>>

\* Mutant: the processor swallows the error, as logAction does.
FailSwallowed(c) == In(c, "active") /\ Becomes(c, "done") /\ UNCHANGED <<log, reader>>

\* "Re-throw to trigger Bull retry mechanism": the next attempt waits for the backoff ...
Fail(c) ==
    /\ In(c, "active")
    /\ call' = [call EXCEPT ![c].made = @ + 1,
          ![c].state = IF call[c].made + 1 < AuditAttempts THEN "delayed" ELSE "failed"]
    /\ UNCHANGED <<log, reader>>

\* ... while other jobs are taken.
BackoffOver(c) == In(c, "delayed") /\ Becomes(c, "waiting") /\ UNCHANGED <<log, reader>>

Stalled(c) == call[c].state \notin {"idle", "unaudited"} /\ call[c].stalls > 0

\* The worker dies, the row written or not: Bull gives the job to another, once.
Stall(c) ==
    /\ call[c].state \in {"active", "written"}
    /\ Cardinality({d \in Calls \ {c} : Stalled(d)}) < MaxStalled
    /\ call' = [call EXCEPT ![c].stalls = 1,
          ![c].state = IF call[c].stalls = 0 THEN "waiting" ELSE "failed"]
    /\ UNCHANGED <<log, reader>>

-----------------------------------------------------------------------------
(* Reading                                                                 *)

\* The answers to orderBy createdAt desc: nothing orders the rows of one instant, and no
\* two queries need to agree on them.
Orders ==
    {order \in [DOMAIN log -> ToSet(log)] :
        /\ \A i \in DOMAIN log : order[i].createdAt = log[i].createdAt
        /\ IsInjective(order)}

Rows(order, from, to) == SubSeq(order, from, IF to < Len(order) THEN to ELSE Len(order))

\* Mutant: the last row of a page is left to the next, whose offset is beyond it.
PageShort(offset, limit) == {Rows(order, offset + 1, offset + limit - 1) : order \in Orders}

\* The rows a query may return: skip offset, take limit.
Page(offset, limit) == {Rows(order, offset + 1, offset + limit) : order \in Orders}

\* A client asks for one page after the other, until one is not full.
GetAuditLogs(r) ==
    LET from == reader[r].at
        owed == IF from = 0 THEN ToSet(log) ELSE reader[r].owed
    IN  \E page \in Page(from, PageSize) :
          /\ reader' = [reader EXCEPT ![r] =
                [at |-> IF Len(page) < PageSize THEN 0 ELSE from + PageSize,
                 owed |-> owed \ ToSet(page)]]
          /\ UNCHANGED <<call, log>>

AuditNext ==
    \/ \E c \in Calls :
          \/ \E f \in Exercised, result \in {"SUCCESS", "FAILURE"} : Intercept(c, f, result)
          \/ LogAction(c) \/ Refuse(c) \/ Take(c) \/ HandleLogAction(c) \/ Complete(c)
          \/ Fail(c) \/ BackoffOver(c) \/ Stall(c)
    \/ \E r \in Readers : GetAuditLogs(r)

AuditSpec == AuditInit /\ [][AuditNext]_auditVars

-----------------------------------------------------------------------------
(* Correctness                                                             *)

\* An outcome that logAction has queued is in the log, or still to be written, or in the
\* failed job, which stays in its queue: no database error and no dead worker loses it.
QueuedOutcomesKept ==
    \A c \in Calls : In(c, "done") =>
        \E i \in DOMAIN log : log[i].call = c /\ log[i].report = call[c].report

\* Another row has the same createdAt.
Tied(x) == \E y \in ToSet(log) \ {x} : y.createdAt = x.createdAt

\* A client that reads page by page, while rows are being added before and behind, misses
\* none of those that were there when it began, except those that share their createdAt
\* with another: they may change places between two queries.
PagingMissesNothing ==
    \A r \in Readers : reader[r].at = 0 => \A x \in reader[r].owed : Tied(x)
=============================================================================
