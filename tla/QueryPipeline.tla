---------------------------- MODULE QueryPipeline ---------------------------
(***************************************************************************)
(* What becomes of a database query: the user context an interceptor keeps *)
(* for the request (core/context) and the middlewares that PrismaService   *)
(* puts before the database (core/database), in the order it puts them.    *)
(*                                                                         *)
(* A query is its model, its action, the columns its where clause names at *)
(* the top, the columns it writes, and the scope it is narrowed to.  The   *)
(* database, external, refuses columns the schema does not have, and a     *)
(* findUnique that names no unique column at the top.                      *)
(***************************************************************************)
EXTENDS FiniteSets

CONSTANTS
    Handlers,    \* requests in flight
    Users,       \* contexts of users: level, branchId, departmentId
    None         \* no user, no branch, no department

VARIABLES
    user,    \* per request: the user the guard has found, or None
    store,   \* AsyncLocalStorage, per request: its context, if it is inside of run
    answer   \* per request: the latest query and what came back

pipelineVars == <<user, store, answer>>

\* prisma/schema.prisma: of the columns that matter here, those of each model.
Columns == [
    users |-> {"id", "branchId", "departmentId", "createdAt", "updatedAt", "deletedAt", "tenantId"},
    staff_profiles |-> {"id", "userId", "createdAt", "updatedAt"},
    permission_matrices |-> {"id", "userId"},
    sessions |-> {"id", "userId", "createdAt"},
    audit_logs |-> {"id", "userId", "createdAt", "tenantId"},
    branches |-> {"id", "createdAt", "updatedAt"}]

Reads == {"findUnique", "findFirst", "findMany", "count", "aggregate"}
Scope == [branchId : {u.branchId : u \in Users}, departmentId : {u.departmentId : u \in Users}]
Unscoped == [branchId |-> None, departmentId |-> None]

\* What services ask for: a row by its id or all rows, or to write one.
Queries ==
    [model : DOMAIN Columns, action : {"findUnique", "findMany"}, where : {{"id"}},
     data : {{}}, scope : {Unscoped}]
    \cup [model : DOMAIN Columns, action : {"create"}, where : {{}}, data : {{"id"}}, scope : {Unscoped}]
    \cup [model : DOMAIN Columns \ {"audit_logs"}, action : {"update"}, where : {{"id"}},
          data : {{}}, scope : {Unscoped}]

-----------------------------------------------------------------------------
(* The middlewares                                                         *)

\* Creations get both times and updates the second, but for the models listed.
Timestamp(q) ==
    IF q.model \in {"permission_matrices", "permission_snapshots", "role_permissions",
                    "user_roles", "sessions"} THEN q
    ELSE CASE q.action = "create" -> [q EXCEPT !.data = @ \cup {"createdAt", "updatedAt"}]
           [] q.action = "update" -> [q EXCEPT !.data = (@ \cup {"updatedAt"}) \ {"createdAt"}]
           [] OTHER -> q

\* The schema has no model of these names, and nothing sets a tenant.
Tenant(q, tenant) ==
    IF q.model \notin {"User", "AuditLog"} \/ tenant = None THEN q
    ELSE IF q.action = "create" THEN [q EXCEPT !.data = @ \cup {"tenantId"}]
    ELSE [q EXCEPT !.where = @ \cup {"tenantId"}]

\* Mutant: one of the two ids is enough.
NarrowToOne(q, u) ==
    [q EXCEPT !.where = {},
              !.scope = IF u.branchId # None THEN [Unscoped EXCEPT !.branchId = u.branchId]
                        ELSE [Unscoped EXCEPT !.departmentId = u.departmentId]]

\* "AND: [where, scopeFilter]": the where clause names no column at its top any more.
Narrow(q, u) ==
    [q EXCEPT !.where = {},
              !.scope = [branchId |-> u.branchId, departmentId |-> u.departmentId]]

\* Owners, writes and models not listed pass as they are, and so does who has no context.
ScopeFilter(q, u) ==
    IF \/ u = None \/ u.level = "OWNER" \/ q.action \notin Reads
       \/ q.model \notin {"users", "staff_profiles", "permission_matrices", "sessions", "audit_logs"}
       \/ u.branchId = None /\ u.departmentId = None
    THEN q ELSE Narrow(q, u)

\* No model of the schema has one of these names: a delete is a delete.
SoftDelete(q) ==
    IF q.model \notin {"User", "Tenant", "Role", "Permission", "SystemConfig"} THEN q
    ELSE IF q.action = "delete"
    THEN [q EXCEPT !.action = "update", !.data = {"deletedAt"}, !.where = @ \cup {"deletedAt"}]
    ELSE IF q.action = "create" THEN q ELSE [q EXCEPT !.where = @ \cup {"deletedAt"}]

\* The order of $use.  The audit middleware, last, has names no model has as well.
Rewritten(q, u) == SoftDelete(ScopeFilter(Tenant(Timestamp(q), None), u))

\* What the database accepts.
FitsSchema(q) ==
    LET narrowed == {c \in DOMAIN q.scope : q.scope[c] # None} IN
    /\ q.where \cup q.data \cup narrowed \subseteq Columns[q.model]
    /\ q.action \in {"findUnique", "update", "delete"} => q.where # {}

-----------------------------------------------------------------------------
(* A request                                                               *)

NoAnswer == [asked |-> FALSE]
Outside == [inside |-> FALSE, user |-> None]

PipelineInit ==
    /\ user = [h \in Handlers |-> None]
    /\ store = [h \in Handlers |-> Outside]
    /\ answer = [h \in Handlers |-> NoAnswer]

\* The guard attaches the user of the token; an operation without one has none.
Guard(h, u) ==
    /\ ~ store[h].inside
    /\ user' = [user EXCEPT ![h] = u] /\ UNCHANGED <<store, answer>>

\* RequestContextInterceptor.intercept: the handler runs within the context.
InterceptRequest(h) ==
    /\ ~ store[h].inside
    /\ store' = [store EXCEPT ![h] = [inside |-> TRUE, user |-> user[h]]]
    /\ answer' = [answer EXCEPT ![h] = NoAnswer] /\ UNCHANGED user

\* The context of the calling request; guards run outside of one.
GetUserContext(h) == store[h].user

Query(h, q) ==
    LET sent == Rewritten(q, GetUserContext(h)) IN
    /\ answer' = [answer EXCEPT ![h] =
          [asked |-> TRUE, query |-> q, inside |-> store[h].inside, scope |-> sent.scope,
           ok |-> FitsSchema(sent)]]
    /\ UNCHANGED <<user, store>>

Leave(h) ==
    /\ store[h].inside
    /\ store' = [store EXCEPT ![h] = Outside]
    /\ user' = [user EXCEPT ![h] = None]
    /\ answer' = [answer EXCEPT ![h] = NoAnswer]

PipelineNext ==
    \E h \in Handlers :
        \/ \E u \in Users \cup {None} : Guard(h, u)
        \/ InterceptRequest(h) \/ Leave(h)
        \/ \E q \in Queries : Query(h, q)

PipelineSpec == PipelineInit /\ [][PipelineNext]_pipelineVars

-----------------------------------------------------------------------------
(* Correctness                                                             *)

Answered(h) == answer[h].asked /\ answer[h].inside /\ answer[h].ok

\* The rows of users are those of a branch and a department.
UserRows == [branchId : {u.branchId : u \in Users}, departmentId : {u.departmentId : u \in Users}]
Within(row, s) == \A c \in DOMAIN s : s[c] = None \/ row[c] = s[c]

\* However requests interleave, the rows of users a handler gets are those of the scope
\* of the user who asks, and all of them.
ScopeRespected ==
    \A h \in Handlers, row \in UserRows :
        Answered(h) /\ answer[h].query.model = "users" /\ answer[h].query.action \in Reads =>
            LET u == user[h] IN
            Within(row, answer[h].scope) <=>
                u = None \/ u.level = "OWNER" \/ Within(row, [branchId |-> u.branchId,
                                                              departmentId |-> u.departmentId])
=============================================================================
