------------------------ MODULE PermissionDelegation ------------------------
(***************************************************************************)
(* Delegated permissions of the ERP server: the rows of                    *)
(* permission_matrices, the Redis cache-aside copy of each user's active   *)
(* permissions, and the requests that grant, revoke and read them          *)
(* (modules/permission/*.ts).                                              *)
(*                                                                         *)
(* A request handler is a process.  Every await on the database or on      *)
(* Redis is a step of its own, so the steps of two requests interleave as  *)
(* they do in the event loops of the server's instances.  What a handler   *)
(* computes between two awaits belongs to the step that follows it.        *)
(***************************************************************************)
EXTENDS Naturals, Sequences, SequencesExt, FiniteSets

CONSTANTS
    Users, Modules, Actions,
    Procs,          \* request handlers that may run at the same time
    Level,          \* hierarchyLevel of each user; no operation changes it
    GrantInputs,    \* the permission lists a grant request may carry
    InitialMatrix,  \* rows the organization starts with
    Faults,         \* which of "redis", "crash" may happen
    MaxRequests,    \* bound on the grant, revoke and read requests issued
    NoUser, NoEntry \* null grantor; absent Redis key

PermissionSet == [Modules -> SUBSET Actions]

Row == [active : BOOLEAN, actions : SUBSET Actions, by : Users \cup {NoUser}]

\* The lists of a grant: some modules, each with a (possibly empty) action list.
PermissionLists == UNION {[S -> SUBSET Actions] : S \in SUBSET Modules}

\* A permission row nobody ever wrote, and one written by a user.
Absent == [active |-> FALSE, actions |-> {}, by |-> NoUser]
Granted(acts, g) == [active |-> TRUE, actions |-> acts, by |-> g]

IsOwner(u) == Level[u] = "OWNER"

Request == [op : {"none", "read", "grant", "revoke"}, by : Users \cup {NoUser},
            to : Users \cup {NoUser}, perms : PermissionLists,
            modules : SUBSET Modules]

NoRequest == [op |-> "none", by |-> NoUser, to |-> NoUser,
              perms |-> [m \in {} |-> {}], modules |-> {}]

Steps == {"idle", "lookup", "fetch", "fill", "apply", "snapshot", "revoke",
          "cascade", "cascadeTx", "bulk", "invalidate", "reply"}

ASSUME LevelAssumption == Level \in [Users -> {"OWNER", "MANAGER", "WORKER"}]
ASSUME UsersAssumption == IsFiniteSet(Users)
ASSUME NullAssumption == NoUser \notin Users /\ NoEntry \notin PermissionSet
ASSUME InputAssumption == GrantInputs \subseteq PermissionLists
\* The starting rows are ones an earlier, finished history of grants left.
ASSUME MatrixAssumption ==
    /\ InitialMatrix \in [Users -> [Modules -> Row]]
    /\ \A u \in Users, m \in Modules :
          LET r == InitialMatrix[u][m]
          IN  r.active =>
                /\ r.by \in Users
                /\ IsOwner(r.by) \/ r.actions \subseteq InitialMatrix[r.by][m].actions
                /\ IsOwner(r.by) \/ InitialMatrix[r.by][m].active
                /\ Level[r.by] # "WORKER"
ASSUME BoundAssumption == MaxRequests \in Nat /\ Faults \subseteq {"redis", "crash"}

VARIABLES
    matrix,       \* permission_matrices, by user and module
    cache,        \* Redis: permissions:<user>
    lastSnapshot, \* newest row of permission_snapshots
    held,         \* history: the (module, action) pairs a user ever held
    narrowed,     \* history: pairs a later grant of the same module took from a user
    pc,           \* per handler: the await it is about to perform
    request,      \* per handler: the request it serves
    target,       \* per handler: user whose permissions it is reading
    after,        \* per handler: where getPermissions returns to
    got,          \* per handler: what getPermissions returned
    stack,        \* per handler: cascade recursion, users still to visit
    found,        \* per handler: subordinate rows read by the cascade
    affected,     \* per handler: users of those rows
    todo,         \* per handler: affected users not yet snapshot / invalidated
    issued        \* requests issued so far

db == <<matrix, lastSnapshot, held, narrowed>>
locals == <<pc, request, target, after, got, stack, found, affected, todo>>
vars == <<matrix, cache, lastSnapshot, held, narrowed, pc, request, target, after,
          got, stack, found, affected, todo, issued>>

-----------------------------------------------------------------------------
\* fetchPermissionsFromDatabase: the actions of a user's active rows.
View(u) == [m \in Modules |-> IF matrix[u][m].active THEN matrix[u][m].actions ELSE {}]

PairsOf(view) == {pair \in Modules \X Actions : pair[2] \in view[pair[1]]}

EmptyView == [m \in Modules |-> {}]

Init ==
    /\ matrix = InitialMatrix
    /\ cache = [u \in Users |-> NoEntry]
    /\ lastSnapshot = [user |-> NoUser, data |-> EmptyView]
    /\ held = [u \in Users |-> {pair \in Modules \X Actions :
                                   /\ InitialMatrix[u][pair[1]].active
                                   /\ pair[2] \in InitialMatrix[u][pair[1]].actions}]
    /\ narrowed = [u \in Users |-> {}]
    /\ pc = [p \in Procs |-> "idle"]
    /\ request = [p \in Procs |-> NoRequest]
    /\ target = [p \in Procs |-> NoUser]
    /\ after = [p \in Procs |-> "idle"]
    /\ got = [p \in Procs |-> EmptyView]
    /\ stack = [p \in Procs |-> <<>>]
    /\ found = [p \in Procs |-> {}]
    /\ affected = [p \in Procs |-> {}]
    /\ todo = [p \in Procs |-> {}]
    /\ issued = 0

\* The local variables of p die with its request.
Finish(p) ==
    /\ pc' = [pc EXCEPT ![p] = "idle"]
    /\ request' = [request EXCEPT ![p] = NoRequest]
    /\ target' = [target EXCEPT ![p] = NoUser]
    /\ after' = [after EXCEPT ![p] = "idle"]
    /\ got' = [got EXCEPT ![p] = EmptyView]
    /\ stack' = [stack EXCEPT ![p] = <<>>]
    /\ found' = [found EXCEPT ![p] = {}]
    /\ affected' = [affected EXCEPT ![p] = {}]
    /\ todo' = [todo EXCEPT ![p] = {}]

\* Call getPermissions(u) and resume at `next` with its result in got.
Call(p, u, next) ==
    /\ pc' = [pc EXCEPT ![p] = "lookup"]
    /\ target' = [target EXCEPT ![p] = u]
    /\ after' = [after EXCEPT ![p] = next]

Issue(p, r) ==
    /\ pc[p] = "idle"
    /\ issued < MaxRequests
    /\ issued' = issued + 1
    /\ request' = [request EXCEPT ![p] = r]

-----------------------------------------------------------------------------
(***************************************************************************)
(* PermissionCacheService                                                  *)
(***************************************************************************)

CacheHit(u) == cache[u] # NoEntry

\* redis GET; an error inside RedisService.get reads as a miss.
Lookup(p) ==
    /\ pc[p] = "lookup"
    /\ \/ /\ CacheHit(target[p])
          /\ got' = [got EXCEPT ![p] = cache[target[p]]]
          /\ pc' = [pc EXCEPT ![p] = after[p]]
       \/ /\ cache[target[p]] = NoEntry \/ "redis" \in Faults
          /\ pc' = [pc EXCEPT ![p] = "fetch"]
          /\ UNCHANGED got
    /\ UNCHANGED <<db, cache, request, target, after, stack, found, affected,
                   todo, issued>>

Fetch(p) ==
    /\ pc[p] = "fetch"
    /\ got' = [got EXCEPT ![p] = View(target[p])]
    /\ pc' = [pc EXCEPT ![p] = "fill"]
    /\ UNCHANGED <<db, cache, request, target, after, stack, found, affected,
                   todo, issued>>

\* setPermissions: redis SET with a TTL; its error is logged and dropped.
Fill(p) ==
    /\ pc[p] = "fill"
    /\ \/ cache' = [cache EXCEPT ![target[p]] = got[p]]
       \/ "redis" \in Faults /\ UNCHANGED cache
    /\ pc' = [pc EXCEPT ![p] = after[p]]
    /\ UNCHANGED <<db, request, target, after, got, stack, found, affected,
                   todo, issued>>

\* Mutant: the entry is never dropped.
InvalidateCacheSkipped(u) == UNCHANGED cache

\* redis DEL; its error is logged and dropped.
InvalidateCache(u) ==
    \/ cache' = [cache EXCEPT ![u] = NoEntry]
    \/ "redis" \in Faults /\ UNCHANGED cache

\* The five-minute TTL of a key runs out.
Expire(u) ==
    /\ cache[u] # NoEntry
    /\ cache' = [cache EXCEPT ![u] = NoEntry]
    /\ UNCHANGED <<db, locals, issued>>

-----------------------------------------------------------------------------
(***************************************************************************)
(* Requests                                                                *)
(***************************************************************************)

\* getUserPermissions / hasPermission, as every permission guard calls them.
BeginRead(p) ==
    \E u \in Users :
        /\ Issue(p, [NoRequest EXCEPT !.op = "read", !.to = u])
        /\ Call(p, u, "reply")
        /\ UNCHANGED <<db, cache, got, stack, found, affected, todo>>

\* validateDelegation: an owner passes unseen, a worker is refused (nothing
\* happens), a manager has its own permissions read first.
BeginGrant(p) ==
    \E g, u \in Users, perms \in GrantInputs :
        /\ Level[g] # "WORKER"
        /\ Issue(p, [NoRequest EXCEPT !.op = "grant", !.by = g, !.to = u,
                                      !.perms = perms])
        /\ IF IsOwner(g)
           THEN /\ pc' = [pc EXCEPT ![p] = "apply"]
                /\ UNCHANGED <<target, after>>
           ELSE Call(p, g, "apply")
        /\ UNCHANGED <<db, cache, got, stack, found, affected, todo>>

BeginRevoke(p) ==
    \E u \in Users, ms \in SUBSET Modules :
        /\ ms # {}
        /\ Issue(p, [NoRequest EXCEPT !.op = "revoke", !.to = u, !.modules = ms])
        /\ pc' = [pc EXCEPT ![p] = "revoke"]
        /\ UNCHANGED <<db, cache, target, after, got, stack, found, affected, todo>>

\* A read returns its result to the caller.
EndRead(p) ==
    /\ pc[p] = "reply"
    /\ Finish(p)
    /\ UNCHANGED <<db, cache, issued>>

\* Mutant: the verdict of the validation is ignored.
MayDelegateUnchecked(p) == TRUE

\* The Golden Rule, judged on the permissions that were read.
MayDelegate(p) ==
    \/ IsOwner(request[p].by)
    \/ \A m \in DOMAIN request[p].perms : request[p].perms[m] \subseteq got[p][m]

\* The upserts, in one transaction: a row is created, overwritten or revived.
Upserted(row, r) ==
    [m \in Modules |-> IF m \in DOMAIN r.perms THEN Granted(r.perms[m], r.by)
                                               ELSE row[m]]

\* The pairs a grant lists, and those in force that its lists overwrite.
Listed(r) == {pair \in Modules \X Actions :
                 pair[1] \in DOMAIN r.perms /\ pair[2] \in r.perms[pair[1]]}
Overwritten(r) == {pair \in PairsOf(View(r.to)) : pair[1] \in DOMAIN r.perms}

\* A grant of fewer actions than the row had narrows it; no cascade follows.
ApplyGrant(p) ==
    LET r == request[p]
    IN  /\ pc[p] = "apply"
        /\ MayDelegate(p)
        /\ matrix' = [matrix EXCEPT ![r.to] = Upserted(matrix[r.to], r)]
        /\ held' = [held EXCEPT ![r.to] = @ \cup Listed(r)]
        /\ narrowed' = [narrowed EXCEPT ![r.to] = (@ \cup Overwritten(r)) \ Listed(r)]
        /\ Call(p, r.to, "snapshot")
        /\ UNCHANGED <<cache, lastSnapshot, request, got, stack, found, affected,
                       todo, issued>>

RefuseGrant(p) ==
    /\ pc[p] = "apply"
    /\ ~MayDelegate(p)
    /\ Finish(p)
    /\ UNCHANGED <<db, cache, issued>>

\* updateMany: every active row of the user for these modules is revoked.
Revoke(p) ==
    LET r == request[p]
    IN  /\ pc[p] = "revoke"
        /\ matrix' = [matrix EXCEPT ![r.to] = [m \in Modules |->
                        IF m \in r.modules THEN [matrix[r.to][m] EXCEPT !.active = FALSE]
                                           ELSE matrix[r.to][m]]]
        /\ narrowed' = [narrowed EXCEPT ![r.to] = {pair \in @ : pair[1] \notin r.modules}]
        /\ stack' = [stack EXCEPT ![p] = <<r.to>>]
        /\ Call(p, r.to, "snapshot")
        /\ UNCHANGED <<cache, lastSnapshot, held, request, got, found, affected,
                       todo, issued>>

\* Where a request goes once the snapshot of its target is behind it.
AfterSnapshot(p) ==
    LET rest == todo[p] \ {target[p]}
    IN  IF request[p].op = "grant"
        THEN /\ pc' = [pc EXCEPT ![p] = "invalidate"]
             /\ UNCHANGED <<target, after, todo>>
        ELSE IF affected[p] = {}
        THEN /\ pc' = [pc EXCEPT ![p] = "cascade"]
             /\ UNCHANGED <<target, after, todo>>
        ELSE IF rest = {}
        THEN /\ pc' = [pc EXCEPT ![p] = "bulk"]
             /\ todo' = [todo EXCEPT ![p] = affected[p]]
             /\ UNCHANGED <<target, after>>
        ELSE /\ \E u \in rest : Call(p, u, "snapshot")
             /\ todo' = [todo EXCEPT ![p] = rest]

\* createSnapshot: the permissions read through the cache are recorded; a
\* failed insert is logged and dropped.
Snapshot(p) ==
    /\ pc[p] = "snapshot"
    /\ \/ lastSnapshot' = [user |-> target[p], data |-> got[p]]
       \/ "crash" \in Faults /\ UNCHANGED lastSnapshot
    /\ AfterSnapshot(p)
    /\ UNCHANGED <<matrix, cache, held, narrowed, request, got, stack, found, affected,
                   issued>>

\* Mutant: revoked rows are found again.
SubordinateRowsEver(u, ms) ==
    {row \in Users \X ms : matrix[row[1]][row[2]].by = u}

\* findMany: active rows for these modules that the visited user granted.
SubordinateRows(u, ms) ==
    {row \in Users \X ms : /\ matrix[row[1]][row[2]].active
                           /\ matrix[row[1]][row[2]].by = u}

Cascade(p) ==
    LET rows == SubordinateRows(Head(stack[p]), request[p].modules)
    IN  /\ pc[p] = "cascade"
        /\ stack[p] # <<>>
        /\ stack' = [stack EXCEPT ![p] = Tail(@)]
        /\ found' = [found EXCEPT ![p] = rows]
        /\ pc' = [pc EXCEPT ![p] = IF rows = {} THEN "cascade" ELSE "cascadeTx"]
        /\ UNCHANGED <<db, cache, request, target, after, got, affected, todo, issued>>

\* The transaction revokes the rows it read before, by id, as they are now.
CascadeTx(p) ==
    LET users == {row[1] : row \in found[p]}
    IN  /\ pc[p] = "cascadeTx"
        /\ matrix' = [u \in Users |-> [m \in Modules |->
                        IF <<u, m>> \in found[p]
                        THEN [matrix[u][m] EXCEPT !.active = FALSE]
                        ELSE matrix[u][m]]]
        /\ narrowed' = [u \in Users |-> {pair \in narrowed[u] : <<u, pair[1]>> \notin found[p]}]
        /\ affected' = [affected EXCEPT ![p] = users]
        /\ todo' = [todo EXCEPT ![p] = users]
        /\ found' = [found EXCEPT ![p] = {}]
        /\ \E u \in users : Call(p, u, "snapshot")
        /\ UNCHANGED <<cache, lastSnapshot, held, request, got, stack, issued>>

\* Mutant: the cascade stops at the first level.
VisitNextNobody(users, rest) == rest

\* The recursion visits the affected users before the ones left from above.
VisitNext(users, rest) == users \o rest

\* invalidateCacheBulk, one DEL after the other in any order; after the last
\* one the cascade recurses into every affected user, depth first.
BulkInvalidate(p) ==
    \E u \in todo[p] :
        LET rest == todo[p] \ {u}
        IN  /\ pc[p] = "bulk"
            /\ InvalidateCache(u)
            /\ todo' = [todo EXCEPT ![p] = rest]
            /\ IF rest # {}
               THEN UNCHANGED <<pc, stack, affected>>
               ELSE /\ \E order \in SetToSeqs(affected[p]) :
                          stack' = [stack EXCEPT ![p] = VisitNext(order, @)]
                    /\ affected' = [affected EXCEPT ![p] = {}]
                    /\ pc' = [pc EXCEPT ![p] = "cascade"]
            /\ UNCHANGED <<db, request, target, after, got, found, issued>>

\* The last step of a grant, and of a revocation whose cascade has returned.
Invalidate(p) ==
    /\ pc[p] = "invalidate" \/ (pc[p] = "cascade" /\ stack[p] = <<>>)
    /\ InvalidateCache(request[p].to)
    /\ Finish(p)
    /\ UNCHANGED <<db, issued>>

\* A database call of the request fails, or its instance dies: the steps
\* already taken stay, the others never happen.
Abort(p) ==
    /\ "crash" \in Faults
    /\ pc[p] # "idle"
    /\ Finish(p)
    /\ UNCHANGED <<db, cache, issued>>

-----------------------------------------------------------------------------
Step(p) ==
    \/ Lookup(p) \/ Fetch(p) \/ Fill(p)
    \/ EndRead(p)
    \/ ApplyGrant(p) \/ RefuseGrant(p)
    \/ Revoke(p) \/ Snapshot(p)
    \/ Cascade(p) \/ CascadeTx(p) \/ BulkInvalidate(p)
    \/ Invalidate(p)

Next ==
    \/ \E p \in Procs : \/ BeginRead(p) \/ BeginGrant(p) \/ BeginRevoke(p)
                        \/ Step(p)
                        \/ Abort(p)
    \/ \E u \in Users : Expire(u)

Spec == Init /\ [][Next]_vars

\* A handler that runs keeps running: awaits on PostgreSQL and Redis return.
FairSpec == Spec /\ \A p \in Procs : WF_vars(Step(p))

-----------------------------------------------------------------------------
(***************************************************************************)
(* Properties                                                              *)
(***************************************************************************)

TypeOK ==
    /\ matrix \in [Users -> [Modules -> Row]]
    /\ cache \in [Users -> PermissionSet \cup {NoEntry}]
    /\ lastSnapshot \in [user : Users \cup {NoUser}, data : PermissionSet]
    /\ held \in [Users -> SUBSET (Modules \X Actions)]
    /\ narrowed \in [Users -> SUBSET (Modules \X Actions)]
    /\ pc \in [Procs -> Steps]
    /\ request \in [Procs -> Request]
    /\ target \in [Procs -> Users \cup {NoUser}]
    /\ after \in [Procs -> {"idle", "apply", "snapshot", "reply"}]
    /\ got \in [Procs -> PermissionSet]
    /\ stack \in [Procs -> Seq(Users)]
    /\ found \in [Procs -> SUBSET (Users \X Modules)]
    /\ affected \in [Procs -> SUBSET Users]
    /\ todo \in [Procs -> SUBSET Users]
    /\ issued \in Nat

\* Under every race, Redis fault and crash: what a manager has granted, that
\* manager did hold at some time, and no worker has granted anything.  A stale
\* cache entry can let a grant through late, never one of a permission the
\* granter did not have (validateDelegation reading through getPermissions).
GrantsWerePossessed ==
    \A u \in Users, m \in Modules :
        LET r == matrix[u][m]
        IN  r.active => /\ Level[r.by] # "WORKER"
                        /\ IsOwner(r.by) \/ \A a \in r.actions : <<m, a>> \in held[r.by]

AtRest == \A p \in Procs : pc[p] = "idle"

\* "Users can only grant permissions they possess", kept up by the cascade:
\* between requests, whoever granted an action that is still in force has that
\* action, and could grant it now (revokePermissions, cascadeRevokePermissions).
\* Except: an action a later, narrower grant of the module took from the
\* grantor.  grantPermissions overwrites the list and cascades nothing, so the
\* grantor's subordinates keep it until the module is revoked.
GoldenRuleAtRest ==
    AtRest => \A u \in Users, m \in Modules :
                 LET r == matrix[u][m]
                 IN  r.active /\ ~ IsOwner(r.by) =>
                        \A a \in r.actions : \/ a \in View(r.by)[m]
                                            \/ <<m, a>> \in narrowed[r.by]

\* Between requests a cache entry shows the rows of the database: every
\* request that changes a user's rows also drops that user's entry after its
\* own snapshots have read through the cache.
CacheFreshAtRest ==
    AtRest => \A u \in Users : cache[u] # NoEntry => cache[u] = View(u)

\* A snapshot records the permissions its user has when it is written.
SnapshotIsCurrent ==
    [][lastSnapshot'.user # NoUser => lastSnapshot'.data = View(lastSnapshot'.user)]_lastSnapshot

\* Every request comes to an end: the recursion of the cascade does not run
\* in circles, even when managers have granted a module to one another.
RequestsFinish == \A p \in Procs : pc[p] # "idle" ~> pc[p] = "idle"
=============================================================================
