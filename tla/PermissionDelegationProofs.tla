--------------------- MODULE PermissionDelegationProofs ---------------------
(***************************************************************************)
(* For every set of users, modules, actions and handlers, and under Redis  *)
(* faults and crashes: the types hold, and nobody ever passes on a         *)
(* permission that was never theirs.  One request at a time and without    *)
(* faults, the golden rule holds at rest and the cache is fresh.           *)
(***************************************************************************)
EXTENDS PermissionDelegation, FiniteSetTheorems, TLAPS

InCall == {"lookup", "fetch", "fill"}

\* What the local variables of a handler mean at each await.
Shape ==
    \A p \in Procs :
        /\ pc[p] # "idle" => request[p].to \in Users
        /\ pc[p] \in InCall \cup {"snapshot"} => target[p] \in Users
        /\ pc[p] \in InCall => after[p] \in {"apply", "snapshot", "reply"}
        /\ (pc[p] = "apply" \/ (pc[p] \in InCall /\ after[p] = "apply"))
              => /\ request[p].by \in Users
                 /\ Level[request[p].by] # "WORKER"
                 /\ IsOwner(request[p].by) \/ target[p] = request[p].by

\* Whatever copy of a user's permissions is looked at, the user held it once.
Possessed(u, view) == \A m \in Modules : \A a \in view[m] : <<m, a>> \in held[u]

ViewsPossessed == \A u \in Users : Possessed(u, View(u))

CachePossessed == \A u \in Users : cache[u] # NoEntry => Possessed(u, cache[u])

ReadsPossessed ==
    \A p \in Procs :
        \/ pc[p] = "fill"
        \/ pc[p] = "apply" /\ ~IsOwner(request[p].by)
        => Possessed(target[p], got[p])

RowsAreGranted == \A u \in Users, m \in Modules : matrix[u][m].active => matrix[u][m].by \in Users

Possession == RowsAreGranted /\ ViewsPossessed /\ CachePossessed /\ ReadsPossessed /\ GrantsWerePossessed

IInv == TypeOK /\ Shape /\ Possession

-----------------------------------------------------------------------------
\* The null request is a request.
LEMMA NoRequestType == NoRequest \in Request
  BY DEF NoRequest, Request, PermissionLists

\* What a process reads from the database is a permission set.
LEMMA ViewType ==
    ASSUME TypeOK, NEW u \in Users
    PROVE  View(u) \in PermissionSet
  BY DEF TypeOK, View, PermissionSet, Row

\* The orders in which a cascade may visit a set of users are sequences of users.
LEMMA OrderType ==
    ASSUME NEW S \in SUBSET Users, NEW s \in SetToSeqs(S)
    PROVE  s \in Seq(Users)
<1>1. Cardinality(S) \in Nat
  BY UsersAssumption, FS_Subset, FS_CardinalityType
<1>2. s \in [1..Cardinality(S) -> Users]
  BY DEF SetToSeqs
<1> QED
  BY <1>1, <1>2

LEMMA FinishType ==
    ASSUME TypeOK, NEW p \in Procs, Finish(p)
    PROVE  /\ pc' \in [Procs -> Steps]
           /\ request' \in [Procs -> Request]
           /\ target' \in [Procs -> Users \cup {NoUser}]
           /\ after' \in [Procs -> {"idle", "apply", "snapshot", "reply"}]
           /\ got' \in [Procs -> PermissionSet]
           /\ stack' \in [Procs -> Seq(Users)]
           /\ found' \in [Procs -> SUBSET (Users \X Modules)]
           /\ affected' \in [Procs -> SUBSET Users]
           /\ todo' \in [Procs -> SUBSET Users]
<1>1. EmptyView \in PermissionSet
  BY DEF EmptyView, PermissionSet
<1> QED
  BY <1>1, NoRequestType DEF TypeOK, Finish, Steps

-----------------------------------------------------------------------------
\* The types and the shape of the handlers' local state.

LEMMA InitTypes == Init => TypeOK /\ Shape
<1> SUFFICES ASSUME Init PROVE TypeOK /\ Shape
  OBVIOUS
<1>1. EmptyView \in PermissionSet
  BY DEF EmptyView, PermissionSet
<1>2. held \in [Users -> SUBSET (Modules \X Actions)]
  BY DEF Init
<1>3. TypeOK
  BY <1>1, <1>2, NoRequestType, MatrixAssumption DEF Init, TypeOK, Steps
<1>4. Shape
  BY DEF Init, Shape, InCall
<1> QED
  BY <1>3, <1>4

\* A handler takes up a request of the right type.
LEMMA IssueType ==
    ASSUME NEW p \in Procs, TypeOK, NEW r \in Request, Issue(p, r)
    PROVE  /\ request' \in [Procs -> Request]
           /\ issued' \in Nat
           /\ request'[p] = r
           /\ \A q \in Procs : q # p => request'[q] = request[q]
  BY DEF TypeOK, Issue

LEMMA CallType ==
    ASSUME NEW p \in Procs, TypeOK, NEW u \in Users,
           NEW next \in {"apply", "snapshot", "reply"}, Call(p, u, next)
    PROVE  /\ pc' \in [Procs -> Steps]
           /\ target' \in [Procs -> Users \cup {NoUser}]
           /\ after' \in [Procs -> {"idle", "apply", "snapshot", "reply"}]
           /\ pc'[p] = "lookup" /\ target'[p] = u /\ after'[p] = next
           /\ \A q \in Procs : q # p => /\ pc'[q] = pc[q]
                                        /\ target'[q] = target[q]
                                        /\ after'[q] = after[q]
  BY DEF TypeOK, Call, Steps

\* A handler that takes up a request.
LEMMA BeginTypes ==
    ASSUME NEW p \in Procs, TypeOK, Shape, BeginRead(p) \/ BeginGrant(p) \/ BeginRevoke(p)
    PROVE  TypeOK' /\ Shape'
<1>1. CASE BeginRead(p)
  <2>1. PICK u \in Users :
           /\ Issue(p, [NoRequest EXCEPT !.op = "read", !.to = u])
           /\ Call(p, u, "reply")
    BY <1>1 DEF BeginRead
  <2> DEFINE r == [NoRequest EXCEPT !.op = "read", !.to = u]
  <2>2. r \in Request /\ r.to = u
    BY NoRequestType DEF NoRequest, Request
  <2> HIDE DEF r
  <2>3. Issue(p, r)
    BY <2>1 DEF r
  <2>4. UNCHANGED <<matrix, lastSnapshot, held, narrowed, cache, got, stack, found, affected, todo>>
    BY <1>1 DEF BeginRead, db
  <2>5. TypeOK'
    BY <2>1, <2>2, <2>3, <2>4, IssueType, CallType DEF TypeOK
  <2>6. Shape'
    BY <2>1, <2>2, <2>3, IssueType, CallType DEF Shape, InCall
  <2> QED
    BY <2>5, <2>6
<1>2. CASE BeginGrant(p)
  <2>1. PICK g \in Users, u \in Users, perms \in GrantInputs :
           /\ Level[g] # "WORKER"
           /\ Issue(p, [NoRequest EXCEPT !.op = "grant", !.by = g, !.to = u, !.perms = perms])
           /\ IF IsOwner(g)
              THEN /\ pc' = [pc EXCEPT ![p] = "apply"]
                   /\ UNCHANGED <<target, after>>
              ELSE Call(p, g, "apply")
    BY <1>2 DEF BeginGrant
  <2> DEFINE r == [NoRequest EXCEPT !.op = "grant", !.by = g, !.to = u, !.perms = perms]
  <2>2. r \in Request /\ r.to = u /\ r.by = g
    BY NoRequestType, InputAssumption DEF NoRequest, Request
  <2> HIDE DEF r
  <2>3. Issue(p, r)
    BY <2>1 DEF r
  <2>4. UNCHANGED <<matrix, lastSnapshot, held, narrowed, cache, got, stack, found, affected, todo>>
    BY <1>2 DEF BeginGrant, db
  <2>5. CASE IsOwner(g)
    <3>1. UNCHANGED <<target, after>> /\ pc' = [pc EXCEPT ![p] = "apply"]
      BY <2>1, <2>5
    <3>2. pc'[p] = "apply" /\ \A q \in Procs : q # p => pc'[q] = pc[q]
      BY <3>1 DEF TypeOK
    <3>3. pc' \in [Procs -> Steps]
      BY <3>1 DEF TypeOK, Steps
    <3>4. TypeOK'
      BY <2>2, <2>3, <2>4, <3>1, <3>3, IssueType DEF TypeOK
    <3>5. Shape'
      BY <2>1, <2>2, <2>3, <2>5, <3>1, <3>2, IssueType DEF Shape, InCall, IsOwner
    <3> QED
      BY <3>4, <3>5
  <2>6. CASE ~IsOwner(g)
    <3>1. TypeOK'
      BY <2>1, <2>2, <2>3, <2>4, <2>6, IssueType, CallType DEF TypeOK
    <3>2. Shape'
      BY <2>1, <2>2, <2>3, <2>6, IssueType, CallType DEF Shape, InCall
    <3> QED
      BY <3>1, <3>2
  <2> QED
    BY <2>5, <2>6
<1>3. CASE BeginRevoke(p)
  <2>1. PICK u \in Users, ms \in SUBSET Modules :
           /\ Issue(p, [NoRequest EXCEPT !.op = "revoke", !.to = u, !.modules = ms])
           /\ pc' = [pc EXCEPT ![p] = "revoke"]
    BY <1>3 DEF BeginRevoke
  <2> DEFINE r == [NoRequest EXCEPT !.op = "revoke", !.to = u, !.modules = ms]
  <2>2. r \in Request /\ r.to = u
    BY NoRequestType DEF NoRequest, Request
  <2> HIDE DEF r
  <2>3. Issue(p, r)
    BY <2>1 DEF r
  <2>4. UNCHANGED <<matrix, lastSnapshot, held, narrowed, cache, got, stack, found, affected, todo>>
    BY <1>3 DEF BeginRevoke, db
  <2>5. UNCHANGED <<target, after>>
    BY <1>3 DEF BeginRevoke
  <2>6. pc' \in [Procs -> Steps]
    BY <2>1 DEF TypeOK, Steps
  <2>7. TypeOK'
    BY <2>2, <2>3, <2>4, <2>5, <2>6, IssueType DEF TypeOK
  <2>8. pc'[p] = "revoke" /\ \A q \in Procs : q # p => pc'[q] = pc[q]
    BY <2>1 DEF TypeOK
  <2>9. Shape'
    BY <2>2, <2>3, <2>5, <2>8, IssueType DEF Shape, InCall
  <2> QED
    BY <2>7, <2>9
<1> QED
  BY <1>1, <1>2, <1>3

\* A handler inside getPermissions.
LEMMA ReadStepTypes ==
    ASSUME NEW p \in Procs, TypeOK, Shape, Lookup(p) \/ Fetch(p) \/ Fill(p)
    PROVE  TypeOK' /\ Shape'
<1>1. CASE Lookup(p)
  <2>1. target[p] \in Users /\ after[p] \in {"apply", "snapshot", "reply"} /\ pc[p] = "lookup"
    BY <1>1 DEF Lookup, Shape, InCall
  <2>2. CacheHit(target[p]) => cache[target[p]] \in PermissionSet
    BY <2>1 DEF TypeOK, CacheHit
  <2>3. pc' \in [Procs -> Steps] /\ got' \in [Procs -> PermissionSet]
    BY <1>1, <2>1, <2>2 DEF TypeOK, Lookup, Steps
  <2>4. TypeOK'
    BY <1>1, <2>3 DEF TypeOK, Lookup, db
  <2>5. pc'[p] \in {after[p], "fetch"} /\ \A q \in Procs : q # p => pc'[q] = pc[q]
    BY <1>1 DEF TypeOK, Lookup
  <2>6. Shape'
    BY <1>1, <2>1, <2>5 DEF Shape, Lookup, InCall
  <2> QED
    BY <2>4, <2>6
<1>2. CASE Fetch(p)
  <2>1. target[p] \in Users
    BY <1>2 DEF Fetch, Shape, InCall
  <2>2. View(target[p]) \in PermissionSet
    BY <2>1, ViewType
  <2>3. TypeOK'
    BY <1>2, <2>2 DEF TypeOK, Fetch, db, Steps
  <2>4. pc[p] = "fetch" /\ pc'[p] = "fill" /\ \A q \in Procs : q # p => pc'[q] = pc[q]
    BY <1>2 DEF TypeOK, Fetch
  <2>5. Shape'
    BY <1>2, <2>4 DEF Shape, Fetch, InCall
  <2> QED
    BY <2>3, <2>5
<1>3. CASE Fill(p)
  <2>1. target[p] \in Users /\ after[p] \in {"apply", "snapshot", "reply"} /\ pc[p] = "fill"
    BY <1>3 DEF Fill, Shape, InCall
  <2>2. TypeOK'
    BY <1>3, <2>1 DEF TypeOK, Fill, db, Steps
  <2>3. pc'[p] = after[p] /\ \A q \in Procs : q # p => pc'[q] = pc[q]
    BY <1>3 DEF TypeOK, Fill
  <2>4. Shape'
    BY <1>3, <2>1, <2>3 DEF Shape, Fill, InCall
  <2> QED
    BY <2>2, <2>4
<1> QED
  BY <1>1, <1>2, <1>3

\* A handler whose request ends.
LEMMA FinishShape ==
    ASSUME NEW p \in Procs, TypeOK, Shape, Finish(p)
    PROVE  Shape'
<1>1. pc'[p] = "idle" /\ \A q \in Procs : q # p => /\ pc'[q] = pc[q]
                                                  /\ target'[q] = target[q]
                                                  /\ after'[q] = after[q]
                                                  /\ request'[q] = request[q]
  BY DEF TypeOK, Finish
<1> QED
  BY <1>1 DEF Shape, InCall

\* A DEL leaves the cache well-typed.
LEMMA InvalidateCacheType ==
    ASSUME TypeOK, NEW u \in Users, InvalidateCache(u)
    PROVE  cache' \in [Users -> PermissionSet \cup {NoEntry}]
  BY DEF TypeOK, InvalidateCache

LEMMA EndTypes ==
    ASSUME NEW p \in Procs, TypeOK, Shape,
           EndRead(p) \/ RefuseGrant(p) \/ Abort(p) \/ Invalidate(p)
    PROVE  TypeOK' /\ Shape'
<1>1. Finish(p) /\ UNCHANGED <<matrix, lastSnapshot, held, narrowed, issued>>
  BY DEF EndRead, RefuseGrant, Abort, Invalidate, db
<1>2. cache' \in [Users -> PermissionSet \cup {NoEntry}]
  <2>1. CASE Invalidate(p)
    <3>1. request[p].to \in Users
      BY <2>1 DEF Invalidate, Shape
    <3> QED
      BY <2>1, <3>1, InvalidateCacheType DEF Invalidate
  <2>2. CASE ~Invalidate(p)
    BY <2>2 DEF EndRead, RefuseGrant, Abort, TypeOK
  <2> QED
    BY <2>1, <2>2
<1>3. TypeOK'
  BY <1>1, <1>2, FinishType DEF TypeOK
<1> QED
  BY <1>1, <1>3, FinishShape

\* What a grant lists and what it overwrites are permission pairs.
LEMMA ListedType ==
    ASSUME NEW r
    PROVE  Listed(r) \subseteq Modules \X Actions /\ Overwritten(r) \subseteq Modules \X Actions
  BY DEF Listed, Overwritten, PairsOf

\* The rows a transaction writes are rows.
LEMMA UpsertedType ==
    ASSUME TypeOK, NEW u \in Users, NEW r \in Request, r.by \in Users
    PROVE  Upserted(matrix[u], r) \in [Modules -> Row]
<1>1. \A m \in DOMAIN r.perms : r.perms[m] \in SUBSET Actions
  BY DEF Request, PermissionLists
<1> QED
  BY <1>1 DEF TypeOK, Upserted, Granted, Row

\* A row stays a row when it is revoked.
LEMMA RevokedRow ==
    ASSUME NEW x \in Row
    PROVE  /\ [x EXCEPT !.active = FALSE] \in Row
           /\ [x EXCEPT !.active = FALSE].active = FALSE
           /\ [x EXCEPT !.active = FALSE].actions = x.actions
           /\ [x EXCEPT !.active = FALSE].by = x.by
  BY DEF Row

LEMMA WriteTypes ==
    ASSUME NEW p \in Procs, TypeOK, Shape, ApplyGrant(p) \/ Revoke(p) \/ CascadeTx(p)
    PROVE  TypeOK' /\ Shape'
<1>1. CASE ApplyGrant(p)
  <2> DEFINE r == request[p]
  <2>1. r \in Request /\ r.to \in Users /\ r.by \in Users
    BY <1>1 DEF TypeOK, Shape, ApplyGrant
  <2>2. Upserted(matrix[r.to], r) \in [Modules -> Row]
    BY <2>1, UpsertedType
  <2>3. matrix' = [matrix EXCEPT ![r.to] = Upserted(matrix[r.to], r)]
    BY <1>1 DEF ApplyGrant
  <2> HIDE DEF r
  <2>4. matrix' \in [Users -> [Modules -> Row]]
    BY <2>2, <2>3 DEF TypeOK
  <2>5. held' \in [Users -> SUBSET (Modules \X Actions)]
    BY <1>1, ListedType DEF TypeOK, ApplyGrant
  <2>10. narrowed' \in [Users -> SUBSET (Modules \X Actions)]
    BY <1>1, ListedType DEF TypeOK, ApplyGrant
  <2>6. Call(p, r.to, "snapshot")
    BY <1>1 DEF ApplyGrant, r
  <2>7. UNCHANGED <<cache, lastSnapshot, request, got, stack, found, affected, todo, issued>>
    BY <1>1 DEF ApplyGrant
  <2>8. TypeOK'
    BY <2>1, <2>4, <2>5, <2>10, <2>6, <2>7, CallType DEF TypeOK
  <2>9. Shape'
    BY <2>1, <2>6, <2>7, CallType DEF Shape, InCall, r
  <2> QED
    BY <2>8, <2>9
<1>2. CASE Revoke(p)
  <2> DEFINE r == request[p]
  <2>1. r.to \in Users
    BY <1>2 DEF Shape, Revoke
  <2>2. Call(p, r.to, "snapshot")
    BY <1>2 DEF Revoke
  <2>3. matrix' \in [Users -> [Modules -> Row]]
    <3> DEFINE row == [m \in Modules |-> IF m \in r.modules
                                         THEN [matrix[r.to][m] EXCEPT !.active = FALSE]
                                         ELSE matrix[r.to][m]]
    <3>1. row \in [Modules -> Row]
      BY <2>1, RevokedRow DEF TypeOK
    <3>2. matrix' = [matrix EXCEPT ![r.to] = row]
      BY <1>2 DEF Revoke
    <3> HIDE DEF row
    <3> QED
      BY <3>1, <3>2 DEF TypeOK
  <2>4. stack' \in [Procs -> Seq(Users)]
    BY <1>2, <2>1 DEF TypeOK, Revoke
  <2>5. UNCHANGED <<cache, lastSnapshot, held, request, got, found, affected, todo, issued>>
    BY <1>2 DEF Revoke
  <2>8. narrowed' \in [Users -> SUBSET (Modules \X Actions)]
    BY <1>2 DEF TypeOK, Revoke
  <2> HIDE DEF r
  <2>6. TypeOK'
    BY <2>1, <2>2, <2>3, <2>4, <2>5, <2>8, CallType DEF TypeOK
  <2>7. Shape'
    BY <2>1, <2>2, <2>5, CallType DEF Shape, InCall, r
  <2> QED
    BY <2>6, <2>7
<1>3. CASE CascadeTx(p)
  <2> DEFINE users == {row[1] : row \in found[p]}
  <2>1. users \in SUBSET Users
    BY DEF TypeOK
  <2>2. PICK first \in users : Call(p, first, "snapshot")
    BY <1>3 DEF CascadeTx
  <2>3. matrix' \in [Users -> [Modules -> Row]]
    <3>1. \A u \in Users, m \in Modules : [matrix[u][m] EXCEPT !.active = FALSE] \in Row
      BY RevokedRow DEF TypeOK
    <3>2. \A u \in Users, m \in Modules : matrix[u][m] \in Row
      BY DEF TypeOK
    <3> QED
      BY <1>3, <3>1, <3>2 DEF CascadeTx
  <2>4. affected' = [affected EXCEPT ![p] = users] /\ todo' = [todo EXCEPT ![p] = users]
    BY <1>3 DEF CascadeTx
  <2>5. found' \in [Procs -> SUBSET (Users \X Modules)]
    BY <1>3 DEF TypeOK, CascadeTx
  <2>6. UNCHANGED <<cache, lastSnapshot, held, request, got, stack, issued>>
    BY <1>3 DEF CascadeTx
  <2>7. pc[p] = "cascadeTx"
    BY <1>3 DEF CascadeTx
  <2>10. narrowed' \in [Users -> SUBSET (Modules \X Actions)]
    BY <1>3 DEF TypeOK, CascadeTx
  <2> HIDE DEF users
  <2>8. TypeOK'
    BY <2>1, <2>2, <2>3, <2>4, <2>5, <2>6, <2>10, CallType DEF TypeOK
  <2>9. Shape'
    BY <2>1, <2>2, <2>6, <2>7, CallType DEF Shape, InCall
  <2> QED
    BY <2>8, <2>9
<1> QED
  BY <1>1, <1>2, <1>3

\* A handler that walks the cascade, without writing a permission row.
LEMMA WalkTypes ==
    ASSUME NEW p \in Procs, TypeOK, Shape, Snapshot(p) \/ Cascade(p) \/ BulkInvalidate(p)
    PROVE  TypeOK' /\ Shape'
<1>1. CASE Snapshot(p)
  <2>1. target[p] \in Users /\ pc[p] = "snapshot" /\ request[p].to \in Users
    BY <1>1 DEF Snapshot, Shape, InCall
  <2>2. lastSnapshot' \in [user : Users \cup {NoUser}, data : PermissionSet]
    BY <1>1, <2>1 DEF TypeOK, Snapshot
  <2>3. UNCHANGED <<matrix, cache, held, narrowed, request, got, stack, found, affected, issued>>
    BY <1>1 DEF Snapshot
  <2>4. AfterSnapshot(p)
    BY <1>1 DEF Snapshot
  <2>5. CASE \E u \in todo[p] \ {target[p]} :
                Call(p, u, "snapshot") /\ todo' = [todo EXCEPT ![p] = todo[p] \ {target[p]}]
    <3>1. PICK u \in todo[p] \ {target[p]} :
             Call(p, u, "snapshot") /\ todo' = [todo EXCEPT ![p] = todo[p] \ {target[p]}]
      BY <2>5
    <3>2. u \in Users
      BY DEF TypeOK
    <3>3. TypeOK'
      BY <2>2, <2>3, <3>1, <3>2, CallType DEF TypeOK
    <3>4. Shape'
      BY <2>1, <2>3, <3>1, <3>2, CallType DEF Shape, InCall
    <3> QED
      BY <3>3, <3>4
  <2>6. CASE /\ \E next \in {"invalidate", "cascade", "bulk"} : pc' = [pc EXCEPT ![p] = next]
             /\ UNCHANGED <<target, after>>
             /\ todo' \in [Procs -> SUBSET Users]
    <3>1. TypeOK'
      BY <2>2, <2>3, <2>6 DEF TypeOK, Steps
    <3>2. pc'[p] \in {"invalidate", "cascade", "bulk"} /\ \A q \in Procs : q # p => pc'[q] = pc[q]
      BY <2>6 DEF TypeOK
    <3>3. Shape'
      BY <2>1, <2>3, <2>6, <3>2 DEF Shape, InCall
    <3> QED
      BY <3>1, <3>3
  <2>7. \/ /\ \E next \in {"invalidate", "cascade", "bulk"} : pc' = [pc EXCEPT ![p] = next]
           /\ UNCHANGED <<target, after>>
           /\ todo' \in {todo, [todo EXCEPT ![p] = affected[p]]}
        \/ \E u \in todo[p] \ {target[p]} :
                Call(p, u, "snapshot") /\ todo' = [todo EXCEPT ![p] = todo[p] \ {target[p]}]
    BY <2>4 DEF AfterSnapshot
  <2>8. {todo, [todo EXCEPT ![p] = affected[p]]} \subseteq [Procs -> SUBSET Users]
    BY DEF TypeOK
  <2> QED
    BY <2>5, <2>6, <2>7, <2>8
<1>2. CASE Cascade(p)
  <2>1. stack[p] \in Seq(Users) /\ stack[p] # <<>> /\ pc[p] = "cascade"
    BY <1>2 DEF TypeOK, Cascade
  <2>2. Tail(stack[p]) \in Seq(Users)
    BY <2>1
  <2>3. request[p].modules \in SUBSET Modules
    BY DEF TypeOK, Request
  <2>4. SubordinateRows(Head(stack[p]), request[p].modules) \in SUBSET (Users \X Modules)
    BY <2>3 DEF SubordinateRows
  <2>5. stack' \in [Procs -> Seq(Users)] /\ found' \in [Procs -> SUBSET (Users \X Modules)]
    BY <1>2, <2>2, <2>4 DEF TypeOK, Cascade
  <2>6. TypeOK'
    BY <1>2, <2>5 DEF TypeOK, Cascade, db, Steps
  <2>7. pc'[p] \in {"cascade", "cascadeTx"} /\ \A q \in Procs : q # p => pc'[q] = pc[q]
    BY <1>2 DEF TypeOK, Cascade
  <2>8. Shape'
    BY <1>2, <2>1, <2>7 DEF Shape, Cascade, InCall
  <2> QED
    BY <2>6, <2>8
<1>3. CASE BulkInvalidate(p)
  <2>1. PICK u \in todo[p] :
          /\ pc[p] = "bulk"
          /\ InvalidateCache(u)
          /\ todo' = [todo EXCEPT ![p] = todo[p] \ {u}]
          /\ IF todo[p] \ {u} # {}
             THEN UNCHANGED <<pc, stack, affected>>
             ELSE /\ \E order \in SetToSeqs(affected[p]) :
                        stack' = [stack EXCEPT ![p] = VisitNext(order, @)]
                  /\ affected' = [affected EXCEPT ![p] = {}]
                  /\ pc' = [pc EXCEPT ![p] = "cascade"]
          /\ UNCHANGED <<db, request, target, after, got, found, issued>>
    BY <1>3 DEF BulkInvalidate
  <2>2. u \in Users
    BY DEF TypeOK
  <2>3. cache' \in [Users -> PermissionSet \cup {NoEntry}]
    BY <2>1, <2>2, InvalidateCacheType
  <2>4. todo' \in [Procs -> SUBSET Users]
    BY <2>1 DEF TypeOK
  <2>5. CASE todo[p] \ {u} # {}
    <3>1. TypeOK'
      BY <2>1, <2>3, <2>4, <2>5 DEF TypeOK, db
    <3>2. Shape'
      BY <2>1, <2>5 DEF Shape
    <3> QED
      BY <3>1, <3>2
  <2>6. CASE todo[p] \ {u} = {}
    <3>1. PICK order \in SetToSeqs(affected[p]) :
             stack' = [stack EXCEPT ![p] = VisitNext(order, stack[p])]
      BY <2>1, <2>6
    <3>2. order \in Seq(Users)
      BY OrderType DEF TypeOK
    <3>3. VisitNext(order, stack[p]) \in Seq(Users)
      BY <3>2 DEF VisitNext, TypeOK
    <3>4. stack' \in [Procs -> Seq(Users)]
      BY <3>1, <3>3 DEF TypeOK
    <3>5. TypeOK'
      BY <2>1, <2>3, <2>4, <2>6, <3>4 DEF TypeOK, db, Steps
    <3>6. pc'[p] = "cascade" /\ \A q \in Procs : q # p => pc'[q] = pc[q]
      BY <2>1, <2>6 DEF TypeOK
    <3>7. Shape'
      BY <2>1, <3>6 DEF Shape, InCall
    <3> QED
      BY <3>5, <3>7
  <2> QED
    BY <2>5, <2>6
<1> QED
  BY <1>1, <1>2, <1>3

\* Types and shape survive every step.
LEMMA NextTypes == TypeOK /\ Shape /\ [Next]_vars => TypeOK' /\ Shape'
<1> SUFFICES ASSUME TypeOK, Shape, [Next]_vars PROVE TypeOK' /\ Shape'
  OBVIOUS
<1>1. ASSUME NEW p \in Procs, BeginRead(p) \/ BeginGrant(p) \/ BeginRevoke(p) \/ Step(p) \/ Abort(p)
      PROVE  TypeOK' /\ Shape'
  BY <1>1, BeginTypes, ReadStepTypes, EndTypes, WriteTypes, WalkTypes DEF Step
<1>2. ASSUME NEW u \in Users, Expire(u)
      PROVE  TypeOK' /\ Shape'
  <2>1. TypeOK'
    BY <1>2 DEF TypeOK, Expire, db, locals
  <2>2. Shape'
    BY <1>2 DEF Shape, Expire, locals
  <2> QED
    BY <2>1, <2>2
<1>3. CASE UNCHANGED vars
  <2>1. TypeOK'
    BY <1>3 DEF TypeOK, vars
  <2>2. Shape'
    BY <1>3 DEF Shape, vars
  <2> QED
    BY <2>1, <2>2
<1> QED
  BY <1>1, <1>2, <1>3 DEF Next

-----------------------------------------------------------------------------
\* Who possessed what.

LEMMA InitPossession == Init => Possession
<1> SUFFICES ASSUME Init PROVE Possession
  OBVIOUS
<1>1. \A u \in Users, m \in Modules : InitialMatrix[u][m] \in Row
  BY MatrixAssumption
<1>2. ViewsPossessed
  BY <1>1 DEF Init, ViewsPossessed, Possessed, View, Row
<1>3. CachePossessed /\ ReadsPossessed /\ RowsAreGranted
  BY MatrixAssumption DEF Init, CachePossessed, ReadsPossessed, RowsAreGranted
<1>4. GrantsWerePossessed
  <2> SUFFICES ASSUME NEW u \in Users, NEW m \in Modules, matrix[u][m].active
               PROVE  /\ Level[matrix[u][m].by] # "WORKER"
                      /\ \/ IsOwner(matrix[u][m].by)
                         \/ \A a \in matrix[u][m].actions : <<m, a>> \in held[matrix[u][m].by]
    BY DEF GrantsWerePossessed
  <2> DEFINE r == InitialMatrix[u][m]
  <2>1. matrix[u][m] = r
    BY DEF Init
  <2>2. /\ r.by \in Users /\ Level[r.by] # "WORKER"
        /\ IsOwner(r.by) \/ r.actions \subseteq InitialMatrix[r.by][m].actions
        /\ IsOwner(r.by) \/ InitialMatrix[r.by][m].active
    BY <2>1, MatrixAssumption
  <2>3. r.actions \subseteq Actions
    BY <1>1 DEF Row
  <2> HIDE DEF r
  <2>4. ASSUME ~IsOwner(r.by), NEW a \in r.actions
        PROVE  <<m, a>> \in held[r.by]
    BY <2>2, <2>3, <2>4 DEF Init
  <2> QED
    BY <2>1, <2>2, <2>4
<1> QED
  BY <1>2, <1>3, <1>4 DEF Possession

\* A step that writes no row and no history keeps what was possessed, provided
\* its cache entries and its reads are possessed.
LEMMA SameRowsPossession ==
    ASSUME UNCHANGED <<matrix, held>>, Possession, CachePossessed', ReadsPossessed'
    PROVE  Possession'
  BY DEF Possession, RowsAreGranted, ViewsPossessed, Possessed, View, GrantsWerePossessed

LEMMA BeginPossession ==
    ASSUME NEW p \in Procs, TypeOK, Shape, Possession,
           BeginRead(p) \/ BeginGrant(p) \/ BeginRevoke(p)
    PROVE  Possession'
<1>1. UNCHANGED <<matrix, held, cache, got>>
  BY DEF BeginRead, BeginGrant, BeginRevoke, db
<1>2. \A q \in Procs : q # p => pc'[q] = pc[q] /\ target'[q] = target[q] /\ request'[q] = request[q]
  <2>1. CASE BeginRead(p)
    BY <2>1 DEF TypeOK, BeginRead, Issue, Call
  <2>2. CASE BeginGrant(p)
    <3>1. PICK r : Issue(p, r)
      BY <2>2 DEF BeginGrant
    <3>2. \/ pc' = [pc EXCEPT ![p] = "apply"] /\ UNCHANGED target
          \/ \E g : Call(p, g, "apply")
      BY <2>2 DEF BeginGrant
    <3>3. \A q \in Procs : q # p => request'[q] = request[q]
      BY <3>1 DEF TypeOK, Issue
    <3> QED
      BY <3>2, <3>3 DEF TypeOK, Call
  <2>3. CASE BeginRevoke(p)
    BY <2>3 DEF TypeOK, BeginRevoke, Issue, Call
  <2> QED
    BY <2>1, <2>2, <2>3
<1>3. pc'[p] # "fill" /\ (pc'[p] = "apply" => IsOwner(request'[p].by))
  <2>1. CASE BeginRead(p)
    BY <2>1 DEF TypeOK, BeginRead, Call
  <2>2. CASE BeginGrant(p)
    <3>1. PICK g \in Users, u \in Users, perms \in GrantInputs :
             /\ Issue(p, [NoRequest EXCEPT !.op = "grant", !.by = g, !.to = u, !.perms = perms])
             /\ ~IsOwner(g) => Call(p, g, "apply")
             /\ IsOwner(g) => pc' = [pc EXCEPT ![p] = "apply"]
      BY <2>2 DEF BeginGrant
    <3>2. request'[p].by = g
      BY <3>1 DEF TypeOK, Issue, NoRequest
    <3> QED
      BY <3>1, <3>2 DEF TypeOK, Call
  <2>3. CASE BeginRevoke(p)
    BY <2>3 DEF TypeOK, BeginRevoke
  <2> QED
    BY <2>1, <2>2, <2>3
<1>4. ReadsPossessed'
  BY <1>1, <1>2, <1>3 DEF Possession, ReadsPossessed, Possessed, IsOwner
<1>5. CachePossessed'
  BY <1>1 DEF Possession, CachePossessed, Possessed
<1> QED
  BY <1>1, <1>4, <1>5, SameRowsPossession

LEMMA ReadStepPossession ==
    ASSUME NEW p \in Procs, TypeOK, Shape, Possession, Lookup(p) \/ Fetch(p) \/ Fill(p)
    PROVE  Possession'
<1>1. UNCHANGED <<matrix, held, target, request>>
  BY DEF Lookup, Fetch, Fill, db
<1>2. target[p] \in Users
  BY DEF Lookup, Fetch, Fill, Shape, InCall
<1>3. \A q \in Procs : q # p => pc'[q] = pc[q] /\ got'[q] = got[q]
  BY DEF TypeOK, Lookup, Fetch, Fill
<1>4. pc'[p] \in {"fill", "apply"} => Possessed(target[p], got'[p])
  <2>1. CASE Lookup(p)
    <3>1. CASE CacheHit(target[p]) /\ got' = [got EXCEPT ![p] = cache[target[p]]]
      BY <1>2, <3>1 DEF TypeOK, CacheHit, Possession, CachePossessed
    <3>2. CASE pc' = [pc EXCEPT ![p] = "fetch"]
      BY <3>2 DEF TypeOK
    <3> QED
      BY <2>1, <3>1, <3>2 DEF Lookup
  <2>2. CASE Fetch(p)
    BY <1>2, <2>2 DEF TypeOK, Fetch, Possession, ViewsPossessed
  <2>3. CASE Fill(p)
    BY <2>3 DEF TypeOK, Fill, Possession, ReadsPossessed
  <2> QED
    BY <2>1, <2>2, <2>3
<1>5. ReadsPossessed'
  BY <1>1, <1>3, <1>4 DEF Possession, ReadsPossessed, Possessed, IsOwner
<1>6. CachePossessed'
  <2>1. CASE Fill(p)
    BY <1>1, <1>2, <2>1 DEF TypeOK, Fill, Possession, CachePossessed, ReadsPossessed, Possessed
  <2>2. CASE ~Fill(p)
    BY <1>1, <2>2 DEF Lookup, Fetch, Possession, CachePossessed, Possessed
  <2> QED
    BY <2>1, <2>2
<1> QED
  BY <1>1, <1>5, <1>6, SameRowsPossession

\* Steps whose handler leaves getPermissions alone: its reads stay possessed.
LEMMA OtherPossession ==
    ASSUME NEW p \in Procs, TypeOK, Shape, Possession,
           \/ EndRead(p) \/ RefuseGrant(p) \/ Abort(p) \/ Invalidate(p)
           \/ Snapshot(p) \/ Cascade(p) \/ BulkInvalidate(p)
    PROVE  Possession'
<1>1. UNCHANGED <<matrix, held>>
  BY DEF EndRead, RefuseGrant, Abort, Invalidate, Snapshot, Cascade, BulkInvalidate, db
<1>2. \A q \in Procs : q # p => /\ pc'[q] = pc[q] /\ target'[q] = target[q]
                               /\ request'[q] = request[q] /\ got'[q] = got[q]
  BY DEF TypeOK, EndRead, RefuseGrant, Abort, Invalidate, Snapshot, Cascade, BulkInvalidate,
         Finish, AfterSnapshot, Call
<1>3. pc'[p] \notin {"fill", "apply"}
  BY DEF TypeOK, EndRead, RefuseGrant, Abort, Invalidate, Snapshot, Cascade, BulkInvalidate,
         Finish, AfterSnapshot, Call
<1>4. ReadsPossessed'
  BY <1>1, <1>2, <1>3 DEF Possession, ReadsPossessed, Possessed, IsOwner
<1>5. \A u \in Users : cache'[u] \in {cache[u], NoEntry}
  BY DEF TypeOK, EndRead, RefuseGrant, Abort, Invalidate, Snapshot, Cascade, BulkInvalidate,
         InvalidateCache
<1>6. CachePossessed'
  BY <1>1, <1>5 DEF Possession, CachePossessed, Possessed
<1> QED
  BY <1>1, <1>4, <1>6, SameRowsPossession

\* Revoking rows takes nothing away from the history.
LEMMA RevokedPossession ==
    ASSUME NEW p \in Procs, TypeOK, Shape, Possession, Revoke(p) \/ CascadeTx(p)
    PROVE  Possession'
<1>1. \A u \in Users, m \in Modules :
         \/ matrix'[u][m] = matrix[u][m]
         \/ matrix'[u][m] = [matrix[u][m] EXCEPT !.active = FALSE]
  <2>1. CASE Revoke(p)
    BY <2>1 DEF TypeOK, Revoke
  <2>2. CASE CascadeTx(p)
    BY <2>2 DEF CascadeTx
  <2> QED
    BY <2>1, <2>2
<1>2. \A u \in Users, m \in Modules :
         matrix'[u][m].active = TRUE => matrix'[u][m] = matrix[u][m]
  <2> SUFFICES ASSUME NEW u \in Users, NEW m \in Modules, matrix'[u][m].active = TRUE
               PROVE  matrix'[u][m] = matrix[u][m]
    OBVIOUS
  <2>1. matrix[u][m] \in Row
    BY DEF TypeOK
  <2>2. [matrix[u][m] EXCEPT !.active = FALSE].active = FALSE
    BY <2>1, RevokedRow
  <2> QED
    BY <1>1, <2>2
<1>3. \A u \in Users, m \in Modules : matrix'[u][m] \in Row
  BY NextTypes DEF Next, Step, TypeOK
<1>4. UNCHANGED <<held, cache, got, request>>
  BY DEF Revoke, CascadeTx
<1>5. \A q \in Procs : q # p => pc'[q] = pc[q] /\ target'[q] = target[q]
  BY DEF TypeOK, Revoke, CascadeTx, Call
<1>6. pc'[p] = "lookup"
  BY DEF TypeOK, Revoke, CascadeTx, Call
<1>7. ReadsPossessed'
  BY <1>4, <1>5, <1>6 DEF Possession, ReadsPossessed, Possessed, IsOwner
<1>8. CachePossessed'
  BY <1>4 DEF Possession, CachePossessed, Possessed
<1>9. ViewsPossessed'
  BY <1>2, <1>3, <1>4 DEF Possession, ViewsPossessed, Possessed, View, Row
<1>10. GrantsWerePossessed'
  BY <1>2, <1>3, <1>4 DEF Possession, GrantsWerePossessed, IsOwner, Row
<1>11. RowsAreGranted'
  BY <1>2, <1>3 DEF Possession, RowsAreGranted, Row
<1> QED
  BY <1>7, <1>8, <1>9, <1>10, <1>11 DEF Possession

\* A grant that passes the validation hands out only what was possessed.
LEMMA GrantPossession ==
    ASSUME NEW p \in Procs, TypeOK, Shape, Possession, ApplyGrant(p)
    PROVE  Possession'
<1> DEFINE r == request[p]
<1>1. /\ r \in Request /\ r.to \in Users /\ r.by \in Users /\ Level[r.by] # "WORKER"
      /\ IsOwner(r.by) \/ target[p] = r.by
      /\ MayDelegate(p) /\ pc[p] = "apply"
  BY DEF TypeOK, Shape, ApplyGrant
<1>2. \A m \in DOMAIN r.perms : m \in Modules /\ r.perms[m] \in SUBSET Actions
  BY <1>1 DEF Request, PermissionLists
<1>3. UNCHANGED <<cache, got, request>>
  BY DEF ApplyGrant
<1>4. /\ \A u \in Users : held[u] \subseteq held'[u]
      /\ \A m \in DOMAIN r.perms : \A a \in r.perms[m] : <<m, a>> \in held'[r.to]
  BY <1>1, <1>2 DEF TypeOK, ApplyGrant, Listed
<1>5. \A u \in Users, m \in Modules :
         \/ matrix'[u][m] = matrix[u][m]
         \/ u = r.to /\ m \in DOMAIN r.perms /\ matrix'[u][m] = Granted(r.perms[m], r.by)
  BY <1>1 DEF TypeOK, ApplyGrant, Upserted
<1>6. \A u \in Users, m \in Modules : matrix[u][m] \in Row
  BY DEF TypeOK
<1>7. pc'[p] = "lookup" /\ \A q \in Procs : q # p => pc'[q] = pc[q] /\ target'[q] = target[q]
  BY DEF TypeOK, ApplyGrant, Call
<1>8. ~IsOwner(r.by) => \A m \in DOMAIN r.perms : \A a \in r.perms[m] : <<m, a>> \in held[r.by]
  BY <1>1, <1>2 DEF MayDelegate, Possession, ReadsPossessed, Possessed
<1> HIDE DEF r
<1>9. ReadsPossessed'
  <2> SUFFICES ASSUME NEW q \in Procs,
                      pc'[q] = "fill" \/ (pc'[q] = "apply" /\ ~IsOwner(request'[q].by))
               PROVE  Possessed(target[q], got[q])'
    BY DEF ReadsPossessed, Possessed, IsOwner
  <2>1. q # p /\ pc'[q] = pc[q] /\ target'[q] = target[q] /\ got'[q] = got[q] /\ request'[q] = request[q]
    BY <1>3, <1>7
  <2>2. Possessed(target[q], got[q])
    BY <2>1 DEF Possession, ReadsPossessed
  <2>3. target[q] \in Users
    BY <2>1, InputAssumption DEF Shape, InCall
  <2> QED
    BY <1>4, <2>1, <2>2, <2>3 DEF Possessed
<1>10. CachePossessed'
  BY <1>3, <1>4 DEF Possession, CachePossessed, Possessed
<1>11. ViewsPossessed'
  <2> SUFFICES ASSUME NEW u \in Users, NEW m \in Modules, NEW a, matrix'[u][m].active = TRUE,
                      a \in matrix'[u][m].actions
               PROVE  <<m, a>> \in held'[u]
    BY NextTypes DEF Next, Step, ViewsPossessed, Possessed, View, TypeOK, Row
  <2>1. CASE matrix'[u][m] = matrix[u][m]
    BY <1>4, <1>6, <2>1 DEF Possession, ViewsPossessed, Possessed, View
  <2>2. CASE u = r.to /\ m \in DOMAIN r.perms /\ matrix'[u][m] = Granted(r.perms[m], r.by)
    BY <1>4, <2>2 DEF Granted
  <2> QED
    BY <1>5, <2>1, <2>2
<1>12. GrantsWerePossessed'
  <2> SUFFICES ASSUME NEW u \in Users, NEW m \in Modules, matrix'[u][m].active
               PROVE  /\ Level[matrix'[u][m].by] # "WORKER"
                      /\ \/ IsOwner(matrix'[u][m].by)
                         \/ \A a \in matrix'[u][m].actions : <<m, a>> \in held'[matrix'[u][m].by]
    BY DEF GrantsWerePossessed, IsOwner
  <2>1. CASE matrix'[u][m] = matrix[u][m]
    <3>1. matrix[u][m].by \in Users
      BY <2>1 DEF Possession, RowsAreGranted
    <3> QED
      BY <1>4, <2>1, <3>1 DEF Possession, GrantsWerePossessed
  <2>2. CASE u = r.to /\ m \in DOMAIN r.perms /\ matrix'[u][m] = Granted(r.perms[m], r.by)
    BY <1>1, <1>4, <1>8, <2>2 DEF Granted
  <2> QED
    BY <1>5, <2>1, <2>2
<1>13. RowsAreGranted'
  <2> SUFFICES ASSUME NEW u \in Users, NEW m \in Modules, matrix'[u][m].active
               PROVE  matrix'[u][m].by \in Users
    BY DEF RowsAreGranted
  <2>1. CASE matrix'[u][m] = matrix[u][m]
    BY <2>1 DEF Possession, RowsAreGranted
  <2>2. CASE matrix'[u][m] = Granted(r.perms[m], r.by)
    BY <1>1, <2>2 DEF Granted
  <2> QED
    BY <1>5, <2>1, <2>2
<1> QED
  BY <1>9, <1>10, <1>11, <1>12, <1>13 DEF Possession

LEMMA NextPossession == IInv /\ [Next]_vars => Possession'
<1> SUFFICES ASSUME TypeOK, Shape, Possession, [Next]_vars PROVE Possession'
  BY DEF IInv
<1>1. ASSUME NEW p \in Procs, BeginRead(p) \/ BeginGrant(p) \/ BeginRevoke(p) \/ Step(p) \/ Abort(p)
      PROVE  Possession'
  BY <1>1, BeginPossession, ReadStepPossession, OtherPossession, RevokedPossession, GrantPossession
     DEF Step
<1>2. ASSUME NEW u \in Users, Expire(u)
      PROVE  Possession'
  <2>1. UNCHANGED <<matrix, held, pc, target, got, request>>
    BY <1>2 DEF Expire, db, locals
  <2>2. ReadsPossessed'
    BY <2>1 DEF Possession, ReadsPossessed, Possessed, IsOwner
  <2>3. CachePossessed'
    BY <1>2, <2>1 DEF TypeOK, Expire, Possession, CachePossessed, Possessed
  <2> QED
    BY <2>1, <2>2, <2>3, SameRowsPossession
<1>3. CASE UNCHANGED vars
  <2>1. CachePossessed' /\ ReadsPossessed'
    BY <1>3 DEF vars, Possession, CachePossessed, ReadsPossessed, Possessed, IsOwner
  <2> QED
    BY <1>3, <2>1, SameRowsPossession DEF vars
<1> QED
  BY <1>1, <1>2, <1>3 DEF Next

\* The inductive invariant holds in every reachable state.
LEMMA IInvInductive == Spec => []IInv
<1>1. Init => IInv
  BY InitTypes, InitPossession DEF IInv
<1>2. IInv /\ [Next]_vars => IInv'
  BY NextTypes, NextPossession DEF IInv
<1> QED
  BY <1>1, <1>2, PTL DEF Spec

\* In every reachable state the variables have their types.
THEOREM TypeCorrect == Spec => []TypeOK
<1>1. IInv => TypeOK
  BY DEF IInv
<1> QED
  BY <1>1, IInvInductive, PTL

\* Whatever the interleaving, the faults and the age of the cache entries: what
\* a manager has granted is something that manager held at some time.
THEOREM PossessionCorrect == Spec => []GrantsWerePossessed
<1>1. IInv => GrantsWerePossessed
  BY DEF IInv, Possession
<1> QED
  BY <1>1, IInvInductive, PTL

(***************************************************************************)
(* One request at a time and no fault: the cache is fresh and the golden   *)
(* rule holds between requests.                                            *)
(*                                                                         *)
(* Both speak of states at rest.  During a request FreshElsewhere names    *)
(* the users whose cache entry it still has to drop, and BrokenAreKnown    *)
(* says of every row whose grantor has lost the module that the cascade    *)
(* is still to visit the grantor, or has the row in its hands.             *)
(***************************************************************************)
Snapshotting(p) == pc[p] = "snapshot" \/ (pc[p] \in InCall /\ after[p] = "snapshot")
Validating(p) == pc[p] = "apply" \/ (pc[p] \in InCall /\ after[p] = "apply")

\* A request that has written rows and has not yet dropped every cache entry.
Changed(p) == Snapshotting(p) \/ pc[p] \in {"cascade", "cascadeTx", "bulk", "invalidate"}

Phases ==
    \A p \in Procs :
        /\ Validating(p) \/ pc[p] = "invalidate" => request[p].op = "grant"
        /\ pc[p] \in {"revoke", "cascade", "cascadeTx", "bulk"} => request[p].op = "revoke"
        /\ Snapshotting(p) => request[p].op \in {"grant", "revoke"}
        /\ affected[p] # {} => pc[p] = "bulk" \/ Snapshotting(p)
        /\ found[p] # {} => pc[p] = "cascadeTx"
        /\ found[p] \subseteq Users \X request[p].modules
        /\ request[p].op # "revoke" \/ ~ Changed(p) => stack[p] = <<>> /\ affected[p] = {}

Stale(p) ==
    IF ~ Changed(p) THEN {}
    ELSE {request[p].to} \cup (IF pc[p] = "bulk" THEN todo[p] ELSE affected[p])

FreshElsewhere ==
    \A p \in Procs :
        /\ \A u \in Users \ Stale(p) : cache[u] # NoEntry => cache[u] = View(u)
        /\ pc[p] = "fill" \/ (pc[p] = "apply" /\ ~ IsOwner(request[p].by))
              => got[p] = View(target[p])

ToVisit(p) == Range(stack[p]) \cup affected[p]

BrokenAreKnown ==
    \A p \in Procs, u \in Users, m \in Modules :
        matrix[u][m].active /\ matrix[u][m].actions # {} =>
            \/ IsOwner(matrix[u][m].by)
            \/ matrix[matrix[u][m].by][m].active
            \/ /\ m \in request[p].modules
               /\ matrix[u][m].by \in ToVisit(p) \/ <<u, m>> \in found[p]

SerialInv == Phases /\ FreshElsewhere /\ BrokenAreKnown

\* An order of visits visits everybody.
LEMMA OrderComplete ==
    ASSUME NEW S \in SUBSET Users, NEW s \in SetToSeqs(S)
    PROVE  Range(s) = S
<1> DEFINE n == Cardinality(S)
<1>1. IsFiniteSet(S) /\ n \in Nat
  BY UsersAssumption, FS_Subset, FS_CardinalityType
<1>2. s \in [1 .. n -> S] /\ \A i, j \in 1 .. n : i # j => s[i] # s[j]
  BY DEF SetToSeqs
<1>3. s \in Injection(1 .. n, S)
  BY <1>2 DEF Injection, IsInjective
<1>4. IsFiniteSet(1 .. n) /\ Cardinality(1 .. n) = n
  BY <1>1, FS_Interval
<1>5. s \in Surjection(1 .. n, S)
  BY <1>1, <1>3, <1>4, FS_Injection
<1> QED
  BY <1>2, <1>5 DEF Surjection, Range

\* What is left to visit when the next users come before the others.
LEMMA VisitNextSet ==
    ASSUME NEW a \in Seq(Users), NEW b \in Seq(Users), NEW c, c = VisitNext(a, b)
    PROVE  Range(c) = Range(a) \cup Range(b)
<1>1. /\ DOMAIN a = 1 .. Len(a) /\ DOMAIN b = 1 .. Len(b) /\ DOMAIN c = 1 .. Len(a) + Len(b)
      /\ Len(a) \in Nat /\ Len(b) \in Nat
  BY DEF VisitNext
<1>2. \A i \in 1 .. Len(a) + Len(b) : c[i] = IF i <= Len(a) THEN a[i] ELSE b[i - Len(a)]
  BY DEF VisitNext
<1>3. \A i \in DOMAIN a : i \in DOMAIN c /\ c[i] = a[i]
  BY <1>1, <1>2
<1>4. \A i \in DOMAIN b : i + Len(a) \in DOMAIN c /\ c[i + Len(a)] = b[i]
  BY <1>1, <1>2
<1>5. \A i \in DOMAIN c : \/ i \in DOMAIN a /\ c[i] = a[i]
                          \/ i - Len(a) \in DOMAIN b /\ c[i] = b[i - Len(a)]
  BY <1>1, <1>2
<1> QED
  BY <1>3, <1>4, <1>5 DEF Range

LEMMA TailSet ==
    ASSUME NEW a \in Seq(Users), a # <<>>
    PROVE  Range(a) \subseteq {Head(a)} \cup Range(Tail(a))
<1>1. Len(a) \in Nat \ {0} /\ DOMAIN a = 1 .. Len(a) /\ DOMAIN Tail(a) = 1 .. Len(a) - 1
  OBVIOUS
<1>2. Head(a) = a[1] /\ \A i \in 1 .. Len(a) - 1 : Tail(a)[i] = a[i + 1]
  OBVIOUS
<1>3. \A i \in DOMAIN a : i = 1 \/ (i - 1 \in DOMAIN Tail(a) /\ Tail(a)[i - 1] = a[i])
  BY <1>1, <1>2
<1> SUFFICES ASSUME NEW i \in DOMAIN a, a[i] # Head(a)
             PROVE  \E j \in DOMAIN Tail(a) : Tail(a)[j] = a[i]
  BY DEF Range
<1> QED
  BY <1>2, <1>3

LEMMA InitSerial == Init => SerialInv
<1> SUFFICES ASSUME Init PROVE SerialInv
  OBVIOUS
<1>1. \A p \in Procs : /\ pc[p] = "idle" /\ stack[p] = <<>> /\ affected[p] = {} /\ found[p] = {}
                       /\ request[p] = NoRequest
  BY DEF Init
<1>2. Phases
  BY <1>1 DEF Phases, Validating, Snapshotting, Changed, InCall
<1>3. FreshElsewhere
  BY <1>1 DEF FreshElsewhere, Init
<1>4. BrokenAreKnown
  BY MatrixAssumption DEF BrokenAreKnown, Init
<1> QED
  BY <1>2, <1>3, <1>4 DEF SerialInv

-----------------------------------------------------------------------------
\* A request is taken up: nothing is written.
LEMMA BeginSerial ==
    ASSUME TypeOK, SerialInv, NEW p \in Procs, \A q \in Procs : q = p,
           BeginRead(p) \/ BeginGrant(p) \/ BeginRevoke(p)
    PROVE  SerialInv'
<1>1. /\ pc[p] = "idle" /\ UNCHANGED <<matrix, cache, got, stack, found, affected, todo>>
      /\ stack[p] = <<>> /\ affected[p] = {} /\ found[p] = {}
  BY DEF BeginRead, BeginGrant, BeginRevoke, Issue, db, SerialInv, Phases, Changed, Snapshotting, InCall
<1>2. ~ Changed(p) /\ ToVisit(p) = {}
  BY <1>1 DEF Changed, Snapshotting, InCall, ToVisit, Range
<1>3. \/ /\ pc'[p] = "lookup" /\ after'[p] = "reply"
      \/ /\ pc'[p] = "apply" /\ request'[p].op = "grant" /\ IsOwner(request'[p].by)
      \/ /\ pc'[p] = "lookup" /\ after'[p] = "apply" /\ request'[p].op = "grant"
      \/ /\ pc'[p] = "revoke" /\ request'[p].op = "revoke"
  <2>1. CASE BeginRead(p)
    BY <2>1 DEF BeginRead, Call, TypeOK
  <2>2. CASE BeginGrant(p)
    <3>1. PICK g \in Users, u \in Users, perms \in GrantInputs :
             /\ Issue(p, [NoRequest EXCEPT !.op = "grant", !.by = g, !.to = u, !.perms = perms])
             /\ ~IsOwner(g) => Call(p, g, "apply")
             /\ IsOwner(g) => pc' = [pc EXCEPT ![p] = "apply"]
      BY <2>2 DEF BeginGrant
    <3>2. request'[p].by = g /\ request'[p].op = "grant"
      BY <3>1 DEF TypeOK, Issue, NoRequest
    <3> QED
      BY <3>1, <3>2 DEF TypeOK, Call
  <2>3. CASE BeginRevoke(p)
    <3>1. PICK u \in Users, ms \in SUBSET Modules :
             Issue(p, [NoRequest EXCEPT !.op = "revoke", !.to = u, !.modules = ms])
      BY <2>3 DEF BeginRevoke
    <3>2. request'[p].op = "revoke"
      BY <3>1 DEF TypeOK, Issue, NoRequest
    <3> QED
      BY <2>3, <3>2 DEF BeginRevoke, TypeOK
  <2> QED
    BY <2>1, <2>2, <2>3
<1>4. Phases'
  BY <1>1, <1>3 DEF Phases, Validating, Snapshotting, Changed, InCall
<1>5. ~ Changed(p)'
  BY <1>3 DEF Changed, Snapshotting, InCall
<1>6. FreshElsewhere'
  <2>1. Stale(p) = {} /\ Stale(p)' = {}
    BY <1>2, <1>5 DEF Stale
  <2>2. \A u \in Users : View(u)' = View(u)
    BY <1>1 DEF View
  <2>3. pc'[p] # "fill" /\ ~ (pc'[p] = "apply" /\ ~ IsOwner(request'[p].by))
    BY <1>3
  <2> QED
    BY <1>1, <2>1, <2>2, <2>3 DEF SerialInv, FreshElsewhere, IsOwner
<1>7. BrokenAreKnown'
  BY <1>1, <1>2 DEF SerialInv, BrokenAreKnown, IsOwner
<1> QED
  BY <1>4, <1>6, <1>7 DEF SerialInv

\* getPermissions: what it returns, and what it leaves in the cache, is the view of now.
LEMMA ReadStepSerial ==
    ASSUME TypeOK, Shape, SerialInv, Faults = {}, NEW p \in Procs, \A q \in Procs : q = p,
           Lookup(p) \/ Fetch(p) \/ Fill(p)
    PROVE  SerialInv'
<1>1. /\ pc[p] \in InCall /\ target[p] \in Users /\ after[p] \in {"apply", "snapshot", "reply"}
      /\ UNCHANGED <<matrix, request, target, after, stack, found, affected, todo>>
  BY DEF Lookup, Fetch, Fill, Shape, InCall, db
<1>2. pc'[p] \in {after[p], "fetch", "fill"}
  BY <1>1 DEF Lookup, Fetch, Fill, TypeOK
<1>3. (Changed(p) <=> Changed(p)') /\ (Validating(p)' => Validating(p))
      /\ (Snapshotting(p) <=> Snapshotting(p)')
  BY <1>1, <1>2 DEF Changed, Snapshotting, Validating, InCall
<1>4. Phases'
  BY <1>1, <1>2, <1>3 DEF SerialInv, Phases, InCall
<1>5. Stale(p)' = Stale(p)
  BY <1>1, <1>2, <1>3 DEF Stale, InCall
<1>6. BrokenAreKnown'
  BY <1>1 DEF SerialInv, BrokenAreKnown, IsOwner, ToVisit
<1>7. \A u \in Users : View(u)' = View(u)
  BY <1>1 DEF View
<1>8. Validating(p) => Stale(p) = {}
  BY <1>1 DEF Stale, Changed, Snapshotting, Validating, InCall
<1>9. FreshElsewhere'
  <2>1. CASE Lookup(p)
    <3>1. UNCHANGED cache /\ pc[p] = "lookup"
      BY <2>1 DEF Lookup
    <3>2. pc'[p] = "apply" => got'[p] = View(target[p])
      <4> SUFFICES ASSUME pc'[p] = "apply" PROVE got'[p] = View(target[p])
        OBVIOUS
      <4>1. CacheHit(target[p]) /\ got'[p] = cache[target[p]]
        BY <2>1 DEF Lookup, TypeOK
      <4>2. Validating(p)
        BY <1>1, <1>2 DEF Validating
      <4> QED
        BY <1>1, <1>8, <4>1, <4>2 DEF SerialInv, FreshElsewhere, CacheHit
    <3>3. pc'[p] # "fill"
      BY <1>1, <2>1 DEF Lookup, TypeOK
    <3> QED
      BY <1>1, <1>5, <1>7, <3>1, <3>2, <3>3 DEF SerialInv, FreshElsewhere
  <2>2. CASE Fetch(p)
    <3>1. UNCHANGED cache /\ pc'[p] = "fill" /\ got'[p] = View(target[p])
      BY <2>2 DEF Fetch, TypeOK
    <3> QED
      BY <1>1, <1>5, <1>7, <3>1 DEF SerialInv, FreshElsewhere
  <2>3. CASE Fill(p)
    <3>1. /\ cache' = [cache EXCEPT ![target[p]] = got[p]] /\ UNCHANGED got
          /\ pc[p] = "fill" /\ pc'[p] = after[p]
      BY <2>3 DEF Fill, TypeOK
    <3>2. got[p] = View(target[p])
      BY <3>1 DEF SerialInv, FreshElsewhere
    <3>3. \A u \in Users \ Stale(p) : cache'[u] # NoEntry => cache'[u] = View(u)
      BY <1>1, <3>1, <3>2 DEF SerialInv, FreshElsewhere, TypeOK
    <3> QED
      BY <1>1, <1>5, <1>7, <3>1, <3>2, <3>3 DEF FreshElsewhere
  <2> QED
    BY <2>1, <2>2, <2>3
<1> QED
  BY <1>4, <1>6, <1>9 DEF SerialInv

\* A request that ends owes nothing.
LEMMA EndSerial ==
    ASSUME TypeOK, Shape, SerialInv, Faults = {}, NEW p \in Procs, \A q \in Procs : q = p,
           EndRead(p) \/ RefuseGrant(p) \/ Invalidate(p)
    PROVE  SerialInv'
<1>1. /\ UNCHANGED matrix
      /\ pc'[p] = "idle" /\ stack'[p] = <<>> /\ affected'[p] = {} /\ found'[p] = {}
      /\ request'[p] = NoRequest
  BY DEF EndRead, RefuseGrant, Invalidate, Finish, TypeOK, db
<1>2. Phases'
  BY <1>1 DEF Phases, Validating, Snapshotting, Changed, InCall
<1>3. ToVisit(p) = {} /\ found[p] = {} /\ affected[p] = {}
  BY DEF EndRead, RefuseGrant, Invalidate, SerialInv, Phases, Changed, Snapshotting, InCall, ToVisit, Range
<1>4. BrokenAreKnown'
  BY <1>1, <1>3 DEF SerialInv, BrokenAreKnown, IsOwner
<1>5. \A u \in Users : cache'[u] # NoEntry => cache'[u] = View(u)
  <2>1. CASE EndRead(p) \/ RefuseGrant(p)
    <3>1. UNCHANGED cache /\ Stale(p) = {}
      BY <2>1 DEF EndRead, RefuseGrant, Stale, Changed, Snapshotting, InCall
    <3> QED
      BY <3>1 DEF SerialInv, FreshElsewhere
  <2>2. CASE Invalidate(p)
    <3>1. cache' = [cache EXCEPT ![request[p].to] = NoEntry]
      BY <2>2 DEF Invalidate, InvalidateCache
    <3>2. Stale(p) \subseteq {request[p].to} /\ request[p].to \in Users
      BY <1>3, <2>2 DEF Invalidate, Stale, Shape
    <3> QED
      BY <3>1, <3>2 DEF SerialInv, FreshElsewhere, TypeOK
  <2> QED
    BY <2>1, <2>2
<1>6. \A u \in Users : View(u)' = View(u)
  BY <1>1 DEF View
<1>7. FreshElsewhere'
  BY <1>1, <1>5, <1>6 DEF FreshElsewhere
<1> QED
  BY <1>2, <1>4, <1>7 DEF SerialInv

\* A grant that passes the validation: the grantor holds, now, what it passes on.
LEMMA GrantSerial ==
    ASSUME TypeOK, Shape, Possession, SerialInv, NEW p \in Procs, \A q \in Procs : q = p,
           ApplyGrant(p)
    PROVE  SerialInv'
<1> DEFINE r == request[p]
<1>1. /\ r \in Request /\ r.to \in Users /\ r.by \in Users /\ pc[p] = "apply"
      /\ IsOwner(r.by) \/ target[p] = r.by
      /\ MayDelegate(p) /\ UNCHANGED <<cache, request, got, stack, found, affected, todo>>
      /\ r.op = "grant"
  BY DEF TypeOK, Shape, ApplyGrant, SerialInv, Phases, Validating
<1>2. /\ stack[p] = <<>> /\ affected[p] = {} /\ found[p] = {}
      /\ Stale(p) = {} /\ ToVisit(p) = {}
  BY <1>1 DEF SerialInv, Phases, Changed, Snapshotting, InCall, Stale, ToVisit, Range
<1>3. pc'[p] = "lookup" /\ after'[p] = "snapshot"
  BY DEF ApplyGrant, Call, TypeOK
<1>4. Phases'
  BY <1>1, <1>2, <1>3 DEF Phases, Validating, Snapshotting, Changed, InCall
<1>5. \A u \in Users, m \in Modules :
         \/ matrix'[u][m] = matrix[u][m]
         \/ u = r.to /\ m \in DOMAIN r.perms /\ matrix'[u][m] = Granted(r.perms[m], r.by)
  BY <1>1 DEF TypeOK, ApplyGrant, Upserted
<1>6. \A u \in Users \ {r.to} : View(u)' = View(u)
  <2>1. \A u \in Users \ {r.to} : matrix'[u] = matrix[u]
    BY DEF ApplyGrant, TypeOK
  <2> QED
    BY <2>1 DEF View
<1>7. r.to \in Stale(p)'
  BY <1>1, <1>3 DEF Stale, Changed, Snapshotting, InCall
<1>8. FreshElsewhere'
  BY <1>1, <1>2, <1>3, <1>6, <1>7 DEF SerialInv, FreshElsewhere
<1>9. \A m \in DOMAIN r.perms : ~ IsOwner(r.by) /\ r.perms[m] # {} =>
         m \in Modules /\ matrix[r.by][m].active
  <2> SUFFICES ASSUME NEW m \in DOMAIN r.perms, ~ IsOwner(r.by), r.perms[m] # {}
               PROVE  m \in Modules /\ matrix[r.by][m].active
    OBVIOUS
  <2>1. m \in Modules
    BY <1>1 DEF Request, PermissionLists
  <2>2. r.perms[m] \subseteq got[p][m] /\ got[p] = View(r.by)
    BY <1>1 DEF MayDelegate, SerialInv, FreshElsewhere
  <2> QED
    BY <2>1, <2>2 DEF View
<1>10. \A u \in Users, m \in Modules : matrix[u][m].active => matrix'[u][m].active
  <2> SUFFICES ASSUME NEW u \in Users, NEW m \in Modules, matrix[u][m].active
               PROVE  matrix'[u][m].active
    OBVIOUS
  <2>1. CASE matrix'[u][m] = matrix[u][m]
    BY <2>1
  <2>2. CASE matrix'[u][m] = Granted(r.perms[m], r.by)
    BY <2>2 DEF Granted
  <2> QED
    BY <1>5, <2>1, <2>2
<1>11. BrokenAreKnown'
  <2> SUFFICES ASSUME NEW u \in Users, NEW m \in Modules,
                      matrix'[u][m].active, matrix'[u][m].actions # {},
                      ~ IsOwner(matrix'[u][m].by)
               PROVE  matrix'[matrix'[u][m].by][m].active
    BY DEF BrokenAreKnown, IsOwner
  <2>1. CASE matrix'[u][m] = matrix[u][m]
    <3>1. matrix[u][m].by \in Users
      BY <2>1 DEF Possession, RowsAreGranted
    <3>2. matrix[matrix[u][m].by][m].active
      BY <1>2, <2>1 DEF SerialInv, BrokenAreKnown
    <3> QED
      BY <1>10, <2>1, <3>1, <3>2
  <2>2. CASE u = r.to /\ m \in DOMAIN r.perms /\ matrix'[u][m] = Granted(r.perms[m], r.by)
    BY <1>1, <1>9, <1>10, <2>2 DEF Granted
  <2> QED
    BY <1>5, <2>1, <2>2
<1> QED
  BY <1>4, <1>8, <1>11 DEF SerialInv

\* A revocation breaks only what its target has granted, and the target is to be visited.
LEMMA RevokeSerial ==
    ASSUME TypeOK, Shape, Possession, SerialInv, NEW p \in Procs, \A q \in Procs : q = p,
           Revoke(p)
    PROVE  SerialInv'
<1> DEFINE r == request[p]
<1>1. /\ r.to \in Users /\ pc[p] = "revoke" /\ r.op = "revoke"
      /\ UNCHANGED <<cache, request, got, found, affected, todo>>
  BY DEF Revoke, Shape, SerialInv, Phases
<1>2. stack[p] = <<>> /\ affected[p] = {} /\ found[p] = {} /\ Stale(p) = {} /\ ToVisit(p) = {}
  BY <1>1 DEF SerialInv, Phases, Changed, Snapshotting, InCall, Stale, ToVisit, Range
<1>3. pc'[p] = "lookup" /\ after'[p] = "snapshot" /\ stack'[p] = <<r.to>>
  BY DEF Revoke, Call, TypeOK
<1>4. Phases'
  BY <1>1, <1>2, <1>3 DEF Phases, Validating, Snapshotting, Changed, InCall
<1>5. \A u \in Users, m \in Modules :
         \/ matrix'[u][m] = matrix[u][m]
         \/ /\ u = r.to /\ m \in r.modules
            /\ matrix'[u][m] = [matrix[u][m] EXCEPT !.active = FALSE]
  BY <1>1 DEF TypeOK, Revoke
<1>6. \A u \in Users \ {r.to} : View(u)' = View(u)
  <2>1. \A u \in Users \ {r.to} : matrix'[u] = matrix[u]
    BY DEF Revoke, TypeOK
  <2> QED
    BY <2>1 DEF View
<1>7. r.to \in Stale(p)'
  BY <1>1, <1>3 DEF Stale, Changed, Snapshotting, InCall
<1>8. FreshElsewhere'
  BY <1>1, <1>2, <1>3, <1>6, <1>7 DEF SerialInv, FreshElsewhere
<1>9. r.to \in ToVisit(p)'
  <2>1. 1 \in DOMAIN stack'[p] /\ stack'[p][1] = r.to
    BY <1>3
  <2> QED
    BY <2>1 DEF ToVisit, Range
<1>10. BrokenAreKnown'
  <2> SUFFICES ASSUME NEW u \in Users, NEW m \in Modules,
                      matrix'[u][m].active = TRUE, matrix'[u][m].actions # {},
                      ~ IsOwner(matrix'[u][m].by)
               PROVE  \/ matrix'[matrix'[u][m].by][m].active
                      \/ m \in r.modules /\ matrix'[u][m].by \in ToVisit(p)'
    BY <1>1 DEF BrokenAreKnown, IsOwner
  <2>1. matrix'[u][m] = matrix[u][m]
    <3>1. [matrix[u][m] EXCEPT !.active = FALSE].active = FALSE
      BY RevokedRow DEF TypeOK
    <3> QED
      BY <1>5, <3>1
  <2>2. matrix[u][m].by \in Users /\ matrix[matrix[u][m].by][m].active
    BY <1>2, <2>1 DEF SerialInv, BrokenAreKnown, Possession, RowsAreGranted
  <2>3. CASE matrix'[matrix[u][m].by][m] = matrix[matrix[u][m].by][m]
    BY <2>1, <2>2, <2>3
  <2>4. CASE matrix[u][m].by = r.to /\ m \in r.modules
    BY <1>9, <2>1, <2>4
  <2> QED
    BY <1>5, <2>2, <2>3, <2>4
<1> QED
  BY <1>4, <1>8, <1>10 DEF SerialInv

LEMMA SnapshotSerial ==
    ASSUME TypeOK, Shape, SerialInv, NEW p \in Procs, \A q \in Procs : q = p, Snapshot(p)
    PROVE  SerialInv'
<1>1. /\ pc[p] = "snapshot" /\ request[p].op \in {"grant", "revoke"}
      /\ UNCHANGED <<matrix, cache, request, got, stack, found, affected>>
      /\ Changed(p) /\ Snapshotting(p) /\ found[p] = {}
  BY DEF Snapshot, SerialInv, Phases, Changed, Snapshotting
<1>2. \/ pc'[p] = "invalidate" /\ request[p].op = "grant" /\ UNCHANGED todo
      \/ pc'[p] = "cascade" /\ request[p].op = "revoke" /\ affected[p] = {} /\ UNCHANGED todo
      \/ pc'[p] = "bulk" /\ request[p].op = "revoke" /\ todo'[p] = affected[p]
      \/ pc'[p] = "lookup" /\ after'[p] = "snapshot" /\ request[p].op = "revoke"
  BY <1>1 DEF Snapshot, AfterSnapshot, Call, TypeOK
<1>3. Phases'
  BY <1>1, <1>2 DEF SerialInv, Phases, Validating, Snapshotting, Changed, InCall
<1>4. Stale(p)' = Stale(p)
  BY <1>1, <1>2 DEF Stale, Changed, Snapshotting, InCall
<1>5. FreshElsewhere'
  <2>1. pc'[p] \in {"invalidate", "cascade", "bulk", "lookup"} /\ \A u \in Users : View(u)' = View(u)
    BY <1>1, <1>2 DEF View
  <2> QED
    BY <1>1, <1>4, <2>1 DEF SerialInv, FreshElsewhere
<1>6. BrokenAreKnown'
  BY <1>1 DEF SerialInv, BrokenAreKnown, IsOwner, ToVisit
<1> QED
  BY <1>3, <1>5, <1>6 DEF SerialInv

\* A visit takes all rows the visited user has granted in hand.
LEMMA CascadeSerial ==
    ASSUME TypeOK, Shape, SerialInv, NEW p \in Procs, \A q \in Procs : q = p, Cascade(p)
    PROVE  SerialInv'
<1>1. /\ pc[p] = "cascade" /\ request[p].op = "revoke" /\ stack[p] # <<>>
      /\ UNCHANGED <<matrix, cache, request, target, after, got, affected, todo>>
      /\ affected[p] = {} /\ found[p] = {}
  BY DEF Cascade, SerialInv, Phases, Snapshotting, InCall, db
<1>2. /\ found'[p] = SubordinateRows(Head(stack[p]), request[p].modules)
      /\ stack'[p] = Tail(stack[p])
      /\ pc'[p] = IF found'[p] = {} THEN "cascade" ELSE "cascadeTx"
  BY DEF Cascade, TypeOK
<1>3. Phases'
  BY <1>1, <1>2 DEF SerialInv, Phases, Validating, Snapshotting, Changed, InCall, SubordinateRows
<1>4. Stale(p)' = Stale(p)
  BY <1>1, <1>2 DEF Stale, Changed, Snapshotting, InCall
<1>5. FreshElsewhere'
  <2>1. pc'[p] \in {"cascade", "cascadeTx"} /\ \A u \in Users : View(u)' = View(u)
    BY <1>1, <1>2 DEF View
  <2> QED
    BY <1>1, <1>4, <2>1 DEF SerialInv, FreshElsewhere
<1>6. ToVisit(p) \subseteq {Head(stack[p])} \cup ToVisit(p)'
  <2>1. stack[p] \in Seq(Users)
    BY DEF TypeOK
  <2>2. Range(stack[p]) \subseteq {Head(stack[p])} \cup Range(Tail(stack[p]))
    BY <1>1, <2>1, TailSet
  <2>3. ToVisit(p)' = Range(Tail(stack[p])) \cup affected[p]
    BY <1>1, <1>2 DEF ToVisit
  <2> QED
    BY <2>2, <2>3 DEF ToVisit
<1>7. BrokenAreKnown'
  <2> SUFFICES ASSUME NEW u \in Users, NEW m \in Modules,
                      matrix[u][m].active, matrix[u][m].actions # {},
                      ~ IsOwner(matrix[u][m].by), ~ matrix[matrix[u][m].by][m].active
               PROVE  /\ m \in request[p].modules
                      /\ matrix[u][m].by \in ToVisit(p)' \/ <<u, m>> \in found'[p]
    BY <1>1 DEF BrokenAreKnown, IsOwner
  <2>1. m \in request[p].modules /\ matrix[u][m].by \in ToVisit(p)
    BY <1>1 DEF SerialInv, BrokenAreKnown
  <2>2. CASE matrix[u][m].by = Head(stack[p])
    BY <1>2, <2>1, <2>2 DEF SubordinateRows
  <2> QED
    BY <1>6, <2>1, <2>2
<1> QED
  BY <1>3, <1>5, <1>7 DEF SerialInv

\* The rows in hand are revoked, and whoever held one is to be visited.
LEMMA CascadeTxSerial ==
    ASSUME TypeOK, Shape, Possession, SerialInv, NEW p \in Procs, \A q \in Procs : q = p,
           CascadeTx(p)
    PROVE  SerialInv'
<1>1. /\ pc[p] = "cascadeTx" /\ request[p].op = "revoke"
      /\ UNCHANGED <<cache, request, got, stack>>
      /\ affected[p] = {} /\ found[p] \subseteq Users \X request[p].modules
  BY DEF CascadeTx, SerialInv, Phases, Snapshotting, InCall
<1>2. /\ pc'[p] = "lookup" /\ after'[p] = "snapshot" /\ found'[p] = {}
      /\ affected'[p] = {row[1] : row \in found[p]}
  BY DEF CascadeTx, Call, TypeOK
<1>3. Phases'
  BY <1>1, <1>2 DEF SerialInv, Phases, Validating, Snapshotting, Changed, InCall
<1>4. \A u \in Users, m \in Modules :
         matrix'[u][m] = IF <<u, m>> \in found[p] THEN [matrix[u][m] EXCEPT !.active = FALSE]
                                                  ELSE matrix[u][m]
  BY DEF CascadeTx
<1>5. \A u \in Users, m \in Modules : <<u, m>> \in found[p] => u \in affected'[p]
  BY <1>2
<1>6. \A u \in Users : u \notin affected'[p] => View(u)' = View(u)
  BY <1>4, <1>5 DEF View
<1>7. Stale(p) = {request[p].to} /\ Stale(p)' = {request[p].to} \cup affected'[p]
  BY <1>1, <1>2 DEF Stale, Changed, Snapshotting, InCall
<1>8. FreshElsewhere'
  BY <1>1, <1>2, <1>6, <1>7 DEF SerialInv, FreshElsewhere
<1>9. ToVisit(p)' = ToVisit(p) \cup affected'[p]
  BY <1>1 DEF ToVisit
<1>10. BrokenAreKnown'
  <2> SUFFICES ASSUME NEW u \in Users, NEW m \in Modules,
                      matrix'[u][m].active = TRUE, matrix'[u][m].actions # {},
                      ~ IsOwner(matrix'[u][m].by), ~ matrix'[matrix'[u][m].by][m].active
               PROVE  m \in request[p].modules /\ matrix'[u][m].by \in ToVisit(p)'
    BY <1>1 DEF BrokenAreKnown, IsOwner
  <2>1. matrix'[u][m] = matrix[u][m] /\ <<u, m>> \notin found[p]
    <3>1. [matrix[u][m] EXCEPT !.active = FALSE].active = FALSE
      BY RevokedRow DEF TypeOK
    <3> QED
      BY <1>4, <3>1
  <2>2. PICK g \in Users : g = matrix[u][m].by
    BY <2>1 DEF Possession, RowsAreGranted
  <2>3. CASE <<g, m>> \in found[p]
    BY <1>1, <1>5, <1>9, <2>1, <2>2, <2>3
  <2>4. CASE <<g, m>> \notin found[p]
    <3>1. matrix'[g][m] = matrix[g][m]
      BY <1>4, <2>4
    <3> QED
      BY <1>9, <2>1, <2>2, <3>1 DEF SerialInv, BrokenAreKnown
  <2> QED
    BY <2>3, <2>4
<1> QED
  BY <1>3, <1>8, <1>10 DEF SerialInv

LEMMA BulkSerial ==
    ASSUME TypeOK, Shape, SerialInv, Faults = {}, NEW p \in Procs, \A q \in Procs : q = p,
           BulkInvalidate(p)
    PROVE  SerialInv'
<1>1. PICK u \in todo[p] :
          /\ pc[p] = "bulk"
          /\ InvalidateCache(u)
          /\ todo' = [todo EXCEPT ![p] = todo[p] \ {u}]
          /\ IF todo[p] \ {u} # {}
             THEN UNCHANGED <<pc, stack, affected>>
             ELSE /\ \E order \in SetToSeqs(affected[p]) :
                        stack' = [stack EXCEPT ![p] = VisitNext(order, @)]
                  /\ affected' = [affected EXCEPT ![p] = {}]
                  /\ pc' = [pc EXCEPT ![p] = "cascade"]
          /\ UNCHANGED <<db, request, target, after, got, found, issued>>
  BY DEF BulkInvalidate
<1>2. /\ UNCHANGED <<matrix, request, target, after, got, found>>
      /\ request[p].op = "revoke" /\ u \in Users /\ found[p] = {}
      /\ cache' = [cache EXCEPT ![u] = NoEntry] /\ todo'[p] = todo[p] \ {u}
  BY <1>1 DEF TypeOK, db, SerialInv, Phases, InvalidateCache
<1>3. \/ UNCHANGED <<pc, stack, affected>> /\ pc'[p] = "bulk"
      \/ pc'[p] = "cascade" /\ affected'[p] = {} /\ todo'[p] = {}
  BY <1>1, <1>2 DEF TypeOK
<1>4. ToVisit(p)' = ToVisit(p)
  <2>1. CASE UNCHANGED <<pc, stack, affected>>
    BY <2>1 DEF ToVisit
  <2>2. CASE todo[p] \ {u} = {}
    <3>1. PICK order \in SetToSeqs(affected[p]) :
             stack' = [stack EXCEPT ![p] = VisitNext(order, stack[p])]
      BY <1>1, <2>2
    <3>2. order \in Seq(Users) /\ stack[p] \in Seq(Users)
      BY OrderType DEF TypeOK
    <3>3. Range(order) = affected[p]
      BY OrderComplete DEF TypeOK
    <3>4. stack'[p] = VisitNext(order, stack[p]) /\ affected'[p] = {}
      BY <1>1, <2>2, <3>1 DEF TypeOK
    <3>5. PICK next : next = VisitNext(order, stack[p])
      OBVIOUS
    <3>6. Range(next) = Range(order) \cup Range(stack[p])
      BY <3>2, <3>5, VisitNextSet
    <3>7. ToVisit(p)' = Range(next)
      BY <3>4, <3>5 DEF ToVisit
    <3> QED
      BY <3>3, <3>6, <3>7 DEF ToVisit
  <2> QED
    BY <1>1, <2>1, <2>2
<1>5. Phases'
  BY <1>1, <1>2, <1>3 DEF SerialInv, Phases, Validating, Snapshotting, Changed, InCall
<1>6. Stale(p) \subseteq Stale(p)' \cup {u}
  BY <1>1, <1>2, <1>3 DEF Stale, Changed, Snapshotting, InCall
<1>7. FreshElsewhere'
  <2>1. pc'[p] \in {"bulk", "cascade"} /\ \A v \in Users : View(v)' = View(v)
    BY <1>2, <1>3 DEF View
  <2>2. \A v \in Users \ Stale(p)' : cache'[v] # NoEntry => cache'[v] = View(v)
    BY <1>2, <1>6 DEF SerialInv, FreshElsewhere, TypeOK
  <2> QED
    BY <2>1, <2>2 DEF FreshElsewhere
<1>8. BrokenAreKnown'
  BY <1>2, <1>4 DEF SerialInv, BrokenAreKnown, IsOwner
<1> QED
  BY <1>5, <1>7, <1>8 DEF SerialInv

LEMMA NextSerial ==
    ASSUME Faults = {}, NEW p \in Procs, \A q \in Procs : q = p
    PROVE  IInv /\ SerialInv /\ [Next]_vars => SerialInv'
<1> SUFFICES ASSUME TypeOK, Shape, Possession, SerialInv, [Next]_vars PROVE SerialInv'
  BY DEF IInv
<1>1. CASE BeginRead(p) \/ BeginGrant(p) \/ BeginRevoke(p) \/ Step(p)
  BY <1>1, BeginSerial, ReadStepSerial, EndSerial, GrantSerial, RevokeSerial, SnapshotSerial,
     CascadeSerial, CascadeTxSerial, BulkSerial DEF Step
<1>2. ~ Abort(p)
  BY DEF Abort
<1>3. ASSUME NEW u \in Users, Expire(u) PROVE SerialInv'
  <2>1. /\ UNCHANGED <<matrix, pc, request, target, after, got, stack, found, affected, todo>>
        /\ cache' = [cache EXCEPT ![u] = NoEntry]
    BY <1>3 DEF Expire, db, locals
  <2>2. Phases' /\ BrokenAreKnown'
    BY <2>1 DEF SerialInv, Phases, Validating, Snapshotting, Changed, BrokenAreKnown, ToVisit, IsOwner
  <2>3. Stale(p)' = Stale(p)
    BY <2>1 DEF Stale, Changed, Snapshotting
  <2>4. FreshElsewhere'
    <3>1. \A v \in Users : View(v)' = View(v)
      BY <2>1 DEF View
    <3>2. \A v \in Users : cache'[v] # NoEntry => cache'[v] = cache[v]
      BY <2>1 DEF TypeOK
    <3>3. View(target[p])' = View(target[p])
      BY <2>1 DEF View
    <3> QED
      BY <2>1, <2>3, <3>1, <3>2, <3>3 DEF SerialInv, FreshElsewhere, IsOwner
  <2> QED
    BY <2>2, <2>4 DEF SerialInv
<1>4. CASE UNCHANGED vars
  <2>1. Phases' /\ BrokenAreKnown'
    BY <1>4 DEF vars, SerialInv, Phases, Validating, Snapshotting, Changed, BrokenAreKnown, ToVisit, IsOwner
  <2>2. FreshElsewhere'
    BY <1>4 DEF vars, SerialInv, FreshElsewhere, Stale, Changed, Snapshotting, View, IsOwner
  <2> QED
    BY <2>1, <2>2 DEF SerialInv
<1> QED
  BY <1>1, <1>2, <1>3, <1>4 DEF Next

LEMMA SerialHolds ==
    ASSUME Faults = {}, NEW p \in Procs, \A q \in Procs : q = p
    PROVE  Spec => []SerialInv
<1>1. IInv /\ SerialInv /\ [Next]_vars => SerialInv'
  BY NextSerial
<1> QED
  BY <1>1, InitSerial, IInvInductive, PTL DEF Spec

-----------------------------------------------------------------------------
\* What a grantor with an active row has granted is in that row, or a later
\* grant took it from there.  Nothing is said of grantors without an active row:
\* those are the cascade's (BrokenAreKnown).
Covers(g, m, a) == a \in matrix[g][m].actions \/ <<m, a>> \in narrowed[g]

Covered ==
    \A u \in Users, m \in Modules, a \in Actions :
        /\ matrix[u][m].active /\ a \in matrix[u][m].actions
        /\ matrix[matrix[u][m].by][m].active
        => IsOwner(matrix[u][m].by) \/ Covers(matrix[u][m].by, m, a)

LEMMA InitCovered == Init => Covered
<1> SUFFICES ASSUME Init, NEW u \in Users, NEW m \in Modules, NEW a \in Actions,
                    matrix[u][m].active, a \in matrix[u][m].actions, ~ IsOwner(matrix[u][m].by)
             PROVE  a \in matrix[matrix[u][m].by][m].actions
  BY DEF Covered, Covers
<1> QED
  BY MatrixAssumption DEF Init

\* A revoked row covers nothing any more, and needs no cover.
LEMMA RevokedCovered ==
    ASSUME TypeOK, Shape, Possession, Covered, NEW p \in Procs, Revoke(p) \/ CascadeTx(p)
    PROVE  Covered'
<1>1. ASSUME NEW u \in Users, NEW m \in Modules, matrix'[u][m].active = TRUE
      PROVE  matrix'[u][m] = matrix[u][m] /\ \A a : <<m, a>> \in narrowed[u] => <<m, a>> \in narrowed'[u]
  <2>1. [matrix[u][m] EXCEPT !.active = FALSE].active = FALSE
    BY RevokedRow DEF TypeOK
  <2>2. CASE Revoke(p)
    <3>1. CASE u = request[p].to /\ m \in request[p].modules
      <4>1. matrix'[u][m] = [matrix[u][m] EXCEPT !.active = FALSE]
        BY <2>2, <3>1 DEF TypeOK, Revoke
      <4> QED
        BY <1>1, <2>1, <4>1
    <3>2. CASE ~ (u = request[p].to /\ m \in request[p].modules)
      BY <2>2, <3>2 DEF TypeOK, Revoke
    <3> QED
      BY <3>1, <3>2
  <2>3. CASE CascadeTx(p)
    <3>1. <<u, m>> \notin found[p]
      BY <1>1, <2>1, <2>3 DEF CascadeTx
    <3>2. matrix'[u][m] = matrix[u][m]
      BY <2>3, <3>1 DEF CascadeTx
    <3>3. narrowed'[u] = {pair \in narrowed[u] : <<u, pair[1]>> \notin found[p]}
      BY <2>3 DEF CascadeTx
    <3> QED
      BY <3>1, <3>2, <3>3
  <2> QED
    BY <2>2, <2>3
<1>2. \A u \in Users, m \in Modules : matrix'[u][m] \in Row
  BY NextTypes DEF Next, Step, TypeOK
<1> SUFFICES ASSUME NEW u \in Users, NEW m \in Modules, NEW a \in Actions,
                    matrix'[u][m].active = TRUE, a \in matrix'[u][m].actions,
                    matrix'[matrix'[u][m].by][m].active, ~ IsOwner(matrix'[u][m].by)
             PROVE  a \in matrix'[matrix'[u][m].by][m].actions \/ <<m, a>> \in narrowed'[matrix'[u][m].by]
  BY <1>2 DEF Covered, Covers, IsOwner, Row
<1>3. matrix'[u][m] = matrix[u][m]
  BY <1>1
<1>4. PICK g \in Users : g = matrix[u][m].by
  BY <1>3 DEF Possession, RowsAreGranted
<1>5. matrix'[g][m].active = TRUE
  BY <1>2, <1>3, <1>4 DEF Row
<1>6. matrix'[g][m] = matrix[g][m] /\ \A b : <<m, b>> \in narrowed[g] => <<m, b>> \in narrowed'[g]
  BY <1>1, <1>5
<1>7. a \in matrix[g][m].actions \/ <<m, a>> \in narrowed[g]
  BY <1>3, <1>4, <1>5, <1>6 DEF Covered, Covers
<1> QED
  BY <1>3, <1>4, <1>6, <1>7

\* A grant covers what it lists by the grantor's row of now, and what it takes
\* from its recipient it takes down in narrowed.
LEMMA GrantCovered ==
    ASSUME TypeOK, Shape, Possession, SerialInv, Covered, NEW p \in Procs, \A q \in Procs : q = p,
           ApplyGrant(p)
    PROVE  Covered'
<1>1. PICK r \in Request : r = request[p]
  BY DEF TypeOK
<1>2. /\ r.to \in Users /\ r.by \in Users /\ pc[p] = "apply"
      /\ IsOwner(r.by) \/ target[p] = r.by
      /\ MayDelegate(p)
  BY <1>1 DEF Shape, ApplyGrant
<1>3. ToVisit(p) = {} /\ found[p] = {}
  BY <1>2 DEF SerialInv, Phases, Changed, Snapshotting, InCall, ToVisit, Range
<1>4. \A u \in Users, m \in Modules :
         /\ u = r.to /\ m \in DOMAIN r.perms => matrix'[u][m] = Granted(r.perms[m], r.by)
         /\ ~ (u = r.to /\ m \in DOMAIN r.perms) => matrix'[u][m] = matrix[u][m]
  BY <1>1, <1>2 DEF TypeOK, ApplyGrant, Upserted
<1>5. \A m \in DOMAIN r.perms : m \in Modules /\ r.perms[m] \subseteq Actions
  BY DEF Request, PermissionLists
<1>6. \A u \in Users : u # r.to => narrowed'[u] = narrowed[u]
  BY <1>1 DEF TypeOK, ApplyGrant
<1>7. narrowed'[r.to] = (narrowed[r.to] \cup Overwritten(r)) \ Listed(r)
  BY <1>1, <1>2 DEF TypeOK, ApplyGrant
\* A covering pair of an active row stays covering.
<1>8. ASSUME NEW g \in Users, NEW m \in Modules, NEW a \in Actions,
             matrix[g][m].active, Covers(g, m, a)
      PROVE  a \in matrix'[g][m].actions \/ <<m, a>> \in narrowed'[g]
  <2>1. CASE g = r.to /\ m \in DOMAIN r.perms
    <3>1. matrix'[g][m].actions = r.perms[m]
      <4>1. matrix'[g][m] = Granted(r.perms[m], r.by)
        BY <1>4, <2>1
      <4> QED
        BY <4>1 DEF Granted
    <3>2. CASE a \in r.perms[m]
      BY <3>1, <3>2
    <3>3. CASE a \notin r.perms[m]
      <4>1. <<m, a>> \notin Listed(r)
        BY <3>3 DEF Listed
      <4>2. <<m, a>> \in narrowed[g] \cup Overwritten(r)
        BY <1>8, <2>1 DEF Covers, Overwritten, PairsOf, View
      <4> QED
        BY <1>7, <2>1, <4>1, <4>2
    <3> QED
      BY <3>2, <3>3
  <2>2. CASE g = r.to /\ m \notin DOMAIN r.perms
    <3>1. matrix'[g][m] = matrix[g][m]
      BY <1>4, <2>2
    <3>2. <<m, a>> \notin Listed(r)
      BY <2>2 DEF Listed
    <3> QED
      BY <1>7, <1>8, <2>2, <3>1, <3>2 DEF Covers
  <2>3. CASE g # r.to
    BY <1>4, <1>6, <1>8, <2>3 DEF Covers
  <2> QED
    BY <2>1, <2>2, <2>3
<1> SUFFICES ASSUME NEW u \in Users, NEW m \in Modules, NEW a \in Actions,
                    matrix'[u][m].active, a \in matrix'[u][m].actions,
                    matrix'[matrix'[u][m].by][m].active, ~ IsOwner(matrix'[u][m].by)
             PROVE  a \in matrix'[matrix'[u][m].by][m].actions \/ <<m, a>> \in narrowed'[matrix'[u][m].by]
  BY DEF Covered, Covers, IsOwner
<1>9. CASE u = r.to /\ m \in DOMAIN r.perms
  <2>1. matrix'[u][m].by = r.by /\ matrix'[u][m].actions = r.perms[m]
    <3>1. matrix'[u][m] = Granted(r.perms[m], r.by)
      BY <1>4, <1>9
    <3> QED
      BY <3>1 DEF Granted
  <2>2. r.perms[m] \subseteq got[p][m] /\ got[p] = View(r.by)
    BY <1>1, <1>2, <1>9, <2>1 DEF MayDelegate, SerialInv, FreshElsewhere
  <2>3. a \in View(r.by)[m]
    BY <2>1, <2>2
  <2>4. matrix[r.by][m].active /\ Covers(r.by, m, a)
    BY <2>3 DEF View, Covers
  <2> QED
    BY <1>2, <1>8, <2>1, <2>4
<1>10. CASE ~ (u = r.to /\ m \in DOMAIN r.perms)
  <2>1. matrix'[u][m] = matrix[u][m]
    BY <1>4, <1>10
  <2>2. PICK g \in Users : g = matrix[u][m].by
    BY <2>1 DEF Possession, RowsAreGranted
  <2>3. matrix[g][m].active
    BY <1>3, <2>1, <2>2 DEF SerialInv, BrokenAreKnown
  <2>4. Covers(g, m, a)
    BY <2>1, <2>2, <2>3 DEF Covered
  <2> QED
    BY <1>8, <2>1, <2>2, <2>3, <2>4
<1> QED
  BY <1>9, <1>10

LEMMA NextCovered ==
    ASSUME Faults = {}, NEW p \in Procs, \A q \in Procs : q = p
    PROVE  IInv /\ SerialInv /\ Covered /\ [Next]_vars => Covered'
<1> SUFFICES ASSUME TypeOK, Shape, Possession, SerialInv, Covered, [Next]_vars PROVE Covered'
  BY DEF IInv
<1>1. CASE ApplyGrant(p)
  BY <1>1, GrantCovered
<1>2. CASE Revoke(p) \/ CascadeTx(p)
  BY <1>2, RevokedCovered
<1>3. CASE UNCHANGED <<matrix, narrowed>>
  BY <1>3 DEF Covered, Covers, IsOwner
<1>4. BeginRead(p) \/ BeginGrant(p) \/ BeginRevoke(p) \/ EndRead(p) \/ RefuseGrant(p) \/ Abort(p)
         => UNCHANGED <<matrix, narrowed>>
  BY DEF BeginRead, BeginGrant, BeginRevoke, EndRead, RefuseGrant, Abort, db
<1>5. Lookup(p) \/ Fetch(p) \/ Fill(p) \/ Snapshot(p) \/ Cascade(p) \/ BulkInvalidate(p) \/ Invalidate(p)
         => UNCHANGED <<matrix, narrowed>>
  BY DEF Lookup, Fetch, Fill, Snapshot, Cascade, BulkInvalidate, Invalidate, db
<1>6. (\E u \in Users : Expire(u)) \/ UNCHANGED vars => UNCHANGED <<matrix, narrowed>>
  BY DEF Expire, db, vars
<1> QED
  BY <1>1, <1>2, <1>3, <1>4, <1>5, <1>6 DEF Next, Step

\* One request at a time, while Redis and the database answer, for any users, modules,
\* actions and starting rows: between requests whoever granted an action in force still has
\* it, however far a cascade had to reach, unless a narrower grant took it from the grantor.
THEOREM GoldenRuleHolds ==
    ASSUME Faults = {}, NEW p \in Procs, \A q \in Procs : q = p
    PROVE  Spec => []GoldenRuleAtRest
<1>1. TypeOK /\ Possession /\ SerialInv /\ Covered => GoldenRuleAtRest
  <2> SUFFICES ASSUME TypeOK, Possession, SerialInv, Covered, AtRest,
                      NEW u \in Users, NEW m \in Modules,
                      matrix[u][m].active, ~ IsOwner(matrix[u][m].by),
                      NEW a \in matrix[u][m].actions
               PROVE  a \in View(matrix[u][m].by)[m] \/ <<m, a>> \in narrowed[matrix[u][m].by]
    BY DEF GoldenRuleAtRest
  <2>1. ToVisit(p) = {} /\ found[p] = {}
    <3>1. pc[p] = "idle" /\ ~ Changed(p)
      BY DEF AtRest, Changed, Snapshotting, InCall
    <3> QED
      BY <3>1 DEF SerialInv, Phases, ToVisit, Range
  <2>2. PICK g \in Users : g = matrix[u][m].by
    BY DEF Possession, RowsAreGranted
  <2>3. matrix[g][m].active
    BY <2>1, <2>2 DEF SerialInv, BrokenAreKnown
  <2>4. a \in Actions
    BY DEF TypeOK, Row
  <2>5. Covers(g, m, a)
    BY <2>2, <2>3, <2>4 DEF Covered
  <2> QED
    BY <2>2, <2>3, <2>5 DEF Covers, View
<1>2. Spec => []Covered
  <2>1. IInv /\ SerialInv /\ Covered /\ [Next]_vars => Covered'
    BY NextCovered
  <2> QED
    BY <2>1, InitCovered, SerialHolds, IInvInductive, PTL DEF Spec
<1> QED
  BY <1>1, <1>2, SerialHolds, IInvInductive, PTL DEF IInv

\* Under the same conditions: between requests a cache entry shows the rows of the database.
THEOREM CacheStaysFresh ==
    ASSUME Faults = {}, NEW p \in Procs, \A q \in Procs : q = p
    PROVE  Spec => []CacheFreshAtRest
<1>1. SerialInv => CacheFreshAtRest
  BY DEF SerialInv, FreshElsewhere, Stale, CacheFreshAtRest, AtRest, Changed, Snapshotting, InCall
<1> QED
  BY <1>1, SerialHolds, PTL
=============================================================================
