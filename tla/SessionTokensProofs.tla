------------------------- MODULE SessionTokensProofs -------------------------
(***************************************************************************)
(* That sessions implement the life cycle of sign-ins, and what the guard  *)
(* and the rotation of sessions promise: for any number of users, sessions *)
(* and handlers, or of sessions when requests come one at a time.          *)
(***************************************************************************)
EXTENDS SessionTokens, SequenceTheorems, FiniteSetTheorems, TLAPS

Signing == {"perms", "rotate", "create"}
Admitted == {"blacklisted", "fingerprint", "handle", "blacklist", "revoke"}

\* The requests that may still insert a row, and room for their rows.
Slots == {p \in Procs : handler[p].pc \in Signing}
Roomy == Len(sessions) + Cardinality(Slots) <= MaxSessions

\* What a request knows at each await.
Knows(h) ==
    /\ h.pc \in Signing => h.op \in {"login", "refresh"}
    /\ h.pc = "rotate" => h.op = "refresh"
    /\ h.pc \in Signing /\ h.op = "refresh" =>
         h.sid \in DOMAIN sessions /\ sessions[h.sid].user = h.user
    /\ h.pc \in {"confirm", "revoke"} => h.sid \in DOMAIN sessions
    /\ h.pc \in Admitted => h.token \in delivered /\ sessions[h.token].user = h.user

Requests == \A p \in Procs : Knows(handler[p])

IInv == TypeOK /\ Roomy /\ Requests

-----------------------------------------------------------------------------
(* The table of sessions                                                   *)

LEMMA Table ==
    ASSUME TypeOK
    PROVE  /\ Len(sessions) \in Nat /\ DOMAIN sessions = 1 .. Len(sessions)
           /\ DOMAIN sessions \subseteq Ids
           /\ \A s \in DOMAIN sessions : sessions[s] \in Row
<1>1. /\ sessions \in Seq(Row) /\ Len(sessions) <= MaxSessions /\ MaxSessions \in Nat
  BY BoundAssumption DEF TypeOK
<1> QED
  BY <1>1, LenProperties, ElementOfSeq DEF Ids

\* A revocation changes nothing but the flag.
LEMMA Revoking ==
    ASSUME TypeOK, NEW S, Revoke(S)
    PROVE  /\ sessions' \in Seq(Row) /\ Len(sessions') = Len(sessions)
           /\ DOMAIN sessions' = DOMAIN sessions
           /\ \A s \in DOMAIN sessions :
                /\ sessions'[s].user = sessions[s].user /\ sessions'[s].fp = sessions[s].fp
                /\ sessions'[s].accessExp = sessions[s].accessExp
                /\ sessions'[s].login = sessions[s].login
                /\ sessions'[s].revoked = (s \in S \/ sessions[s].revoked)
<1> DEFINE n == Len(sessions)
<1>1. n \in Nat /\ DOMAIN sessions = 1 .. n /\ \A s \in 1 .. n : sessions[s] \in Row
  BY Table
<1>2. /\ DOMAIN sessions' = 1 .. n
      /\ \A s \in 1 .. n : sessions'[s] = IF s \in S THEN [sessions[s] EXCEPT !.revoked = TRUE]
                                          ELSE sessions[s]
  BY <1>1 DEF Revoke
<1> HIDE DEF n
<1>3. ASSUME NEW s \in 1 .. n
      PROVE  /\ sessions'[s] \in Row
             /\ sessions'[s].user = sessions[s].user /\ sessions'[s].fp = sessions[s].fp
             /\ sessions'[s].accessExp = sessions[s].accessExp
             /\ sessions'[s].login = sessions[s].login
             /\ sessions'[s].revoked = (s \in S \/ sessions[s].revoked)
  BY <1>1, <1>2, <1>3 DEF Row
<1>4. sessions' \in [1 .. n -> Row]
  BY <1>1, <1>2, <1>3 DEF Revoke
<1>5. sessions' \in Seq(Row) /\ Len(sessions') = n
  BY <1>1, <1>2, <1>4
<1> QED
  BY <1>1, <1>2, <1>3, <1>5 DEF n

\* An insert leaves the rows that are there alone.
LEMMA Inserting ==
    ASSUME TypeOK, NEW r \in Row, sessions' = Append(sessions, r)
    PROVE  /\ sessions' \in Seq(Row) /\ Len(sessions') = Len(sessions) + 1
           /\ DOMAIN sessions' = DOMAIN sessions \cup {Len(sessions) + 1}
           /\ Len(sessions) + 1 \notin DOMAIN sessions
           /\ sessions'[Len(sessions) + 1] = r
           /\ \A s \in DOMAIN sessions : sessions'[s] = sessions[s]
<1>1. sessions \in Seq(Row) /\ Len(sessions) \in Nat /\ DOMAIN sessions = 1 .. Len(sessions)
  BY Table DEF TypeOK
<1>2. /\ sessions' \in Seq(Row) /\ Len(sessions') = Len(sessions) + 1
      /\ \A s \in 1 .. Len(sessions) : sessions'[s] = sessions[s]
      /\ sessions'[Len(sessions) + 1] = r
  BY <1>1, AppendProperties
<1>3. DOMAIN sessions' = 1 .. Len(sessions) + 1
  BY <1>2, LenProperties
<1> QED
  BY <1>1, <1>2, <1>3

-----------------------------------------------------------------------------
(* Types, room, and what requests know                                     *)

LEMMA IdleType == Idle \in Handler /\ Idle.pc = "idle" /\ Idle.token = NoSession
<1>1. (CHOOSE u \in Users : TRUE) \in Users /\ (CHOOSE f \in Fingerprints : TRUE) \in Fingerprints
  BY SomeUser
<1> QED
  BY <1>1 DEF Idle, Handler, Steps

LEMMA InitIInv == Init => IInv
<1> SUFFICES ASSUME Init PROVE IInv
  OBVIOUS
<1>1. sessions \in Seq(Row) /\ Len(sessions) = 0
  BY EmptySeq DEF Init
<1>2. TypeOK
  BY <1>1, IdleType, BoundAssumption DEF Init, TypeOK, Ids
<1>3. Slots = {}
  BY IdleType DEF Init, Slots, Signing
<1>4. Roomy
  BY <1>1, <1>3, FS_EmptySet, BoundAssumption DEF Roomy
<1>5. Requests
  BY IdleType DEF Init, Requests, Knows, Signing, Admitted
<1> QED
  BY <1>2, <1>4, <1>5 DEF IInv

\* A step of one request takes no room but by taking a slot, and frees its slot.
LEMMA SlotsOf ==
    ASSUME TypeOK, NEW p \in Procs, NEW h \in Handler, handler' = [handler EXCEPT ![p] = h]
    PROVE  /\ Cardinality(Slots) \in Nat /\ Cardinality(Slots') \in Nat
           /\ p \in Slots \/ h.pc \notin Signing => Cardinality(Slots') <= Cardinality(Slots)
           /\ p \in Slots /\ h.pc \notin Signing => Cardinality(Slots') = Cardinality(Slots) - 1
           /\ Cardinality(Slots') <= Cardinality(Slots) + 1
<1>1. IsFiniteSet(Slots) /\ IsFiniteSet(Slots')
  BY SomeUser, FS_Subset DEF Slots
<1>2. Slots' = IF h.pc \in Signing THEN Slots \cup {p} ELSE Slots \ {p}
  BY DEF Slots, TypeOK
<1>3. Cardinality(Slots) \in Nat /\ Cardinality(Slots') \in Nat
  BY <1>1, FS_CardinalityType
<1>4. /\ Cardinality(Slots \cup {p}) = IF p \in Slots THEN Cardinality(Slots)
                                       ELSE Cardinality(Slots) + 1
      /\ Cardinality(Slots \ {p}) = IF p \in Slots THEN Cardinality(Slots) - 1
                                    ELSE Cardinality(Slots)
  BY <1>1, FS_AddElement, FS_RemoveElement
<1> QED
  BY <1>2, <1>3, <1>4

\* A step of one request that keeps the rows, but for their flags, and the tokens
\* that are out.
LEMMA RequestStep ==
    ASSUME IInv, NEW p \in Procs, NEW h \in Handler, handler' = [handler EXCEPT ![p] = h],
           now' = now, perms' = perms,
           sessions' \in Seq(Row), blacklist' \in [Ids -> Nat],
           DOMAIN sessions \subseteq DOMAIN sessions',
           \A s \in DOMAIN sessions : sessions'[s].user = sessions[s].user,
           delivered \subseteq delivered', delivered' \subseteq DOMAIN sessions',
           loggedOut' \subseteq delivered', attempted' \subseteq delivered',
           h.token \in delivered' \cup {NoSession}, Roomy', Knows(h)'
    PROVE  IInv'
<1>1. \A q \in Procs : handler'[q] = IF q = p THEN h ELSE handler[q]
  BY DEF IInv, TypeOK
<1>2. Cardinality(Slots') \in Nat
  BY SlotsOf DEF IInv
<1>3. Len(sessions') \in Nat /\ Len(sessions') <= MaxSessions
  BY <1>2, LenProperties, BoundAssumption DEF Roomy
<1>4. TypeOK'
  BY <1>1, <1>3 DEF IInv, TypeOK
<1>5. delivered \subseteq DOMAIN sessions
  BY DEF IInv, TypeOK
<1>6. ASSUME NEW q \in Procs, q # p PROVE Knows(handler[q])'
  BY <1>1, <1>5, <1>6 DEF IInv, Requests, Knows
<1>7. Requests'
  BY <1>1, <1>6 DEF Requests, Knows
<1> QED
  BY <1>4, <1>7 DEF IInv

\* Who takes up a login or a refresh has found room for its row.
LEMMA Entering ==
    ASSUME TypeOK, Room, NEW p \in Procs, NEW h \in Handler, handler' = [handler EXCEPT ![p] = h],
           sessions' = sessions
    PROVE  Roomy'
<1>1. Len(sessions) \in Nat
  BY Table
<1>2. /\ Cardinality(Slots) \in Nat /\ Cardinality(Slots') \in Nat
      /\ Cardinality(Slots') <= Cardinality(Slots) + 1
  BY SlotsOf
<1>3. Len(sessions) + Cardinality(Slots) < MaxSessions
  BY DEF Room, Slots, Signing
<1> QED
  BY <1>1, <1>2, <1>3, BoundAssumption DEF Roomy

\* A step that touches no row, and has room if it begins what will insert one.
LEMMA QuietStep ==
    ASSUME IInv, NEW p \in Procs, NEW h \in Handler, handler' = [handler EXCEPT ![p] = h],
           UNCHANGED <<now, perms, sessions, delivered>>,
           blacklist' \in [Ids -> Nat],
           loggedOut' \subseteq delivered, attempted' \subseteq delivered,
           h.token \in delivered \cup {NoSession}, Knows(h),
           Room \/ p \in Slots \/ h.pc \notin Signing
    PROVE  IInv'
<1>1. Roomy'
  <2>1. TypeOK /\ Len(sessions) \in Nat /\ Len(sessions') = Len(sessions)
    BY Table DEF IInv
  <2>2. CASE Room
    BY <2>1, <2>2, Entering
  <2>3. CASE p \in Slots \/ h.pc \notin Signing
    <3>1. /\ Cardinality(Slots) \in Nat /\ Cardinality(Slots') \in Nat
          /\ Cardinality(Slots') <= Cardinality(Slots)
      BY <2>1, <2>3, SlotsOf
    <3>2. Len(sessions) + Cardinality(Slots) <= MaxSessions
      BY DEF IInv, Roomy
    <3> QED
      BY <2>1, <3>1, <3>2, BoundAssumption DEF Roomy
  <2> QED
    BY <2>2, <2>3
<1>2. Knows(h)'
  BY DEF Knows
<1> QED
  BY <1>1, <1>2, RequestStep DEF IInv, TypeOK

\* What the fields of a request under way are.
LEMMA RequestType ==
    ASSUME TypeOK, NEW p \in Procs
    PROVE  /\ handler[p] \in Handler
           /\ \A step \in Steps : [handler[p] EXCEPT !.pc = step] \in Handler
           /\ delivered \subseteq DOMAIN sessions /\ DOMAIN sessions \subseteq Ids
           /\ loggedOut \subseteq delivered /\ attempted \subseteq delivered
           /\ handler[p].token \in delivered \cup {NoSession}
  BY Table DEF TypeOK, Handler

LEMMA FinishStep ==
    ASSUME IInv, NEW p \in Procs, Finish(p),
           UNCHANGED <<now, perms, sessions, delivered>>, blacklist' \in [Ids -> Nat],
           loggedOut' \subseteq delivered, attempted' \subseteq delivered
    PROVE  IInv'
<1>1. Idle \in Handler /\ Idle.token = NoSession /\ Idle.pc \notin Signing /\ Knows(Idle)
  BY IdleType DEF Knows, Signing, Admitted
<1> QED
  BY <1>1, QuietStep DEF Finish

LEMMA GotoStep ==
    ASSUME IInv, NEW p \in Procs, NEW step \in Steps \ (Signing \cup {"confirm"}), Goto(p, step),
           handler[p].pc \in Admitted,
           step = "revoke" => handler[p].sid \in DOMAIN sessions,
           UNCHANGED <<now, perms, sessions, delivered>>, blacklist' \in [Ids -> Nat],
           loggedOut' \subseteq delivered, attempted' \subseteq delivered
    PROVE  IInv'
<1> DEFINE h == [handler[p] EXCEPT !.pc = step]
<1>1. /\ h \in Handler /\ h.pc = step /\ h.token = handler[p].token
      /\ h.sid = handler[p].sid /\ h.user = handler[p].user
      /\ h.token \in delivered \cup {NoSession}
  BY RequestType DEF IInv, Handler
<1>2. handler' = [handler EXCEPT ![p] = h]
  BY DEF Goto
<1> HIDE DEF h
<1>3. handler[p].token \in delivered /\ sessions[handler[p].token].user = handler[p].user
  BY DEF IInv, Requests, Knows
<1>4. Knows(h)
  BY <1>1, <1>3 DEF Knows, Signing
<1> QED
  BY <1>1, <1>2, <1>4, QuietStep

LEMMA LoginStep == ASSUME IInv, NEW p \in Procs, NEW u \in Users, Login(p, u) PROVE IInv'
<1> DEFINE h == [Idle EXCEPT !.op = "login", !.user = u, !.pc = "perms"]
<1>1. h \in Handler /\ h.pc = "perms" /\ h.op = "login" /\ h.token = NoSession
  BY IdleType DEF Login, Handler, Steps
<1>2. handler' = [handler EXCEPT ![p] = h] /\ Room
  BY DEF Login
<1> HIDE DEF h
<1>3. Knows(h)
  BY <1>1 DEF Knows, Signing, Admitted
<1>4. UNCHANGED <<now, sessions, blacklist, perms, delivered, history>>
  BY DEF Login
<1> QED
  BY <1>1, <1>2, <1>3, <1>4, QuietStep DEF IInv, TypeOK, history

LEMMA RefreshStep ==
    ASSUME IInv, NEW p \in Procs, NEW s \in delivered, Refresh(p, s) PROVE IInv'
<1> DEFINE h == [Idle EXCEPT !.op = "refresh", !.user = sessions[s].user, !.sid = s, !.pc = "perms"]
<1>1. s \in DOMAIN sessions /\ s \in Ids /\ sessions[s].user \in Users
  BY Table DEF IInv, TypeOK, Row
<1>2. /\ h \in Handler /\ h.pc = "perms" /\ h.op = "refresh" /\ h.token = NoSession
      /\ h.sid = s /\ h.user = sessions[s].user
  BY <1>1, IdleType DEF Refresh, Handler, Steps
<1>3. handler' = [handler EXCEPT ![p] = h] /\ Room
  BY DEF Refresh
<1> HIDE DEF h
<1>4. Knows(h)
  BY <1>1, <1>2 DEF Knows, Admitted
<1>5. UNCHANGED <<now, sessions, blacklist, perms, delivered, history>>
  BY DEF Refresh
<1> QED
  BY <1>2, <1>3, <1>4, <1>5, QuietStep DEF IInv, TypeOK, history

LEMMA ReadPermissionsStep ==
    ASSUME IInv, NEW p \in Procs, ReadPermissions(p) PROVE IInv'
<1> DEFINE g == handler[p]
           next == IF g.op = "login" THEN "create" ELSE "rotate"
           h == [g EXCEPT !.fp = perms[g.user], !.accessExp = now + AccessLife,
                          !.expiresAt = now + RefreshLife, !.pc = next]
<1>1. /\ g \in Handler /\ g.pc = "perms" /\ g.user \in Users /\ perms[g.user] \in Fingerprints
      /\ now + AccessLife \in Nat /\ now + RefreshLife \in Nat
      /\ g.token \in delivered \cup {NoSession}
  BY LifeAssumption DEF IInv, TypeOK, ReadPermissions, At, Handler
<1>2. /\ h \in Handler /\ h.pc = next /\ h.op = g.op /\ h.token = g.token
      /\ h.sid = g.sid /\ h.user = g.user
  BY <1>1 DEF Handler, Steps
<1>3. handler' = [handler EXCEPT ![p] = h]
  BY DEF ReadPermissions
<1>4. Knows(g)
  BY DEF IInv, Requests
<1> HIDE DEF g, h
<1>5. Knows(h)
  BY <1>1, <1>2, <1>4 DEF Knows, Signing, Admitted
<1>6. p \in Slots
  BY <1>1 DEF Slots, Signing, g
<1>7. UNCHANGED <<now, sessions, blacklist, perms, delivered, history>>
  BY DEF ReadPermissions
<1> QED
  BY <1>1, <1>2, <1>3, <1>5, <1>6, <1>7, QuietStep DEF IInv, TypeOK, history

\* What a revocation of rows needs besides the request's own step.
LEMMA RevokeStep ==
    ASSUME IInv, NEW p \in Procs, NEW h \in Handler, handler' = [handler EXCEPT ![p] = h],
           NEW S, Revoke(S),
           UNCHANGED <<now, perms, blacklist, delivered, loggedOut, attempted>>,
           h.token \in delivered \cup {NoSession}, Knows(h),
           p \in Slots \/ h.pc \notin Signing
    PROVE  IInv'
<1>1. /\ sessions' \in Seq(Row) /\ Len(sessions') = Len(sessions)
      /\ DOMAIN sessions' = DOMAIN sessions
      /\ \A s \in DOMAIN sessions : sessions'[s].user = sessions[s].user
  BY Revoking DEF IInv
<1>2. Roomy'
  <2>1. TypeOK /\ Len(sessions) \in Nat
    BY Table DEF IInv
  <2>2. /\ Cardinality(Slots) \in Nat /\ Cardinality(Slots') \in Nat
        /\ Cardinality(Slots') <= Cardinality(Slots)
    BY <2>1, SlotsOf
  <2>3. Len(sessions) + Cardinality(Slots) <= MaxSessions
    BY DEF IInv, Roomy
  <2> QED
    BY <1>1, <2>1, <2>2, <2>3, BoundAssumption DEF Roomy
<1>3. /\ blacklist' \in [Ids -> Nat] /\ delivered \subseteq DOMAIN sessions
      /\ loggedOut \subseteq delivered /\ attempted \subseteq delivered
  BY DEF IInv, TypeOK
<1>4. Knows(h)'
  BY <1>1, <1>3 DEF Knows
<1> QED
  BY <1>1, <1>2, <1>3, <1>4, RequestStep

LEMMA RevokeOldStep ==
    ASSUME IInv, NEW p \in Procs, RevokeOld(p) PROVE IInv'
<1> DEFINE g == handler[p]
           h == [g EXCEPT !.pc = "create", !.expiresAt = now + RefreshLife]
<1>1. g \in Handler /\ g.pc = "rotate" /\ now + RefreshLife \in Nat
      /\ g.token \in delivered \cup {NoSession} /\ Knows(g)
  BY LifeAssumption DEF IInv, TypeOK, RevokeOld, At, Requests
<1>2. /\ h \in Handler /\ h.pc = "create" /\ h.op = g.op /\ h.token = g.token
      /\ h.sid = g.sid /\ h.user = g.user
  BY <1>1 DEF Handler, Steps
<1>3. handler' = [handler EXCEPT ![p] = h]
  BY DEF RevokeOld, IInv, TypeOK
<1> HIDE DEF h
<1>4. Knows(h)
  BY <1>1, <1>2 DEF Knows, Signing, Admitted
<1>5. p \in Slots
  BY <1>1 DEF Slots, Signing
<1>6. Revoke({g.sid}) /\ UNCHANGED <<now, blacklist, perms, delivered, history>>
  BY DEF RevokeOld
<1> HIDE DEF g
<1> QED
  BY <1>1, <1>2, <1>3, <1>4, <1>5, <1>6, RevokeStep DEF history

LEMMA RevokeAndFinish ==
    ASSUME IInv, NEW p \in Procs, NEW S, Revoke(S), Finish(p),
           UNCHANGED <<now, perms, blacklist, delivered, loggedOut, attempted>>
    PROVE  IInv'
<1>1. Idle \in Handler /\ Idle.token = NoSession /\ Idle.pc \notin Signing /\ Knows(Idle)
  BY IdleType DEF Knows, Signing, Admitted
<1> QED
  BY <1>1, RevokeStep DEF Finish

LEMMA CreateSessionStep ==
    ASSUME IInv, NEW p \in Procs, CreateSession(p) PROVE IInv'
<1> DEFINE g == handler[p]
           id == Len(sessions) + 1
           r == [user |-> g.user, fp |-> g.fp, accessExp |-> g.accessExp,
                 expiresAt |-> g.expiresAt, revoked |-> FALSE,
                 login |-> IF g.op = "login" THEN id ELSE LoginOf(g.sid)]
           n == Cardinality(Slots)
<1>1. g \in Handler /\ g.pc = "create" /\ Knows(g) /\ p \in Slots
  BY DEF IInv, TypeOK, CreateSession, At, Requests, Slots, Signing
<1>2. g.op \in {"login", "refresh"} /\ (g.op = "refresh" => g.sid \in DOMAIN sessions)
  BY <1>1 DEF Knows, Signing
<1>3. n \in Nat /\ n > 0 /\ Len(sessions) \in Nat /\ Len(sessions) + n <= MaxSessions
  <2>1. IsFiniteSet(Slots) /\ Slots # {}
    BY <1>1, SomeUser, FS_Subset DEF Slots
  <2> QED
    BY <2>1, FS_CardinalityType, FS_EmptySet, Table DEF IInv, Roomy
<1>4. id \in Ids
  BY <1>3, BoundAssumption DEF Ids
<1>5. r \in Row
  BY <1>1, <1>2, <1>4, Table DEF IInv, Row, Handler, LoginOf
<1>6. sessions' = Append(sessions, r) /\ UNCHANGED <<now, blacklist, perms, history>>
  BY DEF CreateSession
<1>7. /\ sessions' \in Seq(Row) /\ Len(sessions') = Len(sessions) + 1
      /\ DOMAIN sessions' = DOMAIN sessions \cup {id}
      /\ \A s \in DOMAIN sessions : sessions'[s] = sessions[s]
  BY <1>5, <1>6, Inserting DEF IInv
<1>8. /\ blacklist' \in [Ids -> Nat] /\ delivered \subseteq DOMAIN sessions
      /\ loggedOut' \subseteq delivered /\ attempted' \subseteq delivered
  BY <1>6 DEF IInv, TypeOK, history
<1>9. ASSUME NEW h \in Handler, handler' = [handler EXCEPT ![p] = h], h.pc \notin Signing
      PROVE  Roomy'
  <2>1. Cardinality(Slots') = n - 1
    BY <1>1, <1>9, SlotsOf DEF IInv
  <2> QED
    BY <1>3, <1>7, <2>1 DEF Roomy
<1> HIDE DEF r, n
<1>10. CASE g.op = "login"
  <2>1. Finish(p) /\ delivered' = delivered \cup {id}
    BY <1>10 DEF CreateSession
  <2>2. /\ Idle \in Handler /\ Idle.token \in delivered' \cup {NoSession}
        /\ Idle.pc \notin Signing /\ Knows(Idle)'
    BY IdleType DEF Knows, Signing, Admitted
  <2>3. handler' = [handler EXCEPT ![p] = Idle] /\ Roomy'
    BY <1>9, <2>1, <2>2 DEF Finish
  <2>4. /\ delivered \subseteq delivered' /\ delivered' \subseteq DOMAIN sessions'
        /\ loggedOut' \subseteq delivered' /\ attempted' \subseteq delivered'
    BY <1>7, <1>8, <2>1
  <2> QED
    BY <1>6, <1>7, <1>8, <2>2, <2>3, <2>4, RequestStep
<1>11. CASE g.op # "login"
  <2> DEFINE k == [g EXCEPT !.pc = "confirm", !.sid = id]
  <2>1. handler' = [handler EXCEPT ![p] = k] /\ delivered' = delivered
    BY <1>11 DEF CreateSession, IInv, TypeOK
  <2>2. k \in Handler /\ k.pc = "confirm" /\ k.sid = id /\ k.token = g.token
    BY <1>1, <1>4 DEF Handler, Steps
  <2> HIDE DEF k
  <2>3. PICK h \in Handler : h = k
    BY <2>2
  <2>4. Knows(h)'
    BY <1>7, <2>2, <2>3 DEF Knows, Signing, Admitted
  <2>5. h.token \in delivered' \cup {NoSession}
    BY <2>1, <2>2, <2>3, RequestType DEF IInv
  <2>6. handler' = [handler EXCEPT ![p] = h] /\ Roomy'
    BY <1>9, <2>1, <2>2, <2>3 DEF Signing
  <2>7. /\ delivered \subseteq delivered' /\ delivered' \subseteq DOMAIN sessions'
        /\ loggedOut' \subseteq delivered' /\ attempted' \subseteq delivered'
    BY <1>7, <1>8, <2>1
  <2> QED
    BY <1>6, <1>7, <1>8, <2>4, <2>5, <2>6, <2>7, RequestStep
<1> QED
  BY <1>10, <1>11

LEMMA ConfirmStep == ASSUME IInv, NEW p \in Procs, Confirm(p) PROVE IInv'
<1>1. handler[p].sid \in DOMAIN sessions
  BY DEF IInv, Requests, Knows, Confirm, At
<1>2. /\ delivered \subseteq delivered' /\ delivered' \subseteq DOMAIN sessions
      /\ Finish(p) /\ UNCHANGED <<now, sessions, blacklist, perms, history>>
  BY <1>1, RequestType DEF IInv, Confirm
<1>3. /\ Idle \in Handler /\ Idle.token = NoSession /\ Idle.pc \notin Signing
      /\ Knows(Idle)' /\ handler' = [handler EXCEPT ![p] = Idle]
  BY <1>2, IdleType DEF Knows, Signing, Admitted, Finish
<1>4. Roomy'
  <2>1. TypeOK /\ Len(sessions) \in Nat /\ Len(sessions') = Len(sessions)
    BY <1>2, Table DEF IInv
  <2>2. /\ Cardinality(Slots) \in Nat /\ Cardinality(Slots') \in Nat
        /\ Cardinality(Slots') <= Cardinality(Slots)
    BY <1>3, <2>1, SlotsOf
  <2>3. Len(sessions) + Cardinality(Slots) <= MaxSessions
    BY DEF IInv, Roomy
  <2> QED
    BY <2>1, <2>2, <2>3, BoundAssumption DEF Roomy
<1> QED
  BY <1>2, <1>3, <1>4, RequestStep DEF IInv, TypeOK, history

LEMMA AuthenticateStep ==
    ASSUME IInv, NEW p \in Procs, NEW op \in Ops, NEW t \in delivered,
           NEW s \in DOMAIN sessions \cup {NoSession}, Authenticate(p, op, t, s)
    PROVE  IInv'
<1> DEFINE h == [Idle EXCEPT !.op = op, !.user = sessions[t].user, !.token = t, !.sid = s,
                             !.late = t \in loggedOut,
                             !.outdated = perms[sessions[t].user] # sessions[t].fp,
                             !.pc = "blacklisted"]
<1>1. t \in Ids /\ s \in Ids \cup {NoSession} /\ sessions[t].user \in Users
  BY Table DEF IInv, TypeOK, Row
<1>2. (t \in loggedOut) \in BOOLEAN /\ (perms[sessions[t].user] # sessions[t].fp) \in BOOLEAN
  OBVIOUS
<1>3. /\ h \in Handler /\ h.pc = "blacklisted" /\ h.token = t /\ h.user = sessions[t].user
  BY <1>1, <1>2, IdleType DEF Handler, Steps
<1>4. handler' = [handler EXCEPT ![p] = h]
  BY DEF Authenticate
<1> HIDE DEF h
<1>5. Knows(h) /\ h.pc \notin Signing /\ h.token \in delivered \cup {NoSession}
  BY <1>3 DEF Knows, Signing
<1>6. UNCHANGED <<now, sessions, blacklist, perms, delivered, history>>
  BY DEF Authenticate
<1> QED
  BY <1>3, <1>4, <1>5, <1>6, QuietStep DEF IInv, TypeOK, history

\* The steps of the guard, and of a request it has admitted, that touch no row.
LEMMA GuardStep ==
    ASSUME IInv, NEW p \in Procs,
           \/ CheckBlacklist(p) \/ CheckFingerprint(p) \/ Access(p)
           \/ BlacklistToken(p) \/ ListSessions(p)
    PROVE  IInv'
<1> DEFINE h == handler[p]
<1>1. h.pc \in {"blacklisted", "fingerprint", "handle", "blacklist"}
  BY DEF CheckBlacklist, CheckFingerprint, Access, BlacklistToken, ListSessions, At, Handling
<1>2. h.token \in delivered /\ h.token \in Ids /\ h.token \in DOMAIN sessions
      /\ sessions[h.token].accessExp \in Nat
  BY <1>1, Table DEF IInv, Requests, Knows, Admitted, TypeOK, Row
<1>3. UNCHANGED <<now, perms, sessions, delivered>>
  BY DEF CheckBlacklist, CheckFingerprint, Access, BlacklistToken, ListSessions, history
<1>4. loggedOut' \subseteq delivered /\ attempted' \subseteq delivered
  BY <1>2 DEF IInv, TypeOK, CheckBlacklist, CheckFingerprint, Access, BlacklistToken,
              ListSessions, history
<1>5. blacklist' \in [Ids -> Nat]
  <2>1. CASE BlacklistToken(p)
    <3>1. blacklist \in [Ids -> Nat] /\ now \in Nat
      BY DEF IInv, TypeOK
    <3>2. now + Ttl(h.token) \in Nat
      BY <1>2, <3>1 DEF Ttl
    <3> QED
      BY <1>2, <2>1, <3>1, <3>2 DEF BlacklistToken
  <2>2. CASE ~ BlacklistToken(p)
    BY <2>2 DEF IInv, TypeOK, CheckBlacklist, CheckFingerprint, Access, ListSessions
  <2> QED
    BY <2>1, <2>2
<1>6. \/ Finish(p) \/ Goto(p, "fingerprint") \/ Goto(p, "handle")
      \/ Goto(p, "revoke") /\ h.sid \in DOMAIN sessions
  BY DEF CheckBlacklist, CheckFingerprint, Access, BlacklistToken, ListSessions, OwnSessions
<1>7. CASE Finish(p)
  BY <1>3, <1>4, <1>5, <1>7, FinishStep
<1>8. CASE Goto(p, "fingerprint") \/ Goto(p, "handle")
  BY <1>1, <1>3, <1>4, <1>5, <1>8, GotoStep DEF Admitted, Signing, Steps
<1>9. CASE Goto(p, "revoke") /\ h.sid \in DOMAIN sessions
  BY <1>1, <1>3, <1>4, <1>5, <1>9, GotoStep DEF Admitted, Signing, Steps
<1> QED
  BY <1>6, <1>7, <1>8, <1>9

LEMMA LogoutRevokeStep ==
    ASSUME IInv, NEW p \in Procs, LogoutRevoke(p) PROVE IInv'
<1> DEFINE s == CurrentSession(p)
           h == [handler[p] EXCEPT !.pc = "blacklist"]
<1>1. handler[p] \in Handler /\ handler[p].pc = "handle" /\ Knows(handler[p])
  BY DEF LogoutRevoke, Handling, At, IInv, TypeOK, Requests
<1>2. UNCHANGED <<now, perms, blacklist, delivered, loggedOut, attempted>>
  BY DEF LogoutRevoke
<1>3. CASE s \in DOMAIN sessions
  <2>1. Revoke({s}) /\ handler' = [handler EXCEPT ![p] = h]
    BY <1>3 DEF LogoutRevoke, Goto
  <2>2. /\ h \in Handler /\ h.pc = "blacklist" /\ h.token = handler[p].token
        /\ h.user = handler[p].user
    BY <1>1 DEF Handler, Steps
  <2> HIDE DEF h, s
  <2>3. Knows(h) /\ h.pc \notin Signing /\ h.token \in delivered \cup {NoSession}
    BY <1>1, <2>2 DEF Knows, Signing, Admitted
  <2> QED
    BY <1>2, <2>1, <2>2, <2>3, RevokeStep
<1>4. CASE s \notin DOMAIN sessions
  BY <1>2, <1>4, FinishStep DEF LogoutRevoke, IInv, TypeOK
<1> QED
  BY <1>3, <1>4

LEMMA RevokingStep ==
    ASSUME IInv, NEW p \in Procs, RevokeSession(p) \/ RevokeAll(p) \/ ChangePassword(p)
    PROVE  IInv'
<1>1. PICK S : Revoke(S)
  BY DEF RevokeSession, RevokeAll, ChangePassword, RevokeAllUserSessions
<1>2. Finish(p) /\ UNCHANGED <<now, perms, blacklist, delivered, loggedOut, attempted>>
  BY DEF RevokeSession, RevokeAll, ChangePassword, RevokeAllUserSessions
<1> QED
  BY <1>1, <1>2, RevokeAndFinish

LEMMA EnvironmentStep ==
    ASSUME IInv, \/ \E u \in Users, f \in Fingerprints : PermissionsChange(u, f)
                 \/ Tick \/ UNCHANGED vars
    PROVE  IInv'
<1>1. /\ sessions' = sessions /\ delivered' = delivered /\ blacklist' = blacklist
      /\ loggedOut' = loggedOut /\ attempted' = attempted
      /\ now' \in Nat /\ perms' \in [Users -> Fingerprints]
  BY DEF IInv, TypeOK, PermissionsChange, Tick, vars, history
<1>2. ASSUME NEW p \in Procs
      PROVE  /\ handler'[p] \in Handler /\ handler'[p].pc = handler[p].pc
             /\ handler'[p].op = handler[p].op /\ handler'[p].user = handler[p].user
             /\ handler'[p].sid = handler[p].sid /\ handler'[p].token = handler[p].token
  <2>1. handler[p] \in Handler
    BY DEF IInv, TypeOK
  <2>2. CASE \E u \in Users, f \in Fingerprints : PermissionsChange(u, f)
    <3>1. PICK b \in BOOLEAN : handler'[p] = [handler[p] EXCEPT !.outdated = b]
      BY <2>1, <2>2 DEF PermissionsChange, Handler
    <3> QED
      BY <2>1, <3>1 DEF Handler
  <2>3. CASE Tick \/ UNCHANGED vars
    BY <2>1, <2>3 DEF Tick, vars
  <2> QED
    BY <2>2, <2>3
<1>3. handler' \in [Procs -> Handler]
  <2>1. \E F : handler' = [q \in Procs |-> F[q]]
    BY DEF IInv, TypeOK, PermissionsChange, Tick, vars
  <2> QED
    BY <1>2, <2>1
<1>4. TypeOK'
  BY <1>1, <1>2, <1>3 DEF IInv, TypeOK
<1>5. Roomy'
  <2>1. Slots' = Slots
    BY <1>2 DEF Slots
  <2> QED
    BY <1>1, <2>1 DEF IInv, Roomy
<1>6. Requests'
  BY <1>1, <1>2 DEF IInv, Requests, Knows
<1> QED
  BY <1>4, <1>5, <1>6 DEF IInv

LEMMA AbortStep == ASSUME IInv, NEW p \in Procs, Abort(p) PROVE IInv'
  BY FinishStep DEF Abort, IInv, TypeOK, history

LEMMA IInvInductive == IInv /\ [Next]_vars => IInv'
<1> SUFFICES ASSUME IInv, [Next]_vars PROVE IInv'
  OBVIOUS
<1>1. ASSUME NEW p \in Procs, Request(p) PROVE IInv'
  BY <1>1, LoginStep, RefreshStep, AuthenticateStep DEF Request
<1>2. ASSUME NEW p \in Procs, Step(p) PROVE IInv'
  BY <1>2, ReadPermissionsStep, RevokeOldStep, CreateSessionStep, ConfirmStep, GuardStep,
     LogoutRevokeStep, RevokingStep DEF Step
<1> QED
  BY <1>1, <1>2, AbortStep, EnvironmentStep DEF Next

LEMMA Invariance == Spec => []IInv
  BY InitIInv, IInvInductive, PTL DEF Spec

\* The state is well typed, the table never outgrows its bound, and a token is delivered
\* only once its row is stored (createSession, token.service.ts), for any number of handlers.
THEOREM TypeCorrect == Spec => []TypeOK
<1>1. IInv => TypeOK
  BY DEF IInv
<1> QED
  BY <1>1, Invariance, PTL

-----------------------------------------------------------------------------
(* The guard                                                               *)

\* A token that was logged out is on the blacklist for as long as it lives.
Listed == \A t \in loggedOut : sessions[t].accessExp <= now \/ sessions[t].accessExp <= blacklist[t]

\* What the guard knows of a token that was logged out before the request came in.
LateKnown ==
    \A p \in Procs : handler[p].late =>
        /\ At(p, "blacklisted") => handler[p].token \in loggedOut
        /\ handler[p].pc \in {"fingerprint", "handle"} =>
             sessions[handler[p].token].accessExp <= now

\* What it knows of one whose permissions were superseded.
OutdatedKnown ==
    \A p \in Procs : handler[p].outdated =>
        /\ handler[p].pc \in {"blacklisted", "fingerprint"} =>
             perms[handler[p].user] # sessions[handler[p].token].fp
        /\ ~ At(p, "handle")

\* The rows keep what the guard reads of them.
LEMMA RowsKeep ==
    ASSUME IInv, [Next]_vars
    PROVE  /\ DOMAIN sessions \subseteq DOMAIN sessions'
           /\ \A s \in DOMAIN sessions :
                /\ sessions'[s].accessExp = sessions[s].accessExp
                /\ sessions'[s].fp = sessions[s].fp
<1> DEFINE Kept ==
      /\ DOMAIN sessions \subseteq DOMAIN sessions'
      /\ \A s \in DOMAIN sessions :
           /\ sessions'[s].accessExp = sessions[s].accessExp
           /\ sessions'[s].fp = sessions[s].fp
<1>1. ASSUME NEW S, Revoke(S) PROVE Kept
  BY <1>1, Revoking DEF IInv
<1>2. ASSUME sessions' = sessions PROVE Kept
  BY <1>2
<1>3. ASSUME NEW p \in Procs, CreateSession(p) PROVE Kept
  BY <1>3, Table DEF IInv, TypeOK, CreateSession
<1>4. ASSUME NEW p \in Procs, Request(p) PROVE sessions' = sessions
  BY <1>4 DEF Request, Login, Refresh, Authenticate
<1> HIDE DEF Kept
<1>5. ASSUME NEW p \in Procs, Step(p) PROVE Kept
  <2>1. CASE CreateSession(p)
    BY <2>1, <1>3
  <2>2. CASE \/ ReadPermissions(p) \/ Confirm(p) \/ CheckBlacklist(p) \/ CheckFingerprint(p)
             \/ Access(p) \/ BlacklistToken(p) \/ ListSessions(p)
    BY <2>2, <1>2 DEF ReadPermissions, Confirm, CheckBlacklist, CheckFingerprint, Access,
       BlacklistToken, ListSessions
  <2>3. CASE \/ RevokeOld(p) \/ LogoutRevoke(p) \/ RevokeSession(p) \/ RevokeAll(p)
             \/ ChangePassword(p)
    BY <2>3, <1>1, <1>2 DEF RevokeOld, LogoutRevoke, RevokeSession, RevokeAll, ChangePassword,
       RevokeAllUserSessions
  <2> QED
    BY <1>5, <2>1, <2>2, <2>3 DEF Step
<1>6. ASSUME \/ \E u \in Users, f \in Fingerprints : PermissionsChange(u, f)
             \/ Tick \/ UNCHANGED vars \/ \E p \in Procs : Abort(p)
      PROVE  Kept
  BY <1>2, <1>6 DEF PermissionsChange, Tick, vars, Abort
<1>7. Kept
  <2>1. ASSUME NEW p \in Procs, Request(p) \/ Step(p) \/ Abort(p) PROVE Kept
    BY <2>1, <1>2, <1>4, <1>5, <1>6
  <2> QED
    BY <2>1, <1>6 DEF Next
<1> QED
  BY <1>7 DEF Kept

\* A request's step moves nobody else and leaves the permissions alone.
LEMMA OwnStep ==
    ASSUME TypeOK, NEW p \in Procs, Request(p) \/ Step(p) \/ Abort(p)
    PROVE  /\ now' = now /\ perms' = perms
           /\ \A q \in Procs : q # p => handler'[q] = handler[q]
           /\ BlacklistToken(p) \/ UNCHANGED <<blacklist, loggedOut>>
<1>1. CASE Request(p)
  BY <1>1 DEF TypeOK, Request, Login, Refresh, Authenticate, history
<1>2. CASE Abort(p)
  BY <1>2 DEF TypeOK, Abort, Finish, history
<1>3. CASE ReadPermissions(p) \/ RevokeOld(p) \/ CreateSession(p) \/ Confirm(p)
  BY <1>3 DEF TypeOK, ReadPermissions, RevokeOld, CreateSession, Confirm, Finish, history
<1>4. CASE \/ CheckBlacklist(p) \/ CheckFingerprint(p) \/ Access(p) \/ LogoutRevoke(p)
           \/ BlacklistToken(p) \/ ListSessions(p)
  BY <1>4 DEF TypeOK, CheckBlacklist, CheckFingerprint, Access, LogoutRevoke, BlacklistToken,
     ListSessions, Finish, Goto, history
<1>5. CASE RevokeSession(p) \/ RevokeAll(p) \/ ChangePassword(p)
  BY <1>5 DEF TypeOK, RevokeSession, RevokeAll, ChangePassword, RevokeAllUserSessions, Finish, history
<1> QED
  BY <1>1, <1>2, <1>3, <1>4, <1>5 DEF Step

LEMMA ClockKept == ASSUME IInv, [Next]_vars PROVE now \in Nat /\ now' \in Nat /\ now <= now'
<1>1. now \in Nat
  BY DEF IInv, TypeOK
<1>2. now' = now \/ now' = now + 1
  <2>1. ASSUME NEW p \in Procs, Request(p) \/ Step(p) \/ Abort(p) PROVE now' = now
    BY <2>1, OwnStep DEF IInv
  <2> QED
    BY <2>1 DEF Next, PermissionsChange, Tick, vars
<1> QED
  BY <1>1, <1>2

\* How a request in the guard came to where it is.
GuardMove(p) ==
    \/ /\ handler'[p].pc = handler[p].pc /\ handler'[p].late = handler[p].late
       /\ handler'[p].token = handler[p].token /\ handler'[p].user = handler[p].user
       /\ \/ handler'[p].outdated = handler[p].outdated /\ perms' = perms
          \/ \E u \in Users, f \in Fingerprints :
                /\ perms' = [perms EXCEPT ![u] = f]
                /\ handler'[p].outdated = (handler[p].outdated /\
                     ~ (handler[p].user = u /\ sessions[handler[p].token].fp = f))
    \/ /\ handler'[p].pc = "blacklisted" /\ perms' = perms
       /\ \E op \in Ops, t \in delivered, s \in DOMAIN sessions \cup {NoSession} :
             Authenticate(p, op, t, s)
    \/ /\ handler'[p].pc = "fingerprint" /\ CheckBlacklist(p) /\ Goto(p, "fingerprint")
       /\ handler[p].pc = "blacklisted" /\ perms' = perms
    \/ /\ handler'[p].pc = "handle" /\ CheckFingerprint(p) /\ Goto(p, "handle")
       /\ handler[p].pc = "fingerprint" /\ perms' = perms

LEMMA GuardMoves ==
    ASSUME IInv, [Next]_vars, NEW p \in Procs,
           handler'[p].pc \in {"blacklisted", "fingerprint", "handle"}
    PROVE  GuardMove(p)
<1>0. TypeOK /\ handler[p] \in Handler
  BY DEF IInv, TypeOK
<1>1. ASSUME NEW q \in Procs, Request(q) \/ Step(q) \/ Abort(q), q # p PROVE GuardMove(p)
  BY <1>0, <1>1, OwnStep DEF GuardMove
<1>2. ~ Finish(p)
  BY <1>0, IdleType DEF Finish, TypeOK
<1>3. CASE Request(p)
  <2>1. perms' = perms
    BY <1>0, <1>3, OwnStep
  <2>2. ASSUME NEW u \in Users, Login(p, u) PROVE FALSE
    BY <1>0, <2>2 DEF Login, TypeOK, Idle
  <2>3. ASSUME NEW s \in delivered, Refresh(p, s) PROVE FALSE
    BY <1>0, <2>3 DEF Refresh, TypeOK, Idle
  <2>4. ASSUME NEW op \in Ops, NEW t \in delivered, NEW s \in DOMAIN sessions \cup {NoSession},
               Authenticate(p, op, t, s)
        PROVE  handler'[p].pc = "blacklisted"
    BY <1>0, <2>4 DEF Authenticate, TypeOK, Idle
  <2> QED
    BY <1>3, <2>1, <2>2, <2>3, <2>4 DEF Request, GuardMove
<1>4. CASE Step(p)
  <2>1. perms' = perms
    BY <1>0, <1>4, OwnStep
  <2>2. ASSUME ReadPermissions(p) PROVE FALSE
    BY <1>0, <2>2 DEF ReadPermissions, TypeOK, Handler
  <2>7. ASSUME RevokeOld(p) \/ CreateSession(p) PROVE FALSE
    <3>1. handler'[p].pc \in {"create", "confirm"} \/ Finish(p)
      BY <1>0, <2>7 DEF RevokeOld, CreateSession, TypeOK, Handler
    <3> QED
      BY <1>2, <3>1
  <2>3. ASSUME \/ Confirm(p) \/ Access(p) \/ BlacklistToken(p) \/ RevokeSession(p)
               \/ RevokeAll(p) \/ ChangePassword(p)
        PROVE  FALSE
    BY <1>2, <2>3 DEF Confirm, Access, BlacklistToken, RevokeSession, RevokeAll, ChangePassword,
       RevokeAllUserSessions
  <2>4. ASSUME LogoutRevoke(p) \/ ListSessions(p) PROVE FALSE
    BY <1>0, <1>2, <2>4 DEF LogoutRevoke, ListSessions, Goto, TypeOK, Handler
  <2>5. CASE CheckBlacklist(p)
    BY <1>0, <1>2, <2>1, <2>5 DEF CheckBlacklist, At, Goto, TypeOK, Handler, GuardMove
  <2>6. CASE CheckFingerprint(p)
    BY <1>0, <1>2, <2>1, <2>6 DEF CheckFingerprint, At, Goto, TypeOK, Handler, GuardMove
  <2> QED
    BY <1>4, <2>2, <2>3, <2>4, <2>5, <2>6, <2>7 DEF Step
<1>5. CASE Abort(p)
  BY <1>2, <1>5 DEF Abort
<1>6. ASSUME NEW u \in Users, NEW f \in Fingerprints, PermissionsChange(u, f) PROVE GuardMove(p)
  BY <1>0, <1>6 DEF PermissionsChange, Handler, GuardMove
<1>7. CASE Tick \/ UNCHANGED vars
  BY <1>7 DEF Tick, vars, GuardMove
<1> QED
  BY <1>1, <1>3, <1>4, <1>5, <1>6, <1>7 DEF Next

\* What a request that comes in is told of its token.
LEMMA Authenticated ==
    ASSUME IInv, NEW p \in Procs, NEW op \in Ops, NEW t \in delivered,
           NEW s \in DOMAIN sessions \cup {NoSession}, Authenticate(p, op, t, s)
    PROVE  /\ handler'[p].token = t /\ handler'[p].user = sessions[t].user
           /\ handler'[p].late = (t \in loggedOut)
           /\ handler'[p].outdated = (perms[sessions[t].user] # sessions[t].fp)
           /\ UNCHANGED <<sessions, perms, loggedOut>>
<1>1. handler \in [Procs -> Handler]
  BY DEF IInv, TypeOK
<1>2. handler' = [handler EXCEPT ![p] =
          [Idle EXCEPT !.op = op, !.user = sessions[t].user, !.token = t, !.sid = s,
                       !.late = t \in loggedOut,
                       !.outdated = perms[sessions[t].user] # sessions[t].fp,
                       !.pc = "blacklisted"]]
  BY DEF Authenticate
<1>3. handler'[p] =
          [Idle EXCEPT !.op = op, !.user = sessions[t].user, !.token = t, !.sid = s,
                       !.late = t \in loggedOut,
                       !.outdated = perms[sessions[t].user] # sessions[t].fp,
                       !.pc = "blacklisted"]
  BY <1>1, <1>2
<1>4. UNCHANGED <<sessions, perms, loggedOut>>
  BY DEF Authenticate, history
<1> QED
  BY <1>3, <1>4 DEF Idle

LEMMA ListedKept ==
    ASSUME IInv, Listed, [Next]_vars PROVE Listed'
<1>1. /\ \A t \in loggedOut : t \in DOMAIN sessions /\ t \in Ids
      /\ \A t \in loggedOut : sessions'[t].accessExp = sessions[t].accessExp
  BY RowsKeep, Table DEF IInv, TypeOK
<1>2. now \in Nat /\ now' \in Nat /\ now <= now'
  BY ClockKept
<1>3. \A t \in loggedOut : sessions[t].accessExp \in Nat
  BY <1>1, Table DEF IInv, Row
<1>4. ASSUME NEW p \in Procs, BlacklistToken(p) PROVE Listed'
  <2> DEFINE t == handler[p].token
  <2>1. t \in DOMAIN sessions /\ t \in Ids /\ sessions[t].accessExp \in Nat
    BY <1>4, Table DEF IInv, Requests, Knows, Admitted, TypeOK, BlacklistToken, At, Row
  <2>2. now' = now /\ sessions' = sessions /\ blacklist \in [Ids -> Nat]
    BY <1>4 DEF BlacklistToken, IInv, TypeOK
  <2>3. CASE UNCHANGED <<blacklist, loggedOut>>
    BY <2>2, <2>3 DEF Listed
  <2>4. CASE /\ loggedOut' = loggedOut \cup {t}
             /\ blacklist' = IF Ttl(t) > 0 THEN [blacklist EXCEPT ![t] = now + Ttl(t)]
                            ELSE blacklist
    <3>1. sessions[t].accessExp <= now \/ sessions[t].accessExp <= blacklist'[t]
      BY <1>2, <2>1, <2>2, <2>4 DEF Ttl
    <3>2. \A s \in loggedOut \ {t} : blacklist'[s] = blacklist[s]
      BY <1>1, <2>1, <2>2, <2>4
    <3> QED
      BY <2>2, <2>4, <3>1, <3>2 DEF Listed
  <2> QED
    BY <1>4, <2>3, <2>4 DEF BlacklistToken
<1>5. CASE UNCHANGED <<blacklist, loggedOut>>
  BY <1>1, <1>2, <1>3, <1>5 DEF Listed
<1>6. UNCHANGED <<blacklist, loggedOut>> \/ \E p \in Procs : BlacklistToken(p)
  <2>1. ASSUME NEW p \in Procs, Request(p) \/ Step(p) \/ Abort(p)
        PROVE  BlacklistToken(p) \/ UNCHANGED <<blacklist, loggedOut>>
    BY <2>1, OwnStep DEF IInv
  <2> QED
    BY <2>1 DEF Next, PermissionsChange, Tick, vars, history
<1> QED
  BY <1>4, <1>5, <1>6

\* A guard that is told the truth about the blacklist.
LEMMA LateKept ==
    ASSUME IInv, Listed, LateKnown, "redis" \notin Faults, [Next]_vars PROVE LateKnown'
<1> SUFFICES ASSUME NEW p \in Procs, handler'[p].late,
                    handler'[p].pc \in {"blacklisted", "fingerprint", "handle"}
             PROVE  /\ handler'[p].pc = "blacklisted" => handler'[p].token \in loggedOut'
                    /\ handler'[p].pc \in {"fingerprint", "handle"} =>
                         sessions'[handler'[p].token].accessExp <= now'
  BY DEF LateKnown, At
<1> DEFINE t == handler[p].token
<1>0. handler[p] \in Handler /\ handler \in [Procs -> Handler]
  BY DEF IInv, TypeOK
<1>1. loggedOut \subseteq loggedOut'
  <2>1. ASSUME NEW q \in Procs, Request(q) \/ Step(q) \/ Abort(q)
        PROVE  BlacklistToken(q) \/ UNCHANGED <<blacklist, loggedOut>>
    BY <2>1, OwnStep DEF IInv
  <2> QED
    BY <2>1 DEF Next, BlacklistToken, PermissionsChange, Tick, vars, history
<1>2. now \in Nat /\ now' \in Nat /\ now <= now'
  BY ClockKept
<1>3. handler[p].pc \in {"blacklisted", "fingerprint", "handle"} =>
        /\ t \in DOMAIN sessions /\ t \in Ids /\ sessions[t].accessExp \in Nat
        /\ sessions'[t].accessExp = sessions[t].accessExp
  BY RowsKeep, Table DEF IInv, TypeOK, Requests, Knows, Admitted, Row
<1>4. GuardMove(p)
  BY GuardMoves
<1>5. CASE /\ handler'[p].pc = handler[p].pc /\ handler'[p].late = handler[p].late
           /\ handler'[p].token = handler[p].token
  BY <1>1, <1>2, <1>3, <1>5 DEF LateKnown, At
<1>6. CASE /\ handler'[p].pc = "blacklisted"
           /\ \E op \in Ops, u \in delivered, s \in DOMAIN sessions \cup {NoSession} :
                 Authenticate(p, op, u, s)
  BY <1>6, Authenticated
<1>7. CASE /\ handler'[p].pc = "fingerprint" /\ CheckBlacklist(p) /\ Goto(p, "fingerprint")
           /\ handler[p].pc = "blacklisted"
  <2>1. handler'[p] = [handler[p] EXCEPT !.pc = "fingerprint"]
    BY <1>0, <1>7 DEF Goto
  <2>2. handler'[p].token = t /\ handler[p].late
    BY <1>0, <2>1 DEF Handler
  <2>3. t \in loggedOut /\ blacklist[t] \in Nat
    BY <1>3, <1>7, <2>2 DEF LateKnown, At, IInv, TypeOK
  <2>4. ~ (now < blacklist[t])
    <3>1. ~ Finish(p)
      BY <1>0, <1>7, IdleType DEF Finish
    <3> QED
      BY <1>7, <3>1 DEF CheckBlacklist
  <2>5. sessions[t].accessExp <= now
    BY <1>2, <1>3, <1>7, <2>3, <2>4 DEF Listed
  <2> QED
    BY <1>2, <1>3, <1>7, <2>2, <2>5
<1>8. CASE /\ handler'[p].pc = "handle" /\ CheckFingerprint(p) /\ Goto(p, "handle")
           /\ handler[p].pc = "fingerprint"
  <2>1. handler'[p] = [handler[p] EXCEPT !.pc = "handle"]
    BY <1>0, <1>8 DEF Goto
  <2>2. handler'[p].token = t /\ handler[p].late
    BY <1>0, <2>1 DEF Handler
  <2>3. sessions[t].accessExp <= now
    BY <1>8, <2>2 DEF LateKnown
  <2> QED
    BY <1>2, <1>3, <1>8, <2>2, <2>3
<1> QED
  BY <1>4, <1>5, <1>6, <1>7, <1>8 DEF GuardMove

\* When Redis answers, an unexpired access token is never admitted by a request that came in
\* after its logout was answered, for any number of handlers, whatever else overlaps
\* (isTokenBlacklisted and revokeToken, token.service.ts).
THEOREM LogoutIsFinal == ASSUME "redis" \notin Faults PROVE Spec => []LoggedOutTokenRejected
<1>1. Init => Listed /\ LateKnown
  BY IdleType DEF Init, Listed, LateKnown, At, Idle
<1>2. IInv /\ Listed /\ LateKnown /\ [Next]_vars => Listed' /\ LateKnown'
  BY ListedKept, LateKept
<1>3. LateKnown => LoggedOutTokenRejected
  BY DEF LateKnown, LoggedOutTokenRejected, At
<1> QED
  BY Invariance, <1>1, <1>2, <1>3, PTL DEF Spec

LEMMA OutdatedKept == ASSUME IInv, OutdatedKnown, [Next]_vars PROVE OutdatedKnown'
<1> SUFFICES ASSUME NEW p \in Procs, handler'[p].outdated,
                    handler'[p].pc \in {"blacklisted", "fingerprint", "handle"}
             PROVE  /\ handler'[p].pc \in {"blacklisted", "fingerprint"} =>
                         perms'[handler'[p].user] # sessions'[handler'[p].token].fp
                    /\ handler'[p].pc # "handle"
  BY DEF OutdatedKnown, At
<1> DEFINE t == handler[p].token
           u == handler[p].user
<1>0. handler[p] \in Handler /\ handler \in [Procs -> Handler] /\ u \in Users
      /\ perms \in [Users -> Fingerprints]
  BY DEF IInv, TypeOK, Handler
<1>1. handler[p].pc \in {"blacklisted", "fingerprint", "handle"} =>
        t \in DOMAIN sessions /\ sessions'[t].fp = sessions[t].fp
  BY RowsKeep DEF IInv, TypeOK, Requests, Knows, Admitted
<1>2. GuardMove(p)
  BY GuardMoves
<1>3. CASE /\ handler'[p].pc = handler[p].pc
           /\ handler'[p].token = handler[p].token /\ handler'[p].user = handler[p].user
           /\ handler'[p].outdated = handler[p].outdated /\ perms' = perms
  BY <1>1, <1>3 DEF OutdatedKnown, At
<1>4. ASSUME /\ handler'[p].pc = handler[p].pc
             /\ handler'[p].token = handler[p].token /\ handler'[p].user = handler[p].user,
             NEW v \in Users, NEW f \in Fingerprints, perms' = [perms EXCEPT ![v] = f],
             handler'[p].outdated = (handler[p].outdated /\ ~ (u = v /\ sessions[t].fp = f))
      PROVE  /\ handler'[p].pc \in {"blacklisted", "fingerprint"} =>
                  perms'[handler'[p].user] # sessions'[handler'[p].token].fp
             /\ handler'[p].pc # "handle"
  <2>1. handler[p].outdated /\ ~ (u = v /\ sessions[t].fp = f)
    BY <1>4
  <2>2. handler[p].pc # "handle"
    BY <2>1 DEF OutdatedKnown, At
  <2>3. handler[p].pc \in {"blacklisted", "fingerprint"} => perms[u] # sessions[t].fp
    BY <2>1 DEF OutdatedKnown
  <2>4. perms'[u] = IF u = v THEN f ELSE perms[u]
    BY <1>0, <1>4
  <2> QED
    BY <1>1, <1>4, <2>1, <2>2, <2>3, <2>4
<1>5. CASE /\ handler'[p].pc = "blacklisted" /\ perms' = perms
           /\ \E op \in Ops, r \in delivered, s \in DOMAIN sessions \cup {NoSession} :
                 Authenticate(p, op, r, s)
  BY <1>5, Authenticated
<1>6. CASE /\ handler'[p].pc = "fingerprint" /\ Goto(p, "fingerprint")
           /\ handler[p].pc = "blacklisted" /\ perms' = perms
  <2>1. handler'[p] = [handler[p] EXCEPT !.pc = "fingerprint"]
    BY <1>0, <1>6 DEF Goto
  <2>2. handler'[p].token = t /\ handler'[p].user = u /\ handler[p].outdated
    BY <1>0, <2>1 DEF Handler
  <2> QED
    BY <1>1, <1>6, <2>2 DEF OutdatedKnown
<1>7. CASE /\ handler'[p].pc = "handle" /\ CheckFingerprint(p) /\ Goto(p, "handle")
           /\ handler[p].pc = "fingerprint"
  <2>1. handler'[p] = [handler[p] EXCEPT !.pc = "handle"]
    BY <1>0, <1>7 DEF Goto
  <2>2. handler[p].outdated
    BY <1>0, <2>1 DEF Handler
  <2>3. ~ Finish(p)
    BY <1>0, <1>7, IdleType DEF Finish
  <2>4. sessions[t].fp = perms[u]
    BY <1>7, <2>3 DEF CheckFingerprint
  <2> QED
    BY <1>7, <2>2, <2>4 DEF OutdatedKnown
<1> QED
  BY <1>2, <1>3, <1>4, <1>5, <1>6, <1>7 DEF GuardMove

\* A token signed over permissions that were superseded when the request came in, and
\* stayed so, is not admitted, for any number of handlers, whatever overlaps or fails
\* (verifyPermissionFingerprint, jwt.strategy.ts).
THEOREM OutdatedNeverAdmitted == Spec => []OutdatedTokenRejected
<1>1. Init => OutdatedKnown
  BY IdleType DEF Init, OutdatedKnown, At, Idle
<1>2. IInv /\ OutdatedKnown /\ [Next]_vars => OutdatedKnown'
  BY OutdatedKept
<1>3. OutdatedKnown => OutdatedTokenRejected
  BY DEF OutdatedKnown, OutdatedTokenRejected
<1> QED
  BY Invariance, <1>1, <1>2, <1>3, PTL DEF Spec

-----------------------------------------------------------------------------
(* Sign-ins: the refinement of LoginLifecycle                              *)

\* A sign-in is named by the first of its sessions.
Named == \A s \in DOMAIN sessions : LoginOf(s) \in DOMAIN sessions

Refreshes(p, l) ==
    handler[p].pc \in Signing /\ handler[p].op = "refresh" /\ LoginOf(handler[p].sid) = l

InUse(l) == UnrevokedOf(l) # {} \/ Refreshing(l)

\* The row that createSession inserts.
LEMMA Created ==
    ASSUME IInv, NEW p \in Procs, CreateSession(p)
    PROVE  LET g == handler[p]
               id == Len(sessions) + 1
           IN  /\ DOMAIN sessions' = DOMAIN sessions \cup {id} /\ id \notin DOMAIN sessions
               /\ sessions'[id].login = IF g.op = "login" THEN id ELSE LoginOf(g.sid)
               /\ sessions'[id].user = g.user /\ ~ sessions'[id].revoked
               /\ \A s \in DOMAIN sessions : sessions'[s] = sessions[s]
<1> DEFINE g == handler[p]
           id == Len(sessions) + 1
           r == [user |-> g.user, fp |-> g.fp, accessExp |-> g.accessExp,
                 expiresAt |-> g.expiresAt, revoked |-> FALSE,
                 login |-> IF g.op = "login" THEN id ELSE LoginOf(g.sid)]
<1>1. sessions' = Append(sessions, r)
  BY DEF CreateSession
<1>2. /\ Len(sessions') = Len(sessions) + 1 /\ Len(sessions) \in Nat
      /\ sessions'[id] = r
      /\ \A s \in 1 .. Len(sessions) : sessions'[s] = sessions[s]
      /\ DOMAIN sessions' = 1 .. Len(sessions')
  BY <1>1, CreateSessionStep, Table DEF IInv, TypeOK
<1> QED
  BY <1>2, Table DEF IInv

LEMMA LoginIds == ASSUME IInv PROVE Logins \subseteq Ids
  BY Table DEF IInv, Logins, LoginOf, Row

\* Only a login adds a sign-in.
LEMMA BeginStep ==
    ASSUME IInv, Named, NEW p \in Procs, CreateSession(p)
    PROVE  Lifecycle!LifecycleNext \/ UNCHANGED <<[l \in Ids |-> StatusOf(l)], ended>>
<1> DEFINE g == handler[p]
<1>0. Len(sessions) + 1 \in Ids /\ g.op \in {"login", "refresh"}
  <2>1. sessions' \in Seq(Row) /\ Len(sessions') <= MaxSessions
    BY CreateSessionStep DEF IInv, TypeOK
  <2>2. Len(sessions) + 1 \in 1 .. Len(sessions') /\ Len(sessions') \in Nat
    BY <2>1, Created, LenProperties
  <2> QED
    BY <2>1, <2>2, BoundAssumption DEF IInv, Ids, Requests, Knows, Signing, CreateSession, At
<1>1. PICK id, new :
         /\ id \in Ids
         /\ DOMAIN sessions' = DOMAIN sessions \cup {id} /\ id \notin DOMAIN sessions
         /\ new = IF g.op = "login" THEN id ELSE LoginOf(g.sid)
         /\ sessions'[id].login = new /\ ~ sessions'[id].revoked
         /\ \A s \in DOMAIN sessions : sessions'[s] = sessions[s]
  BY <1>0, Created
<1>2. ended' = ended /\ \A q \in Procs : q # p => handler'[q] = handler[q]
  BY OwnStep DEF CreateSession, history, Step, IInv
<1>3. g.pc = "create" /\ (g.op = "refresh" => g.sid \in DOMAIN sessions)
  BY DEF IInv, Requests, Knows, Signing, CreateSession, At
<1>4. handler'[p].pc \notin Signing
  <2>1. handler'[p].pc \in {"confirm", "idle"}
    BY IdleType DEF CreateSession, Finish, IInv, TypeOK, Handler
  <2> QED
    BY <2>1 DEF Signing
<1>5. StatusOf(new)' = "live"
  BY <1>1 DEF StatusOf, Logins, UnrevokedOf, LoginOf
<1>6. ASSUME NEW l, l # new PROVE StatusOf(l)' = StatusOf(l)
  <2>1. UnrevokedOf(l)' = UnrevokedOf(l) /\ (l \in Logins' <=> l \in Logins)
    BY <1>1, <1>6 DEF UnrevokedOf, LoginOf, Logins
  <2>2. ~ Refreshes(p, l)' /\ ~ Refreshes(p, l)
    BY <1>1, <1>4, <1>6 DEF Refreshes
  <2>3. ASSUME NEW q \in Procs, q # p PROVE Refreshes(q, l)' <=> Refreshes(q, l)
    BY <1>1, <1>2, <2>3 DEF Refreshes, LoginOf, IInv, Requests, Knows
  <2>4. Refreshing(l)' <=> Refreshing(l)
    BY <2>2, <2>3 DEF Refreshing, Refreshes, Signing
  <2> QED
    BY <2>1, <2>4 DEF StatusOf
<1>7. CASE g.op = "login"
  <2>1. new = id /\ id \notin Logins
    BY <1>1, <1>7 DEF Named, Logins
  <2>2. StatusOf(id) = "none"
    BY <2>1 DEF StatusOf
  <2>3. Lifecycle!Begin(id)
    BY <1>1, <1>2, <1>5, <1>6, <2>1, <2>2 DEF Lifecycle!Begin
  <2> QED
    BY <1>1, <2>3 DEF Lifecycle!LifecycleNext
<1>8. CASE g.op = "refresh"
  <2>1. new \in Logins /\ Refreshes(p, new)
    BY <1>1, <1>3, <1>8 DEF Logins, Refreshes, Signing
  <2>2. StatusOf(new) = "live"
    BY <2>1 DEF StatusOf, Refreshing, Refreshes, Signing
  <2>3. \A l \in Ids : StatusOf(l)' = StatusOf(l)
    BY <1>5, <1>6, <2>2
  <2> QED
    BY <1>2, <2>3
<1> QED
  BY <1>0, <1>7, <1>8

\* A step that adds no session ends those sign-ins it leaves without any use.
LEMMA EndStep ==
    ASSUME IInv, DOMAIN sessions' = DOMAIN sessions,
           \A s \in DOMAIN sessions : /\ sessions'[s].login = sessions[s].login
                                      /\ ~ sessions'[s].revoked => ~ sessions[s].revoked,
           ended \subseteq ended', ended' \subseteq ended \cup Logins,
           \A l : Refreshing(l)' => InUse(l),
           \A l : InUse(l) => InUse(l)' \/ l \in ended' \/ MayLose
    PROVE  Lifecycle!LifecycleNext
<1> DEFINE S == ended' \cap Logins
           T == {l \in Logins : InUse(l) /\ ~ InUse(l)'}
<1>1. Logins' = Logins /\ Logins \subseteq Ids
  BY LoginIds DEF Logins, LoginOf
<1>2. \A l : InUse(l)' => InUse(l)
  BY DEF InUse, UnrevokedOf, LoginOf
<1>3. \A l : StatusOf(l) = IF l \notin Logins THEN "none" ELSE IF InUse(l) THEN "live" ELSE "over"
  BY DEF StatusOf, InUse
<1>4. \A l : StatusOf(l)' = IF l \notin Logins THEN "none" ELSE IF InUse(l)' THEN "live" ELSE "over"
  BY <1>1 DEF StatusOf, InUse
<1>5. \A l : StatusOf(l)' = IF l \in T THEN "over" ELSE StatusOf(l)
  BY <1>2, <1>3, <1>4
<1>6. T \subseteq ended' \/ MayLose
  OBVIOUS
<1>7. \A l \in Ids : /\ l \in S => StatusOf(l) # "none"
                     /\ l \in T => StatusOf(l) = "live"
  BY <1>3
<1>8. S \subseteq Ids /\ T \subseteq Ids /\ ended' = ended \cup S
  BY <1>1
<1> HIDE DEF S, T
<1>9. Lifecycle!End(S, T)
  BY <1>5, <1>6, <1>8 DEF Lifecycle!End
<1>10. /\ \A l \in S : l \in Ids /\ StatusOf(l) # "none"
       /\ \A l \in T : l \in Ids /\ StatusOf(l) = "live"
  BY <1>7, <1>8
<1>11. /\ S \in SUBSET {l \in Ids : [k \in Ids |-> StatusOf(k)][l] # "none"}
       /\ T \in SUBSET {l \in Ids : [k \in Ids |-> StatusOf(k)][l] = "live"}
  BY <1>10
<1> QED
  BY <1>9, <1>11 DEF Lifecycle!LifecycleNext

\* A request's step that keeps the refreshes under way, but for those of the request itself,
\* and ends what it leaves without any session.
LEMMA OwnEndStep ==
    ASSUME IInv, NEW p \in Procs, \A q \in Procs : q # p => handler'[q] = handler[q],
           DOMAIN sessions' = DOMAIN sessions,
           \A s \in DOMAIN sessions : /\ sessions'[s].login = sessions[s].login
                                      /\ ~ sessions'[s].revoked => ~ sessions[s].revoked,
           ended \subseteq ended', ended' \subseteq ended \cup Logins,
           \A l : Refreshes(p, l)' => Refreshes(p, l) \/ UnrevokedOf(l) # {},
           \A l : Refreshes(p, l) => Refreshes(p, l)' \/ MayLose,
           \A l : UnrevokedOf(l) # {} =>
               UnrevokedOf(l)' # {} \/ Refreshes(p, l)' \/ l \in ended' \/ MayLose
    PROVE  Lifecycle!LifecycleNext
<1>1. ASSUME NEW l, NEW q \in Procs, q # p PROVE Refreshes(q, l)' <=> Refreshes(q, l)
  BY <1>1 DEF Refreshes, LoginOf, IInv, Requests, Knows
<1>2. \A l : /\ Refreshing(l) <=> \E q \in Procs : Refreshes(q, l)
             /\ Refreshing(l)' <=> \E q \in Procs : Refreshes(q, l)'
  BY DEF Refreshing, Refreshes, Signing
<1>3. \A l : Refreshing(l)' => InUse(l)
  BY <1>1, <1>2 DEF InUse
<1>4. ASSUME NEW l, InUse(l) PROVE InUse(l)' \/ l \in ended' \/ MayLose
  <2>1. CASE UnrevokedOf(l) # {}
    BY <1>2, <2>1 DEF InUse
  <2>2. CASE Refreshing(l)
    BY <1>1, <1>2, <2>2 DEF InUse
  <2> QED
    BY <1>4, <2>1, <2>2 DEF InUse
<1> QED
  BY <1>3, <1>4, EndStep

\* Whatever a request revokes, its user has asked to end.
LEMMA RevokingEnds ==
    ASSUME IInv, NEW p \in Procs,
           LogoutRevoke(p) \/ RevokeSession(p) \/ RevokeAll(p) \/ ChangePassword(p)
    PROVE  Lifecycle!LifecycleNext
<1>1. /\ handler[p].pc \notin Signing
      /\ \A q \in Procs : q # p => handler'[q] = handler[q]
  BY OwnStep DEF Step, IInv, LogoutRevoke, RevokeSession, RevokeAll, ChangePassword, Handling, At,
     Signing
<1>2. handler'[p].pc \notin Signing
  <2>1. Finish(p) \/ Goto(p, "blacklist")
    BY DEF LogoutRevoke, RevokeSession, RevokeAll, ChangePassword, RevokeAllUserSessions
  <2>2. handler'[p].pc \in {"idle", "blacklist"}
    BY <2>1, IdleType DEF Finish, Goto, IInv, TypeOK, Handler
  <2> QED
    BY <2>2 DEF Signing
<1>3. \A l : ~ Refreshes(p, l) /\ ~ Refreshes(p, l)'
  BY <1>1, <1>2 DEF Refreshes
<1>4. ASSUME NEW S, Revoke(S), NEW E, E \subseteq Logins, ended' = ended \cup E,
             \A l : S \cap UnrevokedOf(l) # {} => l \in ended' \/ MayLose
      PROVE  Lifecycle!LifecycleNext
  <2>1. /\ DOMAIN sessions' = DOMAIN sessions
        /\ \A s \in DOMAIN sessions :
             /\ sessions'[s].login = sessions[s].login
             /\ sessions'[s].revoked = (s \in S \/ sessions[s].revoked)
    BY <1>4, Revoking DEF IInv
  <2>2. \A l : UnrevokedOf(l) # {} => UnrevokedOf(l)' # {} \/ S \cap UnrevokedOf(l) # {}
    BY <2>1 DEF UnrevokedOf, LoginOf
  <2>3. ended \subseteq ended' /\ ended' \subseteq ended \cup Logins
    BY <1>4
  <2> QED
    BY <1>1, <1>3, <1>4, <2>1, <2>2, <2>3, OwnEndStep
<1>5. CASE LogoutRevoke(p)
  <2> DEFINE s == CurrentSession(p)
  <2>1. CASE s \in DOMAIN sessions
    <3>1. /\ Revoke({s})
          /\ ended' = IF sessions[s].revoked THEN ended ELSE ended \cup {LoginOf(s)}
      BY <1>5, <2>1 DEF LogoutRevoke
    <3> DEFINE E == IF sessions[s].revoked THEN {} ELSE {LoginOf(s)}
    <3>2. E \subseteq Logins
      BY <2>1 DEF Logins
    <3>3. ended' = ended \cup E
      BY <3>1
    <3>4. \A l : {s} \cap UnrevokedOf(l) # {} => l \in ended'
      BY <3>1 DEF UnrevokedOf
    <3> HIDE DEF s, E
    <3> QED
      BY <1>4, <3>1, <3>2, <3>3, <3>4
  <2>2. CASE s \notin DOMAIN sessions
    BY <1>1, <1>3, <1>5, <2>2, OwnEndStep DEF LogoutRevoke, UnrevokedOf, LoginOf
  <2> QED
    BY <2>1, <2>2
<1>6. CASE RevokeSession(p)
  <2> DEFINE s == handler[p].sid
  <2>1. Revoke({s}) /\ ended' = ended \cup {LoginOf(s)} /\ s \in DOMAIN sessions
    BY <1>6 DEF RevokeSession, IInv, Requests, Knows, At
  <2> HIDE DEF s
  <2>2. {LoginOf(s)} \subseteq Logins /\ \A l : {s} \cap UnrevokedOf(l) # {} => l \in ended'
    BY <2>1 DEF UnrevokedOf, Logins
  <2> QED
    BY <1>4, <2>1, <2>2
<1>7. CASE RevokeAll(p) \/ ChangePassword(p)
  <2> DEFINE E == OtherLogins(p)
  <2>1. MayLose
    BY <1>7 DEF RevokeAll, ChangePassword, Handling, MayLose, IInv, TypeOK, Handler
  <2>2. PICK S : Revoke(S) /\ ended' = ended \cup E
    BY <1>7 DEF RevokeAll, ChangePassword, RevokeAllUserSessions
  <2>3. E \subseteq Logins
    BY DEF OtherLogins, OwnSessions, Logins
  <2> HIDE DEF E
  <2> QED
    BY <1>4, <2>1, <2>2, <2>3
<1> QED
  BY <1>5, <1>6, <1>7

\* A rotation takes a session away only while its successor is being made.
LEMMA RotationEndsNothing == ASSUME IInv, NEW p \in Procs, RevokeOld(p) PROVE Lifecycle!LifecycleNext
<1>0. PICK sid : sid = handler[p].sid
  OBVIOUS
<1>1. /\ handler[p] \in Handler /\ handler[p].pc = "rotate" /\ handler[p].op = "refresh"
      /\ sid \in DOMAIN sessions
  BY <1>0 DEF RevokeOld, At, IInv, TypeOK, Requests, Knows, Signing
<1>2. /\ Revoke({sid}) /\ ended' = ended
      /\ \A q \in Procs : q # p => handler'[q] = handler[q]
  BY <1>0, OwnStep DEF RevokeOld, history, Step, IInv
<1>3. handler'[p].pc = "create" /\ handler'[p].op = "refresh" /\ handler'[p].sid = sid
  BY <1>0, <1>1 DEF RevokeOld, IInv, TypeOK, Handler
<1>4. /\ DOMAIN sessions' = DOMAIN sessions
      /\ \A s \in DOMAIN sessions :
           /\ sessions'[s].login = sessions[s].login
           /\ sessions'[s].revoked = (s \in {sid} \/ sessions[s].revoked)
  BY <1>2, Revoking DEF IInv
<1>5. \A l : Refreshes(p, l)' <=> Refreshes(p, l)
  BY <1>0, <1>1, <1>3, <1>4 DEF Refreshes, Signing, LoginOf
<1>6. ASSUME NEW l, UnrevokedOf(l) # {} PROVE UnrevokedOf(l)' # {} \/ Refreshes(p, l)'
  <2>1. PICK s \in DOMAIN sessions : sessions[s].login = l /\ ~ sessions[s].revoked
    BY <1>6 DEF UnrevokedOf, LoginOf
  <2>2. CASE s = sid
    BY <1>0, <1>3, <1>4, <2>1, <2>2 DEF Refreshes, Signing, LoginOf
  <2>3. CASE s # sid
    BY <1>4, <2>1, <2>3 DEF UnrevokedOf, LoginOf
  <2> QED
    BY <2>2, <2>3
<1> QED
  BY <1>2, <1>4, <1>5, <1>6, OwnEndStep

\* A step of a request that touches no row ends a sign-in only if the request dies.
LEMMA QuietEnds ==
    ASSUME IInv, NEW p \in Procs, Request(p) \/ Step(p) \/ Abort(p),
           sessions' = sessions, ended' = ended
    PROVE  Lifecycle!LifecycleNext
<1>0. handler[p] \in Handler /\ handler \in [Procs -> Handler]
  BY DEF IInv, TypeOK
<1> DEFINE Kept ==
      /\ \A l : Refreshes(p, l)' => Refreshes(p, l) \/ UnrevokedOf(l) # {}
      /\ \A l : Refreshes(p, l) => Refreshes(p, l)' \/ MayLose
<1>1. ASSUME handler[p].pc \notin Signing, handler'[p].pc \notin Signing PROVE Kept
  BY <1>1 DEF Refreshes
<1>2. ASSUME Finish(p) PROVE handler'[p].pc \notin Signing
  BY <1>0, <1>2, IdleType DEF Finish, Signing
<1>3. ASSUME NEW s \in delivered, Refresh(p, s) PROVE Kept
  <2>1. /\ handler[p].pc \notin Signing /\ s \in DOMAIN sessions /\ ~ sessions[s].revoked
        /\ handler'[p].sid = s
    BY <1>0, <1>3 DEF Refresh, At, Live, Idle, Signing, IInv, TypeOK
  <2> QED
    BY <2>1 DEF Refreshes, LoginOf, UnrevokedOf
<1>4. ASSUME NEW u \in Users, Login(p, u) PROVE Kept
  <2>1. handler[p].pc \notin Signing /\ handler'[p].op = "login"
    BY <1>0, <1>4 DEF Login, At, Idle, Signing
  <2> QED
    BY <2>1 DEF Refreshes
<1>5. ASSUME NEW op \in Ops, NEW t \in delivered, NEW s \in DOMAIN sessions \cup {NoSession},
             Authenticate(p, op, t, s)
      PROVE  Kept
  <2>1. handler[p].pc = "idle" /\ handler'[p].pc = "blacklisted"
    BY <1>0, <1>5 DEF Authenticate, At, Idle
  <2> QED
    BY <1>1, <2>1 DEF Signing
<1>6. ASSUME ReadPermissions(p) PROVE Kept
  <2>1. /\ handler[p].pc = "perms" /\ handler'[p].pc \in {"create", "rotate"}
        /\ handler'[p].op = handler[p].op /\ handler'[p].sid = handler[p].sid
    BY <1>0, <1>6 DEF ReadPermissions, At, Handler
  <2>2. \A l : Refreshes(p, l)' <=> Refreshes(p, l)
    BY <2>1 DEF Refreshes, Signing, LoginOf
  <2> QED
    BY <2>2
<1>7. ASSUME \/ Confirm(p) \/ CheckBlacklist(p) \/ CheckFingerprint(p) \/ Access(p)
             \/ LogoutRevoke(p) \/ BlacklistToken(p) \/ ListSessions(p) \/ RevokeSession(p)
             \/ RevokeAll(p) \/ ChangePassword(p)
      PROVE  Kept
  <2>1. handler[p].pc \notin Signing
    BY <1>7 DEF Confirm, CheckBlacklist, CheckFingerprint, Access, LogoutRevoke, BlacklistToken,
       ListSessions, RevokeSession, RevokeAll, ChangePassword, Handling, At, Signing
  <2>2. \/ Finish(p) \/ Goto(p, "fingerprint") \/ Goto(p, "handle") \/ Goto(p, "blacklist")
        \/ Goto(p, "revoke")
    BY <1>7 DEF Confirm, CheckBlacklist, CheckFingerprint, Access, LogoutRevoke, BlacklistToken,
       ListSessions, RevokeSession, RevokeAll, ChangePassword, RevokeAllUserSessions
  <2>3. handler'[p].pc \in {"fingerprint", "handle", "blacklist", "revoke"} \/ Finish(p)
    BY <1>0, <2>2 DEF Goto, Handler
  <2>4. handler'[p].pc \notin Signing
    BY <1>2, <2>3 DEF Signing
  <2> HIDE DEF Kept
  <2> QED
    BY <1>1, <2>1, <2>4
<1>8. ASSUME Abort(p) PROVE Kept
  <2>1. MayLose /\ handler'[p].pc \notin Signing
    BY <1>2, <1>8 DEF Abort, MayLose
  <2> QED
    BY <2>1 DEF Refreshes
<1>9. CASE RevokeOld(p) \/ CreateSession(p)
  <2>1. CASE CreateSession(p)
    BY <2>1, Created
  <2>2. CASE RevokeOld(p)
    BY <2>2, RotationEndsNothing
  <2> QED
    BY <1>9, <2>1, <2>2
<1>10. CASE Kept
  <2>1. \A q \in Procs : q # p => handler'[q] = handler[q]
    BY OwnStep DEF IInv
  <2>2. \A l : UnrevokedOf(l)' = UnrevokedOf(l)
    BY DEF UnrevokedOf, LoginOf
  <2> QED
    BY <1>10, <2>1, <2>2, OwnEndStep
<1> QED
  BY <1>3, <1>4, <1>5, <1>6, <1>7, <1>8, <1>9, <1>10 DEF Request, Step

LEMMA StepImplements ==
    ASSUME IInv, Named, [Next]_vars
    PROVE  [Lifecycle!LifecycleNext]_<<[l \in Ids |-> StatusOf(l)], ended>>
<1>1. ASSUME NEW p \in Procs, Request(p) \/ Abort(p) PROVE Lifecycle!LifecycleNext
  BY <1>1, QuietEnds DEF Request, Login, Refresh, Authenticate, Abort, history
<1>2. ASSUME NEW p \in Procs, Step(p)
      PROVE  [Lifecycle!LifecycleNext]_<<[l \in Ids |-> StatusOf(l)], ended>>
  <2>1. CASE \/ ReadPermissions(p) \/ Confirm(p) \/ CheckBlacklist(p) \/ CheckFingerprint(p)
             \/ Access(p) \/ BlacklistToken(p) \/ ListSessions(p)
    BY <1>2, <2>1, QuietEnds DEF ReadPermissions, Confirm, CheckBlacklist, CheckFingerprint, Access,
       BlacklistToken, ListSessions, history
  <2> QED
    BY <1>2, <2>1, BeginStep, RotationEndsNothing, RevokingEnds DEF Step
<1>3. ASSUME \/ \E u \in Users, f \in Fingerprints : PermissionsChange(u, f)
             \/ Tick \/ UNCHANGED vars
      PROVE  UNCHANGED <<[l \in Ids |-> StatusOf(l)], ended>>
  <2>1. sessions' = sessions /\ ended' = ended
    BY <1>3 DEF PermissionsChange, Tick, vars, history
  <2>2. \A p \in Procs : /\ handler'[p].pc = handler[p].pc /\ handler'[p].op = handler[p].op
                         /\ handler'[p].sid = handler[p].sid
    BY <1>3 DEF PermissionsChange, Tick, vars, IInv, TypeOK, Handler
  <2>3. \A l : Refreshing(l)' <=> Refreshing(l)
    BY <2>1, <2>2 DEF Refreshing, LoginOf
  <2>4. Logins' = Logins /\ \A l : UnrevokedOf(l)' = UnrevokedOf(l)
    BY <2>1 DEF Logins, UnrevokedOf, LoginOf
  <2> QED
    BY <2>1, <2>3, <2>4 DEF StatusOf
<1> QED
  BY <1>1, <1>2, <1>3 DEF Next

LEMMA NamedKept == ASSUME IInv, Named, [Next]_vars PROVE Named'
<1>1. ASSUME NEW p \in Procs, CreateSession(p) PROVE Named'
  <2>1. PICK id, new :
          /\ DOMAIN sessions' = DOMAIN sessions \cup {id}
          /\ new = IF handler[p].op = "login" THEN id ELSE LoginOf(handler[p].sid)
          /\ sessions'[id].login = new
          /\ \A s \in DOMAIN sessions : sessions'[s] = sessions[s]
    BY <1>1, Created
  <2>2. new = id \/ new \in DOMAIN sessions
    BY <1>1, <2>1 DEF Named, IInv, Requests, Knows, Signing, CreateSession, At
  <2>3. ASSUME NEW s \in DOMAIN sessions PROVE LoginOf(s)' \in DOMAIN sessions'
    BY <2>1 DEF Named, LoginOf
  <2> QED
    BY <2>1, <2>2, <2>3 DEF Named, LoginOf
<1>2. ASSUME NEW S, Revoke(S) PROVE Named'
  BY <1>2, Revoking DEF Named, LoginOf, IInv
<1>3. ASSUME sessions' = sessions PROVE Named'
  BY <1>3 DEF Named, LoginOf
<1>4. ASSUME NEW p \in Procs, Step(p) PROVE Named'
  BY <1>1, <1>2, <1>3, <1>4 DEF Step, ReadPermissions, RevokeOld, Confirm, CheckBlacklist,
     CheckFingerprint, Access, LogoutRevoke, BlacklistToken, ListSessions, RevokeSession, RevokeAll,
     ChangePassword, RevokeAllUserSessions
<1> QED
  BY <1>3, <1>4 DEF Next, Request, Login, Refresh, Authenticate, Abort, PermissionsChange, Tick, vars

LEMMA NamedInvariance == Spec => []Named
<1>1. Init => Named
  BY EmptySeq DEF Init, Named
<1> QED
  BY Invariance, NamedKept, <1>1, PTL DEF Spec

\* Whatever refreshes, logouts and revocations overlap and whatever fails, for any number of
\* handlers, a sign-in begins once, ends only because its user asked for it unless something
\* may lose it, and is never revived (createSession, rotateRefreshToken, revokeSession and
\* revokeAllUserSessions, token.service.ts and session.service.ts).
THEOREM SessionsImplementLifecycle == Spec => ImplementsLifecycle
<1>1. Init => Lifecycle!LifecycleInit
  BY EmptySeq DEF Init, Lifecycle!LifecycleInit, StatusOf, Logins
<1>2. IInv /\ Named /\ [Next]_vars =>
        [Lifecycle!LifecycleNext]_<<[l \in Ids |-> StatusOf(l)], ended>>
  BY StepImplements
<1> QED
  BY Invariance, NamedInvariance, <1>1, <1>2, PTL
  DEF Spec, ImplementsLifecycle, Lifecycle!LifecycleSpec, Lifecycle!lifecycleVars

\* In the life cycle itself, what is over has been asked for, unless it may be lost.
NoneLost == \A l \in Ids : StatusOf(l) = "over" => l \in ended

\* No rotation loses a sign-in or takes another's session, for any number of handlers, whatever
\* refreshes and revocations overlap, as long as none dies half way and none
\* revokes all others, which may end the caller's own sign-in (createSession and
\* rotateRefreshToken, token.service.ts).
THEOREM RotationKeepsLogins ==
    ASSUME "crash" \notin Faults, Ops \cap {"revokeAll", "changePassword"} = {}
    PROVE  Spec => []UndisturbedLoginsLive
<1>0. ~ MayLose
  BY DEF MayLose
<1>1. Lifecycle!LifecycleInit => NoneLost
  BY DEF Lifecycle!LifecycleInit, NoneLost
<1>2. NoneLost /\ [Lifecycle!LifecycleNext]_<<[l \in Ids |-> StatusOf(l)], ended>> => NoneLost'
  <2> SUFFICES ASSUME NoneLost, Lifecycle!LifecycleNext, NEW l \in Ids, StatusOf(l)' = "over"
               PROVE  l \in ended'
    BY DEF NoneLost
  <2>1. ASSUME NEW k \in Ids, Lifecycle!Begin(k) PROVE l \in ended'
    BY <2>1 DEF Lifecycle!Begin, NoneLost
  <2>2. ASSUME NEW S, NEW T, Lifecycle!End(S, T) PROVE l \in ended'
    BY <1>0, <2>2 DEF Lifecycle!End, NoneLost
  <2> QED
    BY <2>1, <2>2 DEF Lifecycle!LifecycleNext
<1>3. IInv /\ NoneLost => UndisturbedLoginsLive
  BY LoginIds DEF NoneLost, StatusOf, UndisturbedLoginsLive, AtRest, Refreshing, At
<1> QED
  BY SessionsImplementLifecycle, Invariance, <1>1, <1>2, <1>3, PTL
  DEF ImplementsLifecycle, Lifecycle!LifecycleSpec, Lifecycle!lifecycleVars

-----------------------------------------------------------------------------
(* Rotation, one request at a time                                         *)

\* The rows: a login is named by its first session, belongs to one user, and has one
\* unrevoked session at most, none once it has been ended.
OneEach ==
    /\ \A s \in DOMAIN sessions : LoginOf(s) \in DOMAIN sessions /\ LoginOf(s) <= s
    /\ \A s, r \in DOMAIN sessions : LoginOf(s) = LoginOf(r) =>
         /\ sessions[s].user = sessions[r].user
         /\ ~ sessions[s].revoked /\ ~ sessions[r].revoked => s = r
    /\ ended \subseteq DOMAIN sessions
    /\ \A s \in DOMAIN sessions : LoginOf(s) \in ended => sessions[s].revoked

\* What the only request has read, or has done, still holds.
Undisturbed ==
    \A p \in Procs :
        LET h == handler[p]
        IN  /\ h.pc \in {"perms", "rotate"} /\ h.op = "refresh" => ~ sessions[h.sid].revoked
            /\ h.pc = "revoke" => ~ sessions[h.sid].revoked
            /\ h.pc = "create" /\ h.op = "refresh" =>
                 /\ LoginOf(h.sid) \notin ended
                 /\ \A s \in DOMAIN sessions : LoginOf(s) = LoginOf(h.sid) => sessions[s].revoked

Serial == OneEach /\ Undisturbed

LEMMA RowsRevoked ==
    ASSUME IInv, OneEach, NEW S, Revoke(S),
           \A l \in ended' : l \in ended \/ (l \in DOMAIN sessions /\ UnrevokedOf(l) \subseteq S)
    PROVE  OneEach'
<1>1. /\ DOMAIN sessions' = DOMAIN sessions
      /\ \A s \in DOMAIN sessions :
           /\ sessions'[s].login = sessions[s].login /\ sessions'[s].user = sessions[s].user
           /\ sessions'[s].revoked = (s \in S \/ sessions[s].revoked)
  BY Revoking DEF IInv
<1>2. \A s \in DOMAIN sessions' : LoginOf(s)' \in DOMAIN sessions' /\ LoginOf(s)' <= s
  BY <1>1 DEF OneEach, LoginOf
<1>3. \A s, r \in DOMAIN sessions' : LoginOf(s)' = LoginOf(r)' =>
         /\ sessions'[s].user = sessions'[r].user
         /\ ~ sessions'[s].revoked /\ ~ sessions'[r].revoked => s = r
  <2> SUFFICES ASSUME NEW s \in DOMAIN sessions, NEW r \in DOMAIN sessions,
                      LoginOf(s) = LoginOf(r)
               PROVE  /\ sessions'[s].user = sessions'[r].user
                      /\ ~ sessions'[s].revoked /\ ~ sessions'[r].revoked => s = r
    BY <1>1 DEF LoginOf
  <2>1. sessions'[s].user = sessions'[r].user
    BY <1>1 DEF OneEach
  <2>2. /\ ~ sessions'[s].revoked => ~ sessions[s].revoked
        /\ ~ sessions'[r].revoked => ~ sessions[r].revoked
    BY <1>1
  <2> QED
    BY <2>1, <2>2 DEF OneEach
<1>4. ended' \subseteq DOMAIN sessions'
  BY <1>1 DEF OneEach
<1>5. ASSUME NEW s \in DOMAIN sessions', LoginOf(s)' \in ended' PROVE sessions'[s].revoked
  <2>1. s \in DOMAIN sessions /\ LoginOf(s) \in ended'
    BY <1>1, <1>5 DEF LoginOf
  <2>2. CASE LoginOf(s) \in ended
    BY <1>1, <2>1, <2>2 DEF OneEach
  <2>3. CASE UnrevokedOf(LoginOf(s)) \subseteq S
    BY <1>1, <2>1, <2>3 DEF UnrevokedOf
  <2> QED
    BY <2>1, <2>2, <2>3
<1> QED
  BY <1>2, <1>3, <1>4, <1>5 DEF OneEach

LEMMA RowsInserted ==
    ASSUME IInv, Serial, NEW p \in Procs, CreateSession(p)
    PROVE  OneEach'
<1> DEFINE g == handler[p]
           id == Len(sessions) + 1
           new == IF g.op = "login" THEN id ELSE LoginOf(g.sid)
<1>1. /\ DOMAIN sessions' = DOMAIN sessions \cup {id} /\ id \notin DOMAIN sessions
      /\ sessions'[id].login = new /\ sessions'[id].user = g.user /\ ~ sessions'[id].revoked
      /\ \A s \in DOMAIN sessions : sessions'[s] = sessions[s]
  BY Created
<1>2. /\ g.op \in {"login", "refresh"} /\ ended' = ended
      /\ g.op = "refresh" => /\ g.sid \in DOMAIN sessions /\ sessions[g.sid].user = g.user
                             /\ LoginOf(g.sid) \notin ended
                             /\ \A s \in DOMAIN sessions :
                                  LoginOf(s) = LoginOf(g.sid) => sessions[s].revoked
  BY DEF IInv, Requests, Knows, Signing, CreateSession, At, Serial, Undisturbed, history
<1>3. Len(sessions) \in Nat /\ DOMAIN sessions = 1 .. Len(sessions)
  BY Table DEF IInv
<1>4. new \in DOMAIN sessions' /\ new <= id /\ new \notin ended
  BY <1>1, <1>2, <1>3 DEF Serial, OneEach
<1>5. \A s \in DOMAIN sessions : /\ sessions'[s].login = LoginOf(s)
                                /\ sessions'[s].login \in DOMAIN sessions
                                /\ sessions'[s].login <= s
  BY <1>1 DEF Serial, OneEach, LoginOf
<1>6. \A s \in DOMAIN sessions : LoginOf(s) = new =>
           sessions[s].user = g.user /\ sessions[s].revoked
  <2>1. CASE g.op = "login"
    BY <1>1, <1>5, <2>1
  <2>2. CASE g.op = "refresh"
    BY <1>2, <2>2 DEF Serial, OneEach
  <2> QED
    BY <1>2, <2>1, <2>2
<1> HIDE DEF new, id, g
<1>7. \A s \in DOMAIN sessions' : LoginOf(s)' \in DOMAIN sessions' /\ LoginOf(s)' <= s
  BY <1>1, <1>4, <1>5 DEF LoginOf
<1>8. \A s, r \in DOMAIN sessions' : LoginOf(s)' = LoginOf(r)' =>
         /\ sessions'[s].user = sessions'[r].user
         /\ ~ sessions'[s].revoked /\ ~ sessions'[r].revoked => s = r
  BY <1>1, <1>5, <1>6 DEF Serial, OneEach, LoginOf
<1>9. ended' \subseteq DOMAIN sessions'
  BY <1>1, <1>2 DEF Serial, OneEach
<1>10. \A s \in DOMAIN sessions' : LoginOf(s)' \in ended' => sessions'[s].revoked
  BY <1>1, <1>2, <1>4, <1>5 DEF Serial, OneEach, LoginOf
<1> QED
  BY <1>7, <1>8, <1>9, <1>10 DEF OneEach

\* The only request's step leads to nothing that could be disturbed.
LEMMA Ends ==
    ASSUME NEW p \in Procs, \A q \in Procs : q = p,
           handler'[p].pc \notin {"perms", "rotate", "revoke", "create"}
    PROVE  Undisturbed'
  BY DEF Undisturbed

LEMMA FinishEnds ==
    ASSUME TypeOK, NEW p \in Procs, Finish(p)
    PROVE  handler'[p].pc \notin {"perms", "rotate", "revoke", "create"}
  BY IdleType DEF Finish, TypeOK

\* Steps that touch no row and end no login.
LEMMA QuietSerial ==
    ASSUME IInv, Serial, NEW p \in Procs, \A q \in Procs : q = p, Request(p) \/ Step(p) \/ Abort(p),
           sessions' = sessions, ended' = ended
    PROVE  Serial'
<1>1. OneEach'
  BY DEF Serial, OneEach, LoginOf
<1>0. handler[p] \in Handler /\ handler \in [Procs -> Handler]
  BY DEF IInv, TypeOK
<1>2. CASE \E s \in delivered : Refresh(p, s)
  <2>1. PICK s \in delivered : Refresh(p, s)
    BY <1>2
  <2>2. handler'[p].pc = "perms" /\ handler'[p].sid = s /\ ~ sessions[s].revoked
    BY <1>0, <2>1 DEF Refresh, Live, Idle
  <2> QED
    BY <1>1, <2>2 DEF Serial, Undisturbed
<1>3. CASE \E u \in Users : Login(p, u)
  <2>1. handler'[p].pc = "perms" /\ handler'[p].op = "login"
    BY <1>0, <1>3 DEF Login, Idle
  <2> QED
    BY <1>1, <2>1 DEF Serial, Undisturbed
<1>4. CASE ReadPermissions(p)
  <2> DEFINE g == handler[p]
  <2>1. /\ handler'[p].op = g.op /\ handler'[p].sid = g.sid
        /\ handler'[p].pc = IF g.op = "login" THEN "create" ELSE "rotate"
        /\ g.pc = "perms"
    BY <1>0, <1>4 DEF ReadPermissions, At, Handler
  <2>2. g.op = "refresh" => ~ sessions[g.sid].revoked
    BY <2>1 DEF Serial, Undisturbed
  <2> QED
    BY <1>1, <2>1, <2>2 DEF Serial, Undisturbed
<1>5. CASE ListSessions(p)
  <2>1. CASE Finish(p)
    BY <1>0, <1>1, <2>1, Ends, FinishEnds DEF Serial, IInv
  <2>2. CASE Live(handler[p].sid) /\ Goto(p, "revoke")
    <3>1. handler'[p].pc = "revoke" /\ handler'[p].sid = handler[p].sid
      BY <1>0, <2>2 DEF Goto, Handler
    <3> QED
      BY <1>1, <2>2, <3>1 DEF Serial, Undisturbed, Live
  <2> QED
    BY <1>5, <2>1, <2>2 DEF ListSessions
<1>6. CASE \E op \in Ops, t \in delivered : \E s \in DOMAIN sessions \cup {NoSession} :
             Authenticate(p, op, t, s)
  <2>1. handler'[p].pc = "blacklisted"
    BY <1>0, <1>6 DEF Authenticate, Idle
  <2> QED
    BY <1>1, <2>1, Ends DEF Serial
<1>7. CASE CheckBlacklist(p) \/ CheckFingerprint(p) \/ LogoutRevoke(p)
  <2>1. handler'[p].pc \in {"fingerprint", "handle", "blacklist"} \/ Finish(p)
    BY <1>0, <1>7 DEF CheckBlacklist, CheckFingerprint, LogoutRevoke, Goto, Handler
  <2> QED
    BY <1>0, <1>1, <2>1, Ends, FinishEnds DEF Serial, IInv
<1>8. CASE Confirm(p) \/ Access(p) \/ BlacklistToken(p) \/ Abort(p) \/ RevokeSession(p)
           \/ RevokeAll(p) \/ ChangePassword(p)
  <2>1. Finish(p)
    BY <1>8 DEF Confirm, Access, BlacklistToken, Abort, RevokeSession, RevokeAll, ChangePassword,
       RevokeAllUserSessions
  <2> QED
    BY <1>1, <2>1, Ends, FinishEnds DEF Serial, IInv
<1>9. CASE RevokeOld(p)
  <2>1. handler[p].sid \in DOMAIN sessions /\ ~ sessions[handler[p].sid].revoked
    BY <1>9 DEF RevokeOld, At, IInv, Requests, Knows, Signing, Serial, Undisturbed
  <2>2. sessions'[handler[p].sid].revoked
    BY <1>9, <2>1, Revoking DEF RevokeOld, IInv
  <2> QED
    BY <2>1, <2>2
<1>10. CASE CreateSession(p)
  BY <1>10, Created
<1> QED
  BY <1>2, <1>3, <1>4, <1>5, <1>6, <1>7, <1>8, <1>9, <1>10 DEF Request, Step

LEMMA SerialStep ==
    ASSUME IInv, Serial, NEW p \in Procs, \A q \in Procs : q = p, Step(p)
    PROVE  Serial'
<1>0. handler[p] \in Handler /\ handler \in [Procs -> Handler]
  BY DEF IInv, TypeOK
<1>1. CASE RevokeOld(p)
  <2> DEFINE sid == handler[p].sid
  <2>1. /\ sid \in DOMAIN sessions /\ ~ sessions[sid].revoked /\ handler[p].op = "refresh"
    BY <1>1 DEF RevokeOld, At, IInv, Requests, Knows, Signing, Serial, Undisturbed
  <2>2. /\ Revoke({sid}) /\ ended' = ended /\ handler'[p].sid = sid
        /\ handler'[p].pc = "create"
    BY <1>0, <1>1 DEF RevokeOld, history, Handler
  <2>3. OneEach'
    BY <2>2, RowsRevoked DEF Serial
  <2>4. LoginOf(sid) \notin ended /\ \A s \in DOMAIN sessions :
            LoginOf(s) = LoginOf(sid) => s = sid \/ sessions[s].revoked
    BY <2>1 DEF Serial, OneEach
  <2>5. /\ DOMAIN sessions' = DOMAIN sessions
        /\ \A s \in DOMAIN sessions :
             /\ sessions'[s].login = sessions[s].login
             /\ sessions'[s].revoked = (s \in {sid} \/ sessions[s].revoked)
    BY <2>2, Revoking DEF IInv
  <2>6. Undisturbed'
    <3> HIDE DEF sid
    <3>1. sessions'[sid].login \notin ended' /\ \A s \in DOMAIN sessions' :
              sessions'[s].login = sessions'[sid].login => sessions'[s].revoked
      BY <2>1, <2>2, <2>4, <2>5 DEF LoginOf
    <3>2. \A q \in Procs : handler'[q].pc = "create" /\ handler'[q].sid = sid
      BY <2>2
    <3> QED
      BY <3>1, <3>2 DEF Undisturbed, LoginOf
  <2> QED
    BY <2>3, <2>6 DEF Serial
<1>2. CASE CreateSession(p)
  <2>1. handler'[p].pc = "confirm" \/ Finish(p)
    BY <1>0, <1>2 DEF CreateSession, Handler
  <2> QED
    BY <1>2, <2>1, RowsInserted, Ends, FinishEnds DEF Serial, IInv
<1>3. ASSUME NEW S, Revoke(S), Finish(p) \/ Goto(p, "blacklist"),
             \A l \in ended' : l \in ended \/ (l \in DOMAIN sessions /\ UnrevokedOf(l) \subseteq S)
      PROVE  Serial'
  <2>1. handler'[p].pc = "blacklist" \/ Finish(p)
    BY <1>0, <1>3 DEF Goto, Handler
  <2> QED
    BY <1>3, <2>1, RowsRevoked, Ends, FinishEnds DEF Serial, IInv
<1>4. CASE LogoutRevoke(p)
  <2> DEFINE s == CurrentSession(p)
  <2>1. CASE s \in DOMAIN sessions
    <3>1. /\ Revoke({s}) /\ Goto(p, "blacklist")
          /\ ended' = IF sessions[s].revoked THEN ended ELSE ended \cup {LoginOf(s)}
      BY <1>4, <2>1 DEF LogoutRevoke
    <3> HIDE DEF s
    <3>2. ~ sessions[s].revoked =>
            LoginOf(s) \in DOMAIN sessions /\ UnrevokedOf(LoginOf(s)) \subseteq {s}
      BY <2>1 DEF Serial, OneEach, UnrevokedOf
    <3> QED
      BY <1>3, <3>1, <3>2
  <2>2. CASE s \notin DOMAIN sessions
    BY <1>4, <2>2, QuietSerial DEF LogoutRevoke, Step
  <2> QED
    BY <2>1, <2>2
<1>5. CASE RevokeSession(p)
  <2> DEFINE s == handler[p].sid
  <2>1. s \in DOMAIN sessions /\ ~ sessions[s].revoked
    BY <1>5 DEF RevokeSession, At, IInv, Requests, Knows, Serial, Undisturbed
  <2>2. Revoke({s}) /\ Finish(p) /\ ended' = ended \cup {LoginOf(s)}
    BY <1>5 DEF RevokeSession
  <2> HIDE DEF s
  <2>3. LoginOf(s) \in DOMAIN sessions /\ UnrevokedOf(LoginOf(s)) \subseteq {s}
    BY <2>1 DEF Serial, OneEach, UnrevokedOf
  <2> QED
    BY <1>3, <2>2, <2>3
<1>6. ASSUME NEW e \in {NoSession, handler[p].token}, RevokeAllUserSessions(p, e) PROVE Serial'
  <2> DEFINE u == handler[p].user
             S == Unrevoked(u) \ {e}
             Ended == OtherLogins(p)
  <2>1. Revoke(S) /\ Finish(p) /\ ended' = ended \cup Ended
    BY <1>6 DEF RevokeAllUserSessions
  <2>2. ASSUME NEW l \in Ended PROVE l \in DOMAIN sessions /\ UnrevokedOf(l) \subseteq S
    <3>1. /\ l # LoginOf(handler[p].token)
          /\ \E s \in DOMAIN sessions : sessions[s].user = u /\ LoginOf(s) = l
      BY <2>2 DEF OtherLogins, OwnSessions
    <3>4. PICK s \in DOMAIN sessions : sessions[s].user = u /\ LoginOf(s) = l
      BY <3>1
    <3>2. l \in DOMAIN sessions
      BY <3>4 DEF Serial, OneEach
    <3>3. ASSUME NEW r \in UnrevokedOf(l) PROVE r \in S
      <4>1. r \in DOMAIN sessions /\ LoginOf(r) = l /\ ~ sessions[r].revoked
        BY DEF UnrevokedOf
      <4>2. sessions[r].user = u
        BY <3>4, <4>1 DEF Serial, OneEach
      <4>3. r # e
        BY <3>1, <4>1, Table DEF IInv, Ids, NoSession
      <4> QED
        BY <4>1, <4>2, <4>3 DEF Unrevoked, OwnSessions
    <3> QED
      BY <3>2, <3>3
  <2> HIDE DEF S, Ended
  <2> QED
    BY <1>3, <2>1, <2>2
<1>7. CASE RevokeAll(p) \/ ChangePassword(p)
  BY <1>6, <1>7 DEF RevokeAll, ChangePassword, CurrentSession
<1>8. CASE \/ ReadPermissions(p) \/ Confirm(p) \/ CheckBlacklist(p) \/ CheckFingerprint(p)
           \/ Access(p) \/ BlacklistToken(p) \/ ListSessions(p)
  <2>1. sessions' = sessions /\ ended' = ended
    BY <1>8 DEF ReadPermissions, Confirm, CheckBlacklist, CheckFingerprint, Access,
       BlacklistToken, ListSessions, history
  <2> QED
    BY <2>1, QuietSerial
<1> QED
  BY <1>1, <1>2, <1>4, <1>5, <1>7, <1>8 DEF Step

LEMMA SerialKept ==
    ASSUME IInv, Serial, \A p, q \in Procs : p = q, [Next]_vars
    PROVE  Serial'
<1>1. ASSUME NEW p \in Procs, Request(p) \/ Abort(p) PROVE Serial'
  <2>1. sessions' = sessions /\ ended' = ended
    BY <1>1 DEF Request, Login, Refresh, Authenticate, Abort, history
  <2> QED
    BY <1>1, <2>1, QuietSerial
<1>2. ASSUME NEW p \in Procs, Step(p) PROVE Serial'
  BY <1>2, SerialStep
<1>3. ASSUME \/ \E u \in Users, f \in Fingerprints : PermissionsChange(u, f)
             \/ Tick \/ UNCHANGED vars
      PROVE  Serial'
  <2>1. sessions' = sessions /\ ended' = ended
    BY <1>3 DEF PermissionsChange, Tick, vars, history
  <2>2. \A p \in Procs : /\ handler'[p].pc = handler[p].pc /\ handler'[p].op = handler[p].op
                         /\ handler'[p].sid = handler[p].sid
    BY <1>3 DEF PermissionsChange, Tick, vars, IInv, TypeOK, Handler
  <2> QED
    BY <2>1, <2>2 DEF Serial, OneEach, Undisturbed, LoginOf
<1> QED
  BY <1>1, <1>2, <1>3 DEF Next

LEMMA SerialInvariance == ASSUME \A p, q \in Procs : p = q PROVE Spec => []Serial
<1>1. Init => Serial
  BY EmptySeq, IdleType DEF Init, Serial, OneEach, Undisturbed
<1>2. IInv /\ Serial /\ [Next]_vars => Serial'
  BY SerialKept
<1> QED
  BY Invariance, <1>1, <1>2, PTL DEF Spec

\* When requests come one at a time, whatever fails and wherever a request dies, a sign-in
\* has at most one unrevoked session, for any number of users and sessions
\* (rotateRefreshToken, token.service.ts).
THEOREM RotationNeverMultiplies ==
    ASSUME \A p, q \in Procs : p = q PROVE Spec => []AtMostOneLivePerLogin
<1>1. IInv /\ Serial => AtMostOneLivePerLogin
  <2> SUFFICES ASSUME IInv, Serial, NEW l \in Logins PROVE Cardinality(UnrevokedOf(l)) <= 1
    BY DEF AtMostOneLivePerLogin
  <2>1. \A s, r \in UnrevokedOf(l) : s = r
    BY DEF Serial, OneEach, UnrevokedOf
  <2>2. CASE UnrevokedOf(l) = {}
    BY <2>2, FS_EmptySet
  <2>3. ASSUME NEW s \in UnrevokedOf(l) PROVE Cardinality(UnrevokedOf(l)) <= 1
    <3>1. UnrevokedOf(l) = {s}
      BY <2>1, <2>3
    <3> QED
      BY <3>1, FS_Singleton
  <2> QED
    BY <2>2, <2>3
<1> QED
  BY Invariance, SerialInvariance, <1>1, PTL

\* Nor is any session left of a sign-in its user has ended (revokeSession,
\* revokeAllUserSessions and logout, auth.service.ts).
THEOREM EndedIsEnded ==
    ASSUME \A p, q \in Procs : p = q PROVE Spec => []EndedLoginsStayEnded
<1>1. Serial => EndedLoginsStayEnded
  BY DEF Serial, OneEach, EndedLoginsStayEnded, UnrevokedOf
<1> QED
  BY SerialInvariance, <1>1, PTL
=============================================================================
