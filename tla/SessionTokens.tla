---------------------------- MODULE SessionTokens ----------------------------
(***************************************************************************)
(* Login sessions, refresh-token rotation, the access-token blacklist and  *)
(* the guard that admits an authenticated request (modules/auth/*.ts and   *)
(* the mutations of auth.resolver.ts that revoke sessions).                *)
(*                                                                         *)
(* Each response that signs a user in carries one access token and one     *)
(* refresh token, and one row of the sessions table stands for both: the   *)
(* row's index names the session, its refresh token and its access token.  *)
(* A request handler is a process; each await is a step of its own.        *)
(***************************************************************************)
EXTENDS Naturals, Sequences, FiniteSets

CONSTANTS
    Users, Procs,
    Fingerprints,   \* values of a user's permission fingerprint
    AccessLife,     \* lifetime of an access token (15 minutes)
    RefreshLife,    \* lifetime of a session (7 days)
    ContextHasSession, \* does the user context name the caller's session?
    Ops,            \* the kinds of request made
    Faults,         \* which of "redis", "crash" may happen
    MaxSessions,    \* bound on the rows of the sessions table
    MaxTime         \* bound on the clock

AllOps == {"login", "refresh", "access", "logout", "revokeSession",
           "revokeAll", "changePassword"}

ASSUME SomeUser == Users # {} /\ Fingerprints # {} /\ IsFiniteSet(Procs)
ASSUME LifeAssumption == AccessLife \in Nat /\ RefreshLife \in Nat
ASSUME ContextAssumption == ContextHasSession \in BOOLEAN
ASSUME OpsAssumption == Ops \subseteq AllOps /\ Faults \subseteq {"redis", "crash"}
ASSUME BoundAssumption == MaxSessions \in Nat /\ MaxTime \in Nat

NoSession == 0
Ids == 1 .. MaxSessions

Row == [user : Users, fp : Fingerprints, accessExp : Nat, expiresAt : Nat,
        revoked : BOOLEAN, login : Ids]

Steps == {"idle", "perms", "rotate", "create", "confirm", "blacklisted",
          "fingerprint", "handle", "revoke", "blacklist"}

VARIABLES
    now,
    sessions,    \* the sessions table, in insertion order
    blacklist,   \* Redis: when token:blacklist:<jti> expires, 0 when absent
    perms,       \* the fingerprint of each user's rows in the database
    handler,     \* the request each process serves and its local variables
    delivered,   \* tokens some client received
    loggedOut,   \* history: access tokens whose logout answered true
    attempted,   \* history: access tokens a logout was admitted for
    ended        \* history: logins the user asked to end, the current one not among "all others"

history == <<loggedOut, attempted, ended>>
vars == <<now, sessions, blacklist, perms, handler, delivered, loggedOut,
          attempted, ended>>

Idle == [pc |-> "idle", op |-> "none", user |-> CHOOSE u \in Users : TRUE,
         token |-> NoSession, sid |-> NoSession,
         fp |-> CHOOSE f \in Fingerprints : TRUE,
         accessExp |-> 0, expiresAt |-> 0, late |-> FALSE, outdated |-> FALSE]

Handler == [pc : Steps, op : Ops \cup {"none"}, user : Users,
            token : Ids \cup {NoSession}, sid : Ids \cup {NoSession},
            fp : Fingerprints, accessExp : Nat, expiresAt : Nat,
            late : BOOLEAN, outdated : BOOLEAN]

Init ==
    /\ now = 0
    /\ sessions = <<>>
    /\ blacklist = [t \in Ids |-> 0]
    /\ perms \in [Users -> Fingerprints]
    /\ handler = [p \in Procs |-> Idle]
    /\ delivered = {} /\ loggedOut = {} /\ attempted = {} /\ ended = {}

-----------------------------------------------------------------------------
At(p, step) == handler[p].pc = step
Goto(p, step) == handler' = [handler EXCEPT ![p].pc = step]
Finish(p) == handler' = [handler EXCEPT ![p] = Idle]

\* The rows that findByRefreshToken and getActiveSessions select.
Live(s) == ~ sessions[s].revoked /\ now < sessions[s].expiresAt

\* The sessions of one sign-in: the first and the ones rotation made of it.
LoginOf(s) == sessions[s].login

\* Rows the requests in progress may still insert count against the bound.
Room == Len(sessions) + Cardinality({p \in Procs :
            handler[p].pc \in {"perms", "rotate", "create"}}) < MaxSessions

Revoke(S) == sessions' = [s \in DOMAIN sessions |->
                IF s \in S THEN [sessions[s] EXCEPT !.revoked = TRUE]
                ELSE sessions[s]]

OwnSessions(u) == {s \in DOMAIN sessions : sessions[s].user = u}
Unrevoked(u) == {s \in OwnSessions(u) : ~ sessions[s].revoked}

-----------------------------------------------------------------------------
(* Signing in and refreshing                                               *)

\* A login whose credentials were accepted goes on to createAuthResponse.
Login(p, u) ==
    /\ "login" \in Ops /\ At(p, "idle") /\ Room
    /\ handler' = [handler EXCEPT ![p] =
                     [Idle EXCEPT !.op = "login", !.user = u, !.pc = "perms"]]
    /\ UNCHANGED <<now, sessions, blacklist, perms, delivered, history>>

\* findByRefreshToken: one read of the live rows, whose hashes are then
\* compared one await at a time; the match is used as it was read.  A token no
\* live row matches is refused, which changes nothing.
Refresh(p, s) ==
    /\ "refresh" \in Ops /\ At(p, "idle") /\ Room
    /\ Live(s)
    /\ handler' = [handler EXCEPT ![p] =
                     [Idle EXCEPT !.op = "refresh", !.user = sessions[s].user,
                                  !.sid = s, !.pc = "perms"]]
    /\ UNCHANGED <<now, sessions, blacklist, perms, delivered, history>>

\* The permissions are read and the access token is signed over them.
ReadPermissions(p) ==
    LET h == handler[p]
        next == IF h.op = "login" THEN "create" ELSE "rotate"
    IN  /\ At(p, "perms")
        /\ handler' = [handler EXCEPT ![p] =
                         [h EXCEPT !.fp = perms[h.user],
                                   !.accessExp = now + AccessLife,
                                   !.expiresAt = now + RefreshLife, !.pc = next]]
        /\ UNCHANGED <<now, sessions, blacklist, perms, delivered, history>>

\* Mutant: rotation forgets to revoke the old session.
RevokeOldSkipped(p) ==
    /\ At(p, "rotate")
    /\ Goto(p, "create")
    /\ UNCHANGED <<now, sessions, blacklist, perms, delivered, history>>

\* Mutant: rotation revokes every session of the user.
RevokeOldEveryone(p) ==
    /\ At(p, "rotate")
    /\ Revoke(OwnSessions(handler[p].user))
    /\ Goto(p, "create")
    /\ UNCHANGED <<now, blacklist, perms, delivered, history>>

\* rotateRefreshToken, first half: revoke the session found earlier, whatever
\* has become of it since.
RevokeOld(p) ==
    /\ At(p, "rotate")
    /\ Revoke({handler[p].sid})
    /\ handler' = [handler EXCEPT ![p].pc = "create",
                                  ![p].expiresAt = now + RefreshLife]
    /\ UNCHANGED <<now, blacklist, perms, delivered, history>>

\* createSession: hash the refresh token, then insert the row.
CreateSession(p) ==
    LET h == handler[p]
        id == Len(sessions) + 1
    IN  /\ At(p, "create")
        /\ sessions' = Append(sessions,
              [user |-> h.user, fp |-> h.fp, accessExp |-> h.accessExp,
               expiresAt |-> h.expiresAt, revoked |-> FALSE,
               login |-> IF h.op = "login" THEN id ELSE LoginOf(h.sid)])
        /\ IF h.op = "login"
             THEN Finish(p) /\ delivered' = delivered \cup {id}
             ELSE /\ handler' = [handler EXCEPT ![p].pc = "confirm", ![p].sid = id]
                  /\ UNCHANGED delivered
        /\ UNCHANGED <<now, blacklist, perms, history>>

\* The new session is looked up before the answer; if it is gone the request
\* fails and the client never learns the new tokens.
Confirm(p) ==
    /\ At(p, "confirm")
    /\ delivered' = IF Live(handler[p].sid) THEN delivered \cup {handler[p].sid}
                    ELSE delivered
    /\ Finish(p)
    /\ UNCHANGED <<now, sessions, blacklist, perms, history>>

-----------------------------------------------------------------------------
(* The JWT guard                                                           *)

\* The signature and the expiry are verified first.  `late' and `outdated'
\* record what was already true of the token when its request came in.
Authenticate(p, op, t, s) ==
    /\ op \in Ops \ {"login", "refresh"}
    /\ (op = "revokeSession") = (s # NoSession)
    /\ At(p, "idle")
    /\ now < sessions[t].accessExp
    /\ handler' = [handler EXCEPT ![p] =
          [Idle EXCEPT !.op = op, !.user = sessions[t].user, !.token = t, !.sid = s,
                       !.late = t \in loggedOut,
                       !.outdated = perms[sessions[t].user] # sessions[t].fp,
                       !.pc = "blacklisted"]]
    /\ UNCHANGED <<now, sessions, blacklist, perms, delivered, history>>

\* isTokenBlacklisted.  RedisService.exists answers false when Redis fails.
CheckBlacklist(p) ==
    LET listed == now < blacklist[handler[p].token]
    IN  /\ At(p, "blacklisted")
        /\ \/ listed /\ Finish(p)
           \/ ~ listed /\ Goto(p, "fingerprint")
           \/ "redis" \in Faults /\ Goto(p, "fingerprint")
        /\ UNCHANGED <<now, sessions, blacklist, perms, delivered, history>>

\* Mutant: the token is compared with the session's accessTokenFingerprint.
CheckFingerprintOfSession(p) ==
    /\ At(p, "fingerprint")
    /\ Goto(p, "handle")
    /\ attempted' = IF handler[p].op = "logout" THEN attempted \cup {handler[p].token}
                    ELSE attempted
    /\ UNCHANGED <<now, sessions, blacklist, perms, delivered, loggedOut, ended>>

\* verifyPermissionFingerprint, against the rows of the database.
CheckFingerprint(p) ==
    LET h == handler[p]
    IN  /\ At(p, "fingerprint")
        /\ IF sessions[h.token].fp = perms[h.user]
             THEN /\ Goto(p, "handle")
                  /\ attempted' = IF h.op = "logout" THEN attempted \cup {h.token}
                                  ELSE attempted
             ELSE Finish(p) /\ UNCHANGED attempted
        /\ UNCHANGED <<now, sessions, blacklist, perms, delivered, loggedOut, ended>>

-----------------------------------------------------------------------------
(* Requests the guard admitted                                             *)

Handling(p, op) == At(p, "handle") /\ handler[p].op = op

\* `currentUser.sessionId || ''' of the resolver.
CurrentSession(p) == IF ContextHasSession THEN handler[p].token ELSE NoSession

Access(p) ==
    /\ Handling(p, "access")
    /\ Finish(p)
    /\ UNCHANGED <<now, sessions, blacklist, perms, delivered, history>>

\* logout, first half: an update of a session id that does not exist throws.
LogoutRevoke(p) ==
    LET s == CurrentSession(p)
    IN  /\ Handling(p, "logout")
        /\ IF s \in DOMAIN sessions
             THEN /\ Revoke({s}) /\ Goto(p, "blacklist")
                  /\ ended' = IF sessions[s].revoked THEN ended
                              ELSE ended \cup {LoginOf(s)}
             ELSE Finish(p) /\ UNCHANGED <<sessions, ended>>
        /\ UNCHANGED <<now, blacklist, perms, delivered, loggedOut, attempted>>

\* Mutant: the blacklist entry lapses one unit before the token.
TtlShort(t) == IF now + 1 < sessions[t].accessExp
               THEN sessions[t].accessExp - now - 1 ELSE 0

\* The rest of a token's life, in seconds; revokeToken writes nothing for 0.
Ttl(t) == IF now < sessions[t].accessExp THEN sessions[t].accessExp - now ELSE 0

\* logout, second half: revokeToken.  A failed Redis write fails the logout.
BlacklistToken(p) ==
    LET t == handler[p].token
    IN  /\ At(p, "blacklist")
        /\ Finish(p)
        /\ \/ /\ blacklist' = IF Ttl(t) > 0 THEN [blacklist EXCEPT ![t] = now + Ttl(t)]
                              ELSE blacklist
              /\ loggedOut' = loggedOut \cup {t}
           \/ /\ "redis" \in Faults
              /\ Ttl(t) > 0
              /\ UNCHANGED <<blacklist, loggedOut>>
        /\ UNCHANGED <<now, sessions, perms, delivered, attempted, ended>>

\* The resolver first looks the session up among the caller's active ones.
ListSessions(p) ==
    LET s == handler[p].sid
    IN  /\ Handling(p, "revokeSession")
        /\ IF s \in OwnSessions(handler[p].user) /\ Live(s)
             THEN Goto(p, "revoke") ELSE Finish(p)
        /\ UNCHANGED <<now, sessions, blacklist, perms, delivered, history>>

RevokeSession(p) ==
    /\ At(p, "revoke")
    /\ Revoke({handler[p].sid})
    /\ ended' = ended \cup {LoginOf(handler[p].sid)}
    /\ Finish(p)
    /\ UNCHANGED <<now, blacklist, perms, delivered, loggedOut, attempted>>

\* "all sessions except the current one": the user's sign-ins but the caller's.
OtherLogins(p) == {LoginOf(s) : s \in OwnSessions(handler[p].user)}
                    \ {LoginOf(handler[p].token)}

\* Mutant: an update of the first row where updateMany was meant.
RevokeFirstUserSession(p, except) ==
    LET S == Unrevoked(handler[p].user) \ {except}
    IN  /\ Revoke({s \in S : \A r \in S : s <= r})
        /\ ended' = ended \cup OtherLogins(p)
        /\ Finish(p)
        /\ UNCHANGED <<now, blacklist, perms, delivered, loggedOut, attempted>>

\* updateMany over the user's unrevoked rows but one, or over all of them when
\* no session is excepted.
RevokeAllUserSessions(p, except) ==
    /\ Revoke(Unrevoked(handler[p].user) \ {except})
    /\ ended' = ended \cup OtherLogins(p)
    /\ Finish(p)
    /\ UNCHANGED <<now, blacklist, perms, delivered, loggedOut, attempted>>

RevokeAll(p) ==
    /\ Handling(p, "revokeAll")
    /\ RevokeAllUserSessions(p, CurrentSession(p))

\* The resolver gives changePassword no session to spare.
ChangePassword(p) ==
    /\ Handling(p, "changePassword")
    /\ RevokeAllUserSessions(p, NoSession)

-----------------------------------------------------------------------------
(* The environment                                                         *)

\* A grant or a revocation commits; a token it makes current is outdated no more.
PermissionsChange(u, f) ==
    /\ perms[u] # f
    /\ perms' = [perms EXCEPT ![u] = f]
    /\ handler' = [p \in Procs |->
          [handler[p] EXCEPT !.outdated =
              @ /\ ~ (handler[p].user = u /\ sessions[handler[p].token].fp = f)]]
    /\ UNCHANGED <<now, sessions, blacklist, delivered, history>>

Tick ==
    /\ now < MaxTime
    /\ now' = now + 1
    /\ UNCHANGED <<sessions, blacklist, perms, handler, delivered, history>>

\* The instance dies, or the next database call throws: nothing is undone.
Abort(p) ==
    /\ "crash" \in Faults
    /\ ~ At(p, "idle")
    /\ Finish(p)
    /\ UNCHANGED <<now, sessions, blacklist, perms, delivered, history>>

Step(p) ==
    \/ ReadPermissions(p) \/ RevokeOld(p) \/ CreateSession(p) \/ Confirm(p)
    \/ CheckBlacklist(p) \/ CheckFingerprint(p)
    \/ Access(p) \/ LogoutRevoke(p) \/ BlacklistToken(p)
    \/ ListSessions(p) \/ RevokeSession(p) \/ RevokeAll(p) \/ ChangePassword(p)

Request(p) ==
    \/ \E u \in Users : Login(p, u)
    \/ \E s \in delivered : Refresh(p, s)
    \/ \E op \in Ops, t \in delivered :
          \E s \in DOMAIN sessions \cup {NoSession} : Authenticate(p, op, t, s)

Next ==
    \/ \E p \in Procs : Request(p) \/ Step(p) \/ Abort(p)
    \/ \E u \in Users, f \in Fingerprints : PermissionsChange(u, f)
    \/ Tick

Spec == Init /\ [][Next]_vars

-----------------------------------------------------------------------------
(* Correctness                                                             *)

AtRest == \A p \in Procs : At(p, "idle")

\* The state is well typed, and every token a client or a handler holds has
\* its row: no response is sent before createSession has returned.
TypeOK ==
    /\ now \in Nat
    /\ sessions \in Seq(Row) /\ Len(sessions) <= MaxSessions
    /\ blacklist \in [Ids -> Nat]
    /\ perms \in [Users -> Fingerprints]
    /\ handler \in [Procs -> Handler]
    /\ delivered \subseteq DOMAIN sessions
    /\ loggedOut \subseteq delivered /\ attempted \subseteq delivered
    /\ \A p \in Procs : handler[p].token \in delivered \cup {NoSession}

UnrevokedOf(l) == {s \in DOMAIN sessions : LoginOf(s) = l /\ ~ sessions[s].revoked}
Logins == {LoginOf(s) : s \in DOMAIN sessions}

\* Rotation replaces a session and never multiplies it: however often a client
\* refreshes, each sign-in has at most one unrevoked session
\* (rotateRefreshToken, "revoking the old one and issuing a new one").
AtMostOneLivePerLogin == \A l \in Logins : Cardinality(UnrevokedOf(l)) <= 1

\* A sign-in that no one asked to end still has an unrevoked session once the
\* requests have finished: no rotation loses it or takes another one's, even
\* when several refreshes and revocations overlap.
UndisturbedLoginsLive ==
    AtRest => \A l \in Logins \ ended : UnrevokedOf(l) # {}

\* Once a user has changed the password, revoked all other sessions, revoked this
\* one or signed out, no session of the sign-ins asked to end is left that a
\* refresh token can prolong.  The sign-in a user means to keep is not asked to
\* end: what becomes of it is CurrentSignInKept.
EndedLoginsStayEnded ==
    AtRest => \A l \in ended : UnrevokedOf(l) = {}

\* Who changes the password or revokes "all sessions except the current one" stays
\* signed in: the request leaves the sign-in it came from its unrevoked session.
CurrentSignInKept ==
    [][\A p \in Procs, l \in Logins :
          /\ Handling(p, "revokeAll") \/ Handling(p, "changePassword")
          /\ handler'[p].pc = "idle" /\ l = LoginOf(handler[p].token)
          /\ UnrevokedOf(l) # {}
          => UnrevokedOf(l)' # {}]_vars

\* An unexpired access token is never admitted by a request that came in after
\* its logout was answered (revokeToken's TTL against the token's expiry, and
\* isTokenBlacklisted, which is to "fail closed").
LoggedOutTokenRejected ==
    \A p \in Procs :
        At(p, "handle") /\ handler[p].late => sessions[handler[p].token].accessExp <= now

\* A token signed over permissions that were already superseded when the request
\* came in, and stayed so, is not admitted: a login that raced a grant included.
OutdatedTokenRejected ==
    \A p \in Procs : At(p, "handle") => ~ handler[p].outdated

\* When no call fails, every logout the guard admitted has blacklisted its
\* access token once it has been answered ("Revoke session and blacklist access
\* token").
LogoutTakesEffect == AtRest => attempted \subseteq loggedOut

-----------------------------------------------------------------------------
(* What sessions implement                                                 *)

\* A refresh of the sign-in is under way.
Refreshing(l) ==
    \E p \in Procs : /\ handler[p].pc \in {"perms", "rotate", "create"}
                     /\ handler[p].op = "refresh" /\ LoginOf(handler[p].sid) = l

StatusOf(l) ==
    IF l \notin Logins THEN "none"
    ELSE IF UnrevokedOf(l) # {} \/ Refreshing(l) THEN "live" ELSE "over"

\* Two things may end a sign-in unasked: a refresh that dies half way, and the
\* requests that revoke all others.  A change of the password spares none, and
\* revoking all spares at best a session that may have been rotated since.
MayLose == "crash" \in Faults \/ Ops \cap {"revokeAll", "changePassword"} # {}

Lifecycle == INSTANCE LoginLifecycle WITH
    SignIns <- Ids, Lossy <- MayLose,
    status <- [l \in Ids |-> StatusOf(l)], asked <- ended

\* Sessions, rotations and revocations, however they overlap, amount to sign-ins
\* that begin once, end because their user asked for it, and never come back to
\* life: no refresh revives a sign-in that has neither an unrevoked session nor a
\* refresh under way, and no rotation loses one or takes another one's session.
ImplementsLifecycle == Lifecycle!LifecycleSpec
==============================================================================
