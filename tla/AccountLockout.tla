--------------------------- MODULE AccountLockout ---------------------------
(***************************************************************************)
(* Failed-login counting, locking and automatic unlocking of one account   *)
(* (validateUser, checkAccountStatus, handleFailedLogin and                *)
(* resetFailedAttempts of modules/auth/auth.service.ts), with several      *)
(* login requests in flight and an administrator who changes the status    *)
(* through updateUser.                                                     *)
(*                                                                         *)
(* A password login may carry an e-mail and the name of an organization.   *)
(* validateUser then judges the organization's owner, and a failure is     *)
(* counted on the user with the e-mail, or on nobody.  The columns of two  *)
(* accounts do not meet in any statement, so this account's row is all     *)
(* there is to see of such a request: it tries a password here that is     *)
(* counted elsewhere ("stray"), or counts a failure here that was judged   *)
(* elsewhere, or found no user and no password to judge ("blind").         *)
(*                                                                         *)
(* lockedUntil is kept as the time left, which a tick of the clock lowers  *)
(* to Over at the end; null is Null.  A password login and a PIN login     *)
(* take the same steps.                                                    *)
(***************************************************************************)
EXTENDS Integers

CONSTANTS
    Procs,        \* login requests in flight
    MaxFailed,    \* MAX_FAILED_ATTEMPTS
    LockDuration, \* LOCKOUT_DURATION_MINUTES
    Attempts,     \* the kinds of login made
    AdminStatus,  \* statuses an administrator may set
    Faults,       \* {"crash"} when a request may die half way
    Null

Status == {"ACTIVE", "LOCKED", "INACTIVE"}
AllAttempts == {"right", "wrong", "stray", "blind"}

ASSUME LimitAssumption == MaxFailed \in Nat \ {0} /\ LockDuration \in Nat
ASSUME AttemptAssumption == Attempts \subseteq AllAttempts
ASSUME AdminAssumption == AdminStatus \subseteq Status /\ Faults \subseteq {"crash"}
ASSUME NullAssumption == Null \notin Int

VARIABLES
    status, failed, lockedUntil, \* the columns of the user's row
    handler,   \* per request: its next await, its kind, what it has read
    wrong,     \* history: wrong passwords since the count was last reset, but for stray ones
    lockLeft,  \* history: time left of the lock last imposed
    signedIn,  \* history: the last step signed a user in
    disturbed  \* history: two requests have overlapped, or one has died

row == <<status, failed, lockedUntil>>
vars == <<status, failed, lockedUntil, handler, wrong, lockLeft, signedIn, disturbed>>

Over == -1
Times == Over .. LockDuration

\* A count past MaxFailed is as good as MaxFailed: it is only compared with it.
Counts == 0 .. MaxFailed
AtMost(n) == IF n < MaxFailed THEN n ELSE MaxFailed

Idle == [pc |-> "idle", attempt |-> "right", seen |-> 0, until |-> Over]
Handler == [pc : {"idle", "unlock", "compare", "reset", "sign", "reread", "count"},
            attempt : AllAttempts \ {"blind"}, seen : Counts, until : Times]

Init ==
    /\ status = "ACTIVE" /\ failed = 0 /\ lockedUntil = Null
    /\ handler = [p \in Procs |-> Idle]
    /\ wrong = 0 /\ lockLeft = Over /\ signedIn = FALSE /\ disturbed = FALSE

-----------------------------------------------------------------------------
At(p, step) == handler[p].pc = step
Goto(p, step) == handler' = [handler EXCEPT ![p].pc = step]
Finish(p) == handler' = [handler EXCEPT ![p] = Idle]

\* Mutant: the comparison with lockedUntil is the wrong way round.
ExpiredReversed(until) == until # Null /\ until > 0

\* `new Date() > user.lockedUntil' for a lock that has an end.
Expired(until) == until # Null /\ until = Over

\* validateUser found nobody to judge, or refused somebody else: handleFailedLogin
\* is called for this account, whatever its status is, as for a wrong password.
Misjudge(p) ==
    /\ "blind" \in Attempts /\ At(p, "idle")
    /\ handler' = [handler EXCEPT ![p] = [Idle EXCEPT !.attempt = "wrong", !.pc = "reread"]]
    /\ signedIn' = FALSE
    /\ disturbed' = (disturbed \/ \E q \in Procs : ~ At(q, "idle"))
    /\ UNCHANGED <<row, wrong, lockLeft>>

\* The user is read and checkAccountStatus judges what was read.  A request it
\* refuses has changed nothing.
Begin(p, attempt) ==
    /\ attempt \in Attempts \ {"blind"} /\ At(p, "idle")
    /\ \/ status = "ACTIVE"
       \/ status = "LOCKED" /\ Expired(lockedUntil)
    /\ handler' = [handler EXCEPT ![p] =
          [Idle EXCEPT !.attempt = attempt,
                       !.pc = IF status = "LOCKED" THEN "unlock" ELSE "compare"]]
    /\ signedIn' = FALSE
    /\ disturbed' = (disturbed \/ \E q \in Procs : ~ At(q, "idle"))
    /\ UNCHANGED <<row, wrong, lockLeft>>

\* The automatic unlock, whatever has happened to the row since it was read.
Unlock(p) ==
    /\ At(p, "unlock")
    /\ status' = "ACTIVE" /\ failed' = 0 /\ lockedUntil' = Null
    /\ Goto(p, "compare")
    /\ wrong' = 0 /\ signedIn' = FALSE
    /\ UNCHANGED <<lockLeft, disturbed>>

\* bcrypt.compare against the hash that was read.  The failure of a stray attempt
\* is another account's, or is counted nowhere.
Compare(p) ==
    /\ At(p, "compare")
    /\ \/ /\ handler[p].attempt = "right"
          /\ Goto(p, "reset") /\ UNCHANGED wrong
       \/ /\ handler[p].attempt = "wrong"
          /\ Goto(p, "reread")
          /\ wrong' = (IF wrong > MaxFailed THEN wrong ELSE wrong + 1)
       \/ /\ handler[p].attempt = "stray"
          /\ Finish(p) /\ UNCHANGED wrong
    /\ signedIn' = FALSE
    /\ UNCHANGED <<row, lockLeft, disturbed>>

\* resetFailedAttempts: the count only.
ResetFailedAttempts(p) ==
    /\ At(p, "reset")
    /\ failed' = 0 /\ wrong' = 0
    /\ Goto(p, "sign")
    /\ signedIn' = FALSE
    /\ UNCHANGED <<status, lockedUntil, lockLeft, disturbed>>

\* createAuthResponse answers with tokens.
SignIn(p) ==
    /\ At(p, "sign")
    /\ Finish(p)
    /\ signedIn' = TRUE
    /\ UNCHANGED <<row, wrong, lockLeft, disturbed>>

\* handleFailedLogin reads the row again and computes the end of a lock ...
Reread(p) ==
    /\ At(p, "reread")
    /\ handler' = [handler EXCEPT ![p].pc = "count", ![p].seen = failed,
                                  ![p].until = LockDuration]
    /\ signedIn' = FALSE
    /\ UNCHANGED <<row, wrong, lockLeft, disturbed>>

\* Mutant: the account is locked only after one failure more.
CountLate(p) ==
    LET n == handler[p].seen + 1
    IN  /\ At(p, "count")
        /\ failed' = AtMost(n)
        /\ IF handler[p].seen >= MaxFailed
             THEN /\ status' = "LOCKED" /\ lockedUntil' = handler[p].until
                  /\ lockLeft' = handler[p].until
             ELSE UNCHANGED <<status, lockedUntil, lockLeft>>
        /\ Finish(p)
        /\ signedIn' = FALSE
        /\ UNCHANGED <<wrong, disturbed>>

\* ... and writes both in a second call, from the count it read.
CountFailure(p) ==
    LET n == handler[p].seen + 1
    IN  /\ At(p, "count")
        /\ failed' = AtMost(n)
        /\ IF n >= MaxFailed
             THEN /\ status' = "LOCKED" /\ lockedUntil' = handler[p].until
                  /\ lockLeft' = handler[p].until
             ELSE UNCHANGED <<status, lockedUntil, lockLeft>>
        /\ Finish(p)
        /\ signedIn' = FALSE
        /\ UNCHANGED <<wrong, disturbed>>

\* updateUser sets the status and leaves the count and lockedUntil.
AdminSets(st) ==
    /\ status' = st
    /\ wrong' = 0 /\ lockLeft' = Over /\ signedIn' = FALSE
    /\ UNCHANGED <<failed, lockedUntil, handler, disturbed>>

Earlier(t) == IF t = Over THEN Over ELSE t - 1

Tick ==
    /\ lockedUntil' = IF lockedUntil = Null THEN Null ELSE Earlier(lockedUntil)
    /\ lockLeft' = Earlier(lockLeft)
    /\ handler' = [p \in Procs |-> [handler[p] EXCEPT !.until = Earlier(@)]]
    /\ signedIn' = FALSE
    /\ UNCHANGED <<status, failed, wrong, disturbed>>

\* The instance dies or the next database call throws.
Abort(p) ==
    /\ "crash" \in Faults /\ ~ At(p, "idle")
    /\ Finish(p)
    /\ signedIn' = FALSE /\ disturbed' = TRUE
    /\ UNCHANGED <<row, wrong, lockLeft>>

Step(p) == Unlock(p) \/ Compare(p) \/ ResetFailedAttempts(p) \/ SignIn(p)
           \/ Reread(p) \/ CountFailure(p)

Next ==
    \/ \E p \in Procs : \/ \E attempt \in Attempts : Begin(p, attempt)
                        \/ Misjudge(p) \/ Step(p) \/ Abort(p)
    \/ \E st \in AdminStatus : AdminSets(st)
    \/ Tick

Spec == Init /\ [][Next]_vars

\* Awaited calls return, time passes, and the rightful user keeps trying.
FairSpec == /\ Spec
            /\ WF_vars(Tick)
            /\ \A p \in Procs : WF_vars(Step(p)) /\ SF_vars(Begin(p, "right"))

-----------------------------------------------------------------------------
(* Correctness                                                             *)

\* The row and the handlers are well typed; in particular no lock has more than
\* LockDuration left.
TypeOK ==
    /\ status \in Status /\ failed \in Counts
    /\ lockedUntil \in Times \cup {Null}
    /\ handler \in [Procs -> Handler]
    /\ wrong \in 0 .. MaxFailed + 1
    /\ lockLeft \in Times /\ signedIn \in BOOLEAN /\ disturbed \in BOOLEAN

\* The MaxFailed-th failure that was counted locks: short of an administrator
\* who says so, an account is never active with a count that should have locked
\* it, however failures, resets and unlocks overlap (handleFailedLogin,
\* checkAccountStatus).
ActiveBelowMax ==
    "ACTIVE" \notin AdminStatus /\ status = "ACTIVE" => failed < MaxFailed

\* A lock that failed logins imposed has an end; with a null lockedUntil
\* checkAccountStatus would refuse the account for ever.
LockCanExpire ==
    "LOCKED" \notin AdminStatus /\ status = "LOCKED" => lockedUntil # Null

\* No more than MaxFailed wrong passwords are tried between two resets of the
\* count ("Lock account after 5 failed attempts"), when requests come one after
\* the other and none dies.  Stray attempts, whose failure the code does not
\* count here, are not among them; but neither they nor blind failures in between
\* make room for one more.
OrderlyGuessesBounded == ~ disturbed => wrong <= MaxFailed

\* A lock lasts as long as it was imposed for, unless an administrator lifts it
\* ("for 30 minutes").
LockHolds == lockLeft # Over => status = "LOCKED"

\* The same as long as requests come one after the other and none dies.
OrderlyLockHolds == ~ disturbed => LockHolds

\* When only right passwords are tried from some time on, nobody administers
\* the account and no request dies, its user gets in again and again, unless the
\* account has been deactivated: every lock runs out.
RightPasswordWorks ==
    (<>[][/\ \A p \in Procs : /\ \A attempt \in Attempts \ {"right"} : ~ Begin(p, attempt)
                             /\ ~ Misjudge(p) /\ ~ Abort(p)
          /\ \A st \in AdminStatus : ~ AdminSets(st)]_vars)
        => []<> signedIn \/ <>[](status = "INACTIVE")
=============================================================================
