---------------------------- MODULE LoginProofs ----------------------------
(***************************************************************************)
(* The ways in: the two guards of a sign-in, for any number of overlapping *)
(* logins (the lockout of an account, and the limiter of the attempts at   *)
(* it), the registration of owners, and the guards of the API they meet    *)
(* once they are in.                                                       *)
(***************************************************************************)
EXTENDS AccountLockout, RateLimit, Registration, Gates, FiniteSetTheorems, TLAPS

(***************************************************************************)
(* Account lockout for any number of overlapping logins, any limit and any *)
(* duration.  Both invariants hold because every write of the status also  *)
(* writes the columns they relate it to: the lock and its end in           *)
(* handleFailedLogin, the unlock and the count in checkAccountStatus.      *)
(***************************************************************************)

LockoutInv == TypeOK /\ ActiveBelowMax /\ LockCanExpire

LEMMA EarlierType == \A t \in Times : Earlier(t) \in Times
  BY LimitAssumption DEF Earlier, Times, Over

LEMMA IdleType == Idle \in Handler
  BY LimitAssumption DEF Idle, Handler, AllAttempts, Counts, Times, Over

\* The values that the counts and clocks are set to.
LEMMA Bounds ==
  /\ 0 \in Counts /\ 0 < MaxFailed /\ 0 \in 0 .. MaxFailed + 1
  /\ Over \in Times /\ LockDuration \in Times
  /\ Null \notin Times
  BY LimitAssumption, NullAssumption DEF Counts, Times, Over

LEMMA InitLockoutInv == Init => LockoutInv
  BY IdleType, Bounds
  DEF Init, LockoutInv, TypeOK, ActiveBelowMax, LockCanExpire, Status

\* The steps of a request that leave the row alone.
LEMMA RowUntouched ==
  ASSUME LockoutInv, UNCHANGED row, handler' \in [Procs -> Handler],
         wrong' \in 0 .. MaxFailed + 1, lockLeft' \in Times, signedIn' \in BOOLEAN,
         disturbed' \in BOOLEAN
  PROVE  LockoutInv'
  BY DEF LockoutInv, TypeOK, ActiveBelowMax, LockCanExpire, row

LEMMA StepLockoutInv ==
  ASSUME LockoutInv, NEW p \in Procs, Step(p)
  PROVE  LockoutInv'
<1>0. /\ TypeOK
      /\ handler \in [Procs -> Handler]
      /\ handler[p] \in Handler
      /\ MaxFailed \in Nat \ {0} /\ LockDuration \in Nat
  BY LimitAssumption DEF LockoutInv, TypeOK
<1>1. \A s \in {"idle", "unlock", "compare", "reset", "sign", "reread", "count"} :
         [handler EXCEPT ![p].pc = s] \in [Procs -> Handler]
  BY <1>0 DEF Handler
<1>2. [handler EXCEPT ![p] = Idle] \in [Procs -> Handler]
  BY <1>0, IdleType
<1>3. CASE Unlock(p)
  <2>1. handler' \in [Procs -> Handler]
    BY <1>1, <1>3 DEF Unlock, Goto
  <2>2. QED
    BY <1>0, <1>3, <2>1, Bounds
    DEF Unlock, LockoutInv, TypeOK, ActiveBelowMax, LockCanExpire, Status
<1>4. CASE Compare(p)
  <2>1. handler' \in [Procs -> Handler]
    BY <1>1, <1>2, <1>4 DEF Compare, Goto, Finish
  <2>2. wrong' \in 0 .. MaxFailed + 1
    BY <1>0, <1>4 DEF Compare, TypeOK
  <2>3. QED
    BY <1>0, <1>4, <2>1, <2>2, RowUntouched DEF Compare, TypeOK
<1>5. CASE ResetFailedAttempts(p)
  <2>1. handler' \in [Procs -> Handler]
    BY <1>1, <1>5 DEF ResetFailedAttempts, Goto
  <2>2. QED
    BY <1>0, <1>5, <2>1, Bounds
    DEF ResetFailedAttempts, LockoutInv, TypeOK, ActiveBelowMax, LockCanExpire
<1>6. CASE SignIn(p)
  BY <1>0, <1>2, <1>6, RowUntouched DEF SignIn, Finish, TypeOK
<1>7. CASE Reread(p)
  <2>1. LockDuration \in Times /\ failed \in Counts
    BY <1>0 DEF TypeOK, Times, Over
  <2>2. handler' \in [Procs -> Handler]
    BY <1>0, <1>7, <2>1 DEF Reread, Handler
  <2>3. QED
    BY <1>0, <1>7, <2>2, RowUntouched DEF Reread, TypeOK
<1>8. CASE CountFailure(p)
  <2>1. handler[p].seen \in Counts /\ handler[p].until \in Times
    BY <1>0 DEF Handler
  <2>2. handler[p].until # Null
    BY <1>0, <2>1, NullAssumption DEF Times, Over
  <2>3. AtMost(handler[p].seen + 1) \in Counts
    BY <1>0, <2>1 DEF AtMost, Counts
  <2>4. CASE handler[p].seen + 1 >= MaxFailed
    BY <1>0, <1>2, <1>8, <2>1, <2>2, <2>3, <2>4
    DEF CountFailure, Finish, LockoutInv, TypeOK, ActiveBelowMax, LockCanExpire, Status
  <2>5. CASE ~ (handler[p].seen + 1 >= MaxFailed)
    <3>1. AtMost(handler[p].seen + 1) < MaxFailed
      BY <1>0, <2>1, <2>5 DEF AtMost, Counts
    <3>2. QED
      BY <1>0, <1>2, <1>8, <2>3, <2>5, <3>1
      DEF CountFailure, Finish, LockoutInv, TypeOK, ActiveBelowMax, LockCanExpire
  <2>6. QED
    BY <2>4, <2>5
<1>9. QED
  BY <1>3, <1>4, <1>5, <1>6, <1>7, <1>8 DEF Step

LEMMA LockoutInvInductive == LockoutInv /\ [Next]_vars => LockoutInv'
<1> SUFFICES ASSUME LockoutInv, [Next]_vars PROVE LockoutInv'
  OBVIOUS
<1>0. TypeOK
  BY DEF LockoutInv
<1>1. ASSUME NEW p \in Procs, NEW attempt \in Attempts, Begin(p, attempt) PROVE LockoutInv'
  <2>1. attempt \in AllAttempts \ {"blind"}
    BY <1>1, AttemptAssumption DEF Begin
  <2>2. handler' \in [Procs -> Handler]
    BY <1>0, <1>1, <2>1, IdleType DEF Begin, TypeOK, Idle, Handler
  <2>3. QED
    BY <1>0, <1>1, <2>2, RowUntouched DEF Begin, TypeOK
<1>8. ASSUME NEW p \in Procs, Misjudge(p) PROVE LockoutInv'
  <2>1. handler' \in [Procs -> Handler]
    BY <1>0, <1>8, IdleType DEF Misjudge, TypeOK, Idle, Handler, AllAttempts
  <2>2. QED
    BY <1>0, <1>8, <2>1, RowUntouched DEF Misjudge, TypeOK
<1>2. ASSUME NEW p \in Procs, Step(p) PROVE LockoutInv'
  BY <1>2, StepLockoutInv
<1>3. ASSUME NEW p \in Procs, Abort(p) PROVE LockoutInv'
  BY <1>0, <1>3, IdleType, RowUntouched DEF Abort, Finish, TypeOK
<1>4. ASSUME NEW st \in AdminStatus, AdminSets(st) PROVE LockoutInv'
  BY <1>0, <1>4, AdminAssumption, Bounds
  DEF AdminSets, LockoutInv, TypeOK, ActiveBelowMax, LockCanExpire
<1>5. CASE Tick
  <2>1. handler' \in [Procs -> Handler]
    BY <1>0, <1>5, EarlierType DEF Tick, TypeOK, Handler
  <2>2. lockLeft' \in Times /\ lockedUntil' \in Times \cup {Null}
    BY <1>0, <1>5, EarlierType DEF Tick, TypeOK
  <2>3. lockedUntil # Null => lockedUntil' # Null
    BY <1>0, <1>5, EarlierType, NullAssumption, LimitAssumption
    DEF Tick, TypeOK, Times, Over
  <2>4. QED
    BY <1>0, <1>5, <2>1, <2>2, <2>3
    DEF Tick, LockoutInv, TypeOK, ActiveBelowMax, LockCanExpire
<1>6. CASE UNCHANGED vars
  BY <1>6 DEF vars, LockoutInv, TypeOK, ActiveBelowMax, LockCanExpire
<1>7. QED
  BY <1>1, <1>2, <1>3, <1>4, <1>5, <1>6, <1>8 DEF Next

\* The row and the requests are well typed, and no lock outlasts LockDuration.
THEOREM LockoutTypeCorrect == Spec => []TypeOK
<1>1. LockoutInv => TypeOK
  BY DEF LockoutInv
<1>2. QED
  BY <1>1, InitLockoutInv, LockoutInvInductive, PTL DEF Spec

\* However failures, resets and unlocks overlap, an account with MaxFailed
\* counted failures is not active.
THEOREM CountedFailuresLock == Spec => []ActiveBelowMax
<1>1. LockoutInv => ActiveBelowMax
  BY DEF LockoutInv
<1>2. QED
  BY <1>1, InitLockoutInv, LockoutInvInductive, PTL DEF Spec

\* However they overlap, a lock that failed logins imposed has an end.
THEOREM LocksHaveAnEnd == Spec => []LockCanExpire
<1>1. LockoutInv => LockCanExpire
  BY DEF LockoutInv
<1>2. QED
  BY <1>1, InitLockoutInv, LockoutInvInductive, PTL DEF Spec

(***************************************************************************)
(* Orderly logins.  As long as requests come one after the other, the      *)
(* count in the row keeps up with the wrong passwords that are to be       *)
(* counted here, and the lock last imposed is the one in the row.          *)
(***************************************************************************)

Busy(p) == ~ At(p, "idle")
Failing(p) == handler[p].pc \in {"reread", "count"}

\* One request is under way at most.
OneAtATime == \A p, q \in Procs : Busy(p) /\ Busy(q) => p = q

\* Every wrong password is counted, or the request that tried it is about to count it;
\* the one that fills the count locks.
GuessesCounted ==
    /\ (\A p \in Procs : ~ Failing(p)) =>
         wrong <= failed /\ (status = "ACTIVE" => wrong < MaxFailed)
    /\ \A p \in Procs :
         /\ At(p, "compare") => wrong < MaxFailed
         /\ Failing(p) => wrong <= failed + 1 /\ wrong <= MaxFailed
         /\ At(p, "count") => handler[p].seen = failed

\* A lock that has not run out is in the row with its end, and nobody is let in: what
\* goes on is a failure that was judged elsewhere.
LockInForce ==
    lockLeft # Over =>
        /\ status = "LOCKED" /\ lockedUntil = lockLeft
        /\ \A p \in Procs : Busy(p) => Failing(p)

Orderly == OneAtATime /\ GuessesCounted /\ LockInForce

OrderlyInv == ~ disturbed => Orderly

LEMMA InitOrderly == Init => OrderlyInv
  BY LimitAssumption
  DEF Init, OrderlyInv, Orderly, OneAtATime, GuessesCounted, LockInForce, Busy, Failing, At, Idle

\* A request that is alone moves to another step, or ends: the others are idle.
LEMMA Alone ==
  ASSUME LockoutInv, Orderly, NEW p \in Procs, Busy(p)
  PROVE  /\ \A q \in Procs : q # p => handler[q].pc = "idle"
         /\ ~ Failing(p) => lockLeft = Over
         /\ MaxFailed \in Nat \ {0} /\ failed \in Nat /\ wrong \in Nat /\ failed <= MaxFailed
         /\ handler[p] \in Handler /\ handler \in [Procs -> Handler]
         /\ status = "ACTIVE" /\ ~ Failing(p) => wrong < MaxFailed
         /\ ~ Failing(p) => wrong <= failed
<1>1. \A q \in Procs : q # p => ~ Failing(q) /\ handler[q].pc = "idle"
  BY DEF Orderly, OneAtATime, Busy, At, Failing
<1>2. /\ handler[p] \in Handler /\ handler \in [Procs -> Handler]
      /\ MaxFailed \in Nat \ {0} /\ failed \in Nat /\ wrong \in Nat /\ failed <= MaxFailed
  BY LimitAssumption DEF LockoutInv, TypeOK, Counts
<1>3. ~ Failing(p) => lockLeft = Over
  BY DEF Orderly, LockInForce
<1>4. ~ Failing(p) => wrong <= failed /\ (status = "ACTIVE" => wrong < MaxFailed)
  BY <1>1 DEF Orderly, GuessesCounted
<1> QED
  BY <1>1, <1>2, <1>3, <1>4

LEMMA StepOrderly ==
  ASSUME LockoutInv, Orderly, NEW p \in Procs, Step(p)
  PROVE  Orderly'
<1>0. Busy(p)
  BY DEF Step, Unlock, Compare, ResetFailedAttempts, SignIn, Reread, CountFailure, At, Busy
<1>1. /\ \A q \in Procs : q # p => handler[q].pc = "idle"
      /\ ~ Failing(p) => lockLeft = Over
      /\ MaxFailed \in Nat \ {0} /\ failed \in Nat /\ wrong \in Nat /\ failed <= MaxFailed
      /\ handler[p] \in Handler /\ handler \in [Procs -> Handler]
      /\ status = "ACTIVE" /\ ~ Failing(p) => wrong < MaxFailed
      /\ ~ Failing(p) => wrong <= failed
  BY <1>0, Alone
<1>2. \A q \in Procs : q # p => handler'[q] = handler[q]
  BY <1>1 DEF Step, Unlock, Compare, ResetFailedAttempts, SignIn, Reread, CountFailure, Goto, Finish
<1>3. OneAtATime'
  BY <1>1, <1>2 DEF OneAtATime, Busy, At
<1>4. CASE Unlock(p)
  <2>1. handler'[p].pc = "compare" /\ failed' = 0 /\ wrong' = 0 /\ lockLeft' = Over
    BY <1>1, <1>4 DEF Unlock, Goto, Failing, At
  <2>2. GuessesCounted'
    BY <1>1, <1>2, <2>1 DEF GuessesCounted, Failing, At
  <2>3. LockInForce'
    BY <2>1 DEF LockInForce
  <2> QED
    BY <1>3, <2>2, <2>3 DEF Orderly
<1>5. CASE Compare(p)
  <2>1. /\ failed' = failed /\ lockLeft' = Over /\ status' = status
        /\ wrong < MaxFailed /\ wrong <= failed
    BY <1>1, <1>5 DEF Orderly, GuessesCounted, Compare, Failing, At, row
  <2>2. \/ handler'[p].pc = "reset" /\ wrong' = wrong
        \/ handler'[p].pc = "reread" /\ wrong' = wrong + 1
        \/ handler'[p].pc = "idle" /\ wrong' = wrong
    <3>1. \/ Goto(p, "reset") /\ wrong' = wrong
          \/ Goto(p, "reread") /\ wrong' = (IF wrong > MaxFailed THEN wrong ELSE wrong + 1)
          \/ Finish(p) /\ wrong' = wrong
      BY <1>5, Zenon DEF Compare
    <3>2. ~ (wrong > MaxFailed)
      BY <1>1, <2>1
    <3>3. Goto(p, "reset") => handler'[p].pc = "reset"
      BY <1>1 DEF Goto
    <3>4. Goto(p, "reread") => handler'[p].pc = "reread"
      BY <1>1 DEF Goto
    <3>5. Finish(p) => handler'[p].pc = "idle"
      BY <1>1 DEF Finish, Idle
    <3> QED
      BY <3>1, <3>2, <3>3, <3>4, <3>5
  <2>3. GuessesCounted'
    BY <1>1, <1>2, <2>1, <2>2 DEF GuessesCounted, Failing, At
  <2>4. LockInForce'
    BY <2>1 DEF LockInForce
  <2> QED
    BY <1>3, <2>3, <2>4 DEF Orderly
<1>6. CASE ResetFailedAttempts(p)
  <2>1. handler'[p].pc = "sign" /\ failed' = 0 /\ wrong' = 0 /\ lockLeft' = Over
    BY <1>1, <1>6 DEF ResetFailedAttempts, Goto, Failing, At
  <2>2. GuessesCounted'
    BY <1>1, <1>2, <2>1 DEF GuessesCounted, Failing, At
  <2>3. LockInForce'
    BY <2>1 DEF LockInForce
  <2> QED
    BY <1>3, <2>2, <2>3 DEF Orderly
<1>7. CASE SignIn(p)
  <2>1. /\ handler'[p].pc = "idle" /\ failed' = failed /\ wrong' = wrong /\ lockLeft' = Over
        /\ status' = status
    BY <1>1, <1>7 DEF SignIn, Finish, Idle, row, Failing, At
  <2>2. GuessesCounted'
    BY <1>1, <1>2, <1>7, <2>1 DEF GuessesCounted, Failing, At, SignIn
  <2>3. LockInForce'
    BY <2>1 DEF LockInForce
  <2> QED
    BY <1>3, <2>2, <2>3 DEF Orderly
<1>8. CASE Reread(p)
  <2>1. /\ handler'[p].pc = "count" /\ handler'[p].seen = failed
        /\ UNCHANGED <<status, failed, lockedUntil, wrong, lockLeft>>
    BY <1>1, <1>8 DEF Reread, row
  <2>2. wrong <= failed + 1 /\ wrong <= MaxFailed
    BY <1>8 DEF Orderly, GuessesCounted, Reread, Failing, At
  <2>3. GuessesCounted'
    BY <1>1, <1>2, <2>1, <2>2 DEF GuessesCounted, Failing, At
  <2>4. LockInForce'
    BY <1>1, <1>2, <2>1 DEF Orderly, LockInForce, Busy, Failing, At
  <2> QED
    BY <1>3, <2>3, <2>4 DEF Orderly
<1>9. CASE CountFailure(p)
  <2>1. handler'[p].pc = "idle" /\ wrong' = wrong
    BY <1>1, <1>9 DEF CountFailure, Finish, Idle
  <2>2. /\ wrong <= failed + 1 /\ wrong <= MaxFailed
        /\ handler[p].seen = failed /\ failed' = AtMost(failed + 1)
    BY <1>9 DEF Orderly, GuessesCounted, CountFailure, Failing, At
  <2>3. \A q \in Procs : handler'[q].pc = "idle"
    BY <1>1, <1>2, <2>1
  <2>4. CASE failed + 1 >= MaxFailed
    <3>1. status' = "LOCKED" /\ lockedUntil' = lockLeft' /\ failed' = MaxFailed
      BY <1>1, <1>9, <2>2, <2>4 DEF CountFailure, AtMost
    <3> QED
      BY <1>1, <1>3, <2>1, <2>2, <2>3, <3>1
      DEF Orderly, GuessesCounted, LockInForce, Failing, Busy, At
  <2>5. CASE failed + 1 < MaxFailed
    <3>1. UNCHANGED <<status, lockedUntil, lockLeft>> /\ failed' = failed + 1
      BY <1>1, <1>9, <2>2, <2>5 DEF CountFailure, AtMost
    <3> QED
      BY <1>1, <1>3, <2>1, <2>2, <2>3, <2>5, <3>1
      DEF Orderly, GuessesCounted, LockInForce, Failing, Busy, At
  <2> QED
    BY <1>1, <2>4, <2>5
<1> QED
  BY <1>4, <1>5, <1>6, <1>7, <1>8, <1>9 DEF Step

LEMMA OrderlyInductive ==
  LockoutInv /\ OrderlyInv /\ [Next]_vars => OrderlyInv'
<1> SUFFICES ASSUME LockoutInv, OrderlyInv, [Next]_vars, ~ disturbed'
             PROVE  Orderly'
  BY DEF OrderlyInv
<1>1. ~ disturbed
  <2>1. disturbed \in BOOLEAN
    BY DEF LockoutInv, TypeOK
  <2>2. disturbed => disturbed'
    BY <2>1 DEF Next, Begin, Misjudge, Step, Unlock, Compare, ResetFailedAttempts, SignIn, Reread,
              CountFailure, Abort, AdminSets, Tick, vars
  <2> QED
    BY <2>2
<1>2. Orderly
  BY <1>1 DEF OrderlyInv
<1>3. /\ MaxFailed \in Nat \ {0} /\ failed \in Nat /\ wrong \in Nat
      /\ handler \in [Procs -> Handler]
  BY LimitAssumption DEF LockoutInv, TypeOK, Counts
<1>4. ASSUME NEW p \in Procs, NEW attempt \in Attempts, Begin(p, attempt) PROVE Orderly'
  <2>1. \A q \in Procs : handler[q].pc = "idle"
    BY <1>4 DEF Begin, At
  <2>2. /\ \A q \in Procs : q # p => handler'[q].pc = "idle"
        /\ handler'[p].pc = IF status = "LOCKED" THEN "unlock" ELSE "compare"
        /\ status' = status /\ failed' = failed /\ wrong' = wrong
    BY <1>3, <1>4, <2>1 DEF Begin, Idle, row
  <2>3. wrong <= failed /\ (status = "ACTIVE" => wrong < MaxFailed)
    BY <1>2, <2>1 DEF Orderly, GuessesCounted, Failing
  <2>4. lockLeft' = Over
    BY <1>2, <1>4 DEF Orderly, LockInForce, Begin, Expired
  <2>5. status = "LOCKED" \/ status = "ACTIVE"
    BY <1>4 DEF Begin
  <2>6. GuessesCounted'
    BY <1>3, <2>2, <2>3, <2>5 DEF GuessesCounted, Failing, At
  <2> QED
    BY <2>2, <2>4, <2>6 DEF Orderly, OneAtATime, LockInForce, Busy, At
<1>10. ASSUME NEW p \in Procs, Misjudge(p) PROVE Orderly'
  <2>1. \A q \in Procs : handler[q].pc = "idle"
    BY <1>10 DEF Misjudge, At
  <2>2. /\ \A q \in Procs : q # p => handler'[q].pc = "idle"
        /\ handler'[p].pc = "reread"
        /\ UNCHANGED <<status, failed, lockedUntil, wrong, lockLeft>>
    BY <1>3, <1>10, <2>1 DEF Misjudge, Idle, row
  <2>3. wrong <= failed /\ failed <= MaxFailed
    BY <1>2, <2>1 DEF Orderly, GuessesCounted, Failing, LockoutInv, TypeOK, Counts
  <2>4. GuessesCounted'
    BY <1>3, <2>2, <2>3 DEF GuessesCounted, Failing, At
  <2>5. LockInForce'
    BY <1>2, <2>2 DEF Orderly, LockInForce, Busy, Failing, At
  <2> QED
    BY <2>2, <2>4, <2>5 DEF Orderly, OneAtATime, Busy, At
<1>5. ASSUME NEW p \in Procs, Step(p) PROVE Orderly'
  BY <1>2, <1>5, StepOrderly
<1>6. ASSUME NEW p \in Procs, Abort(p) PROVE Orderly'
  BY <1>6 DEF Abort
<1>7. ASSUME NEW st \in AdminStatus, AdminSets(st) PROVE Orderly'
  BY <1>2, <1>3, <1>7
  DEF AdminSets, Orderly, OneAtATime, GuessesCounted, LockInForce, Busy, Failing, At
<1>8. CASE Tick
  <2>1. \A q \in Procs : handler'[q].pc = handler[q].pc /\ handler'[q].seen = handler[q].seen
    BY <1>3, <1>8 DEF Tick, Handler
  <2>2. OneAtATime' /\ GuessesCounted'
    BY <1>2, <1>8, <2>1 DEF Tick, Orderly, OneAtATime, GuessesCounted, Busy, Failing, At
  <2>3. lockLeft = Over => lockLeft' = Over
    BY <1>8 DEF Tick, Earlier
  <2>4. lockLeft # Over => lockedUntil' = lockLeft'
    BY <1>2, <1>8, NullAssumption DEF Tick, Earlier, Orderly, LockInForce, LockoutInv, TypeOK, Times, Over
  <2>5. LockInForce'
    BY <1>2, <1>8, <2>1, <2>3, <2>4 DEF Tick, Orderly, LockInForce, Busy, Failing, At
  <2> QED
    BY <2>2, <2>5 DEF Orderly
<1>9. CASE UNCHANGED vars
  BY <1>2, <1>9 DEF vars, Orderly, OneAtATime, GuessesCounted, LockInForce, Busy, Failing, At
<1> QED
  BY <1>4, <1>5, <1>6, <1>7, <1>8, <1>9, <1>10 DEF Next

LEMMA LockoutInvariance == Spec => [](LockoutInv /\ OrderlyInv)
  BY InitLockoutInv, LockoutInvInductive, InitOrderly, OrderlyInductive, PTL DEF Spec

\* While requests come one after the other, between two resets of the count no more than
\* MaxFailed wrong passwords whose failure belongs to the account are tried, whatever the
\* limit, the administrator and the clock, and whatever attempts come in between that are
\* judged here and counted elsewhere, or judged elsewhere and counted here.
THEOREM GuessesAreBounded == Spec => []OrderlyGuessesBounded
<1>1. LockoutInv /\ OrderlyInv => OrderlyGuessesBounded
  BY LimitAssumption
  DEF LockoutInv, TypeOK, Counts, OrderlyInv, Orderly, GuessesCounted, OrderlyGuessesBounded
<1> QED
  BY <1>1, LockoutInvariance, PTL

\* While they do, an imposed lock keeps the account locked until it runs out or an
\* administrator lifts it.
THEOREM LocksHold == Spec => []OrderlyLockHolds
<1>1. OrderlyInv => OrderlyLockHolds
  BY DEF OrderlyInv, Orderly, LockInForce, OrderlyLockHolds, LockHolds
<1> QED
  BY <1>1, LockoutInvariance, PTL

(***************************************************************************)
(* The rate limiter for any number of overlapping requests, with failing   *)
(* calls and requests that die half way.                                   *)
(*                                                                         *)
(* The overshoot: a request adds itself to Counting only while the counter *)
(* is below the limit, or blindly, and then moves from Counting to the     *)
(* counter.  The window: the request that is about to call EXPIRE is the   *)
(* only one, and its key has no time to live before (PendingAlone).        *)
(***************************************************************************)

\* A request sets the window it created, and no other.
PendingAlone ==
    \A p \in Clients : pc[p] = "expire" =>
        /\ count > 0 /\ ttl = NoTtl
        /\ \A q \in Clients : pc[q] = "expire" => q = p

RateInv == RateTypeOK /\ OvershootBounded /\ PendingAlone /\ SomeoneSetsTtl

LEMMA CountingFinite ==
  IsFiniteSet(Counting) /\ Cardinality(Counting) \in Nat /\ Cardinality(Clients) \in Nat
<1>1. Counting \subseteq Clients
  BY DEF Counting
<1>2. QED
  BY <1>1, RateAssumption, FS_Subset, FS_CardinalityType

\* A request that is not counting leaves room for itself.
LEMMA RoomToCount ==
  ASSUME NEW p \in Clients, pc[p] # "incr"
  PROVE  Cardinality(Counting) + 1 <= Cardinality(Clients)
<1>1. Counting \cup {p} \subseteq Clients /\ p \notin Counting
  BY DEF Counting
<1>2. Cardinality(Counting \cup {p}) = Cardinality(Counting) + 1
  BY <1>1, CountingFinite, FS_AddElement
<1>3. Cardinality(Counting \cup {p}) <= Cardinality(Clients)
  BY <1>1, RateAssumption, FS_Subset
<1>4. QED
  BY <1>2, <1>3

\* A step to a place other than "incr" takes p out of Counting, if it was in it.
LEMMA LeaveCounting ==
  ASSUME RateTypeOK, NEW p \in Clients, NEW s, s # "incr", pc' = [pc EXCEPT ![p] = s]
  PROVE  /\ Counting' = Counting \ {p}
         /\ Cardinality(Counting') =
              IF pc[p] = "incr" THEN Cardinality(Counting) - 1 ELSE Cardinality(Counting)
<1>1. Counting' = Counting \ {p}
  BY DEF Counting, RateTypeOK
<1>2. (p \in Counting) <=> (pc[p] = "incr")
  BY DEF Counting
<1>3. Cardinality(Counting \ {p}) =
        IF p \in Counting THEN Cardinality(Counting) - 1 ELSE Cardinality(Counting)
  BY CountingFinite, FS_RemoveElement
<1>4. QED
  BY <1>1, <1>2, <1>3

LEMMA InitRateInv == RateInit => RateInv
<1> SUFFICES ASSUME RateInit PROVE RateInv
  OBVIOUS
<1>1. RateTypeOK
  BY DEF RateInit, RateTypeOK
<1>2. Counting = {}
  BY DEF RateInit, Counting
<1>3. OvershootBounded
  BY <1>2, CountingFinite, FS_EmptySet, RateAssumption DEF RateInit, OvershootBounded
<1>4. PendingAlone /\ SomeoneSetsTtl
  BY DEF RateInit, PendingAlone, SomeoneSetsTtl
<1>5. QED
  BY <1>1, <1>3, <1>4 DEF RateInv

LEMMA TypeInductive == RateTypeOK /\ [RateNext]_rateVars => RateTypeOK'
<1> SUFFICES ASSUME RateTypeOK, [RateNext]_rateVars PROVE RateTypeOK'
  OBVIOUS
<1> USE DEF RateTypeOK
<1>1. ASSUME NEW p \in Clients, Check(p) PROVE RateTypeOK'
  BY <1>1 DEF Check, RateGoto
<1>2. ASSUME NEW p \in Clients, Incr(p) PROVE RateTypeOK'
  BY <1>2 DEF Incr, RateGoto
<1>3. ASSUME NEW p \in Clients, Expire(p) PROVE RateTypeOK'
  BY <1>3, RateAssumption DEF Expire, RateGoto
<1>4. ASSUME NEW p \in Clients, FailOpen(p) \/ Crash(p) PROVE RateTypeOK'
  BY <1>4 DEF FailOpen, Crash, RateGoto
<1>5. CASE RateTick
  BY <1>5, RateAssumption DEF RateTick
<1>6. CASE UNCHANGED rateVars
  BY <1>6 DEF rateVars
<1>7. QED
  BY <1>1, <1>2, <1>3, <1>4, <1>5, <1>6 DEF RateNext, RateStep

LEMMA OvershootInductive == RateTypeOK /\ OvershootBounded /\ [RateNext]_rateVars => OvershootBounded'
<1> SUFFICES ASSUME RateTypeOK, OvershootBounded, [RateNext]_rateVars PROVE OvershootBounded'
  OBVIOUS
<1>0. count \in Nat /\ blind \in Nat /\ MaxAttempts \in Nat
  BY RateAssumption DEF RateTypeOK
<1>1. ASSUME NEW p \in Clients, Check(p) PROVE OvershootBounded'
  <2>1. pc[p] # "incr" /\ count' = count
    BY <1>1 DEF Check, RateAt
  <2>2. Counting' = Counting \cup {p}
    BY <1>1 DEF Check, RateGoto, Counting, RateTypeOK
  <2>3. Cardinality(Counting') = Cardinality(Counting) + 1
    <3>1. p \notin Counting
      BY <2>1 DEF Counting
    <3>2. QED
      BY <2>2, <3>1, CountingFinite, FS_AddElement
  <2>4. Cardinality(Counting) + 1 <= Cardinality(Clients)
    BY <2>1, RoomToCount
  <2>5. CASE count < MaxAttempts /\ blind' = blind
    BY <1>0, <2>1, <2>3, <2>4, <2>5, CountingFinite DEF OvershootBounded
  <2>6. CASE blind' = blind + 1
    BY <1>0, <2>1, <2>3, <2>6, CountingFinite DEF OvershootBounded
  <2>7. QED
    BY <1>1, <2>5, <2>6 DEF Check, BelowLimit
<1>2. ASSUME NEW p \in Clients, Incr(p) PROVE OvershootBounded'
  <2>1. pc[p] = "incr" /\ count' = count + 1 /\ blind' = blind
    BY <1>2 DEF Incr, RateAt
  <2>2. Cardinality(Counting') = Cardinality(Counting) - 1
    <3>1. pc' = [pc EXCEPT ![p] = IF count = 0 THEN "expire" ELSE "idle"]
      BY <1>2 DEF Incr, RateGoto
    <3>2. (IF count = 0 THEN "expire" ELSE "idle") # "incr"
      OBVIOUS
    <3>3. QED
      BY <2>1, <3>1, <3>2, LeaveCounting
  <2>3. QED
    BY <1>0, <2>1, <2>2, CountingFinite DEF OvershootBounded
<1>3. ASSUME NEW p \in Clients, Expire(p) \/ FailOpen(p) \/ Crash(p)
      PROVE OvershootBounded'
  <2>1. count' = count /\ blind' = blind /\ pc' = [pc EXCEPT ![p] = "idle"]
    BY <1>3 DEF Expire, FailOpen, Crash, RateGoto
  <2>2. Cardinality(Counting') \in {Cardinality(Counting), Cardinality(Counting) - 1}
    BY <2>1, LeaveCounting
  <2>3. QED
    BY <1>0, <2>1, <2>2, CountingFinite DEF OvershootBounded
<1>4. CASE RateTick
  <2>1. count' \in {count, 0} /\ Counting' = Counting /\ blind' = blind
    BY <1>4 DEF RateTick, Counting
  <2>2. QED
    BY <1>0, <2>1, CountingFinite DEF OvershootBounded
<1>5. CASE UNCHANGED rateVars
  BY <1>0, <1>5 DEF rateVars, OvershootBounded, Counting
<1>6. QED
  BY <1>1, <1>2, <1>3, <1>4, <1>5 DEF RateNext, RateStep

\* The creator of a key reaches EXPIRE alone, and nothing but EXPIRE sets a window.
LEMMA WindowInductive ==
  ASSUME RateTypeOK, PendingAlone, SomeoneSetsTtl, [RateNext]_rateVars
  PROVE  PendingAlone' /\ SomeoneSetsTtl'
<1> USE DEF RateTypeOK, PendingAlone, SomeoneSetsTtl
<1>1. ASSUME NEW p \in Clients, Check(p) PROVE PendingAlone' /\ SomeoneSetsTtl'
  BY <1>1 DEF Check, RateAt, RateGoto
<1>2. ASSUME NEW p \in Clients, Incr(p) PROVE PendingAlone' /\ SomeoneSetsTtl'
  <2>1. CASE count = 0
    <3>1. \A q \in Clients : pc[q] # "expire"
      BY <2>1
    <3>2. ttl = NoTtl /\ ttl' = ttl /\ count' = 1
      BY <1>2, <2>1 DEF Incr
    <3>3. \A q \in Clients : pc'[q] = "expire" <=> q = p
      BY <1>2, <2>1, <3>1 DEF Incr, RateGoto
    <3>4. QED
      BY <3>2, <3>3
  <2>2. CASE count # 0
    <3>1. count' > 0 /\ count > 0 /\ ttl' = ttl /\ interrupted' = interrupted
      BY <1>2, <2>2 DEF Incr
    <3>2. \A q \in Clients : pc'[q] = "expire" <=> pc[q] = "expire"
      BY <1>2, <2>2 DEF Incr, RateGoto, RateAt
    <3>3. QED
      BY <3>1, <3>2
  <2>3. QED
    BY <2>1, <2>2
<1>3. ASSUME NEW p \in Clients, Expire(p) PROVE PendingAlone' /\ SomeoneSetsTtl'
  <2>1. count > 0 /\ \A q \in Clients : pc[q] = "expire" => q = p
    BY <1>3 DEF Expire, RateAt
  <2>2. ttl' = Window /\ ttl' # NoTtl
    BY <1>3, <2>1, RateAssumption DEF Expire
  <2>3. \A q \in Clients : pc'[q] # "expire"
    BY <1>3, <2>1 DEF Expire, RateGoto
  <2>4. QED
    BY <2>2, <2>3
<1>4. ASSUME NEW p \in Clients, FailOpen(p) \/ Crash(p)
      PROVE PendingAlone' /\ SomeoneSetsTtl'
  BY <1>4 DEF FailOpen, Crash, RateGoto
<1>5. CASE RateTick
  <2>1. CASE ttl = NoTtl
    BY <1>5, <2>1 DEF RateTick
  <2>2. CASE ttl # NoTtl
    <3>1. \A q \in Clients : pc'[q] # "expire"
      BY <1>5, <2>2 DEF RateTick
    <3>2. count' = 0 \/ ttl' # NoTtl
      BY <1>5, <2>2, RateAssumption DEF RateTick
    <3>3. QED
      BY <3>1, <3>2
  <2>3. QED
    BY <2>1, <2>2
<1>6. CASE UNCHANGED rateVars
  BY <1>6 DEF rateVars
<1>7. QED
  BY <1>1, <1>2, <1>3, <1>4, <1>5, <1>6 DEF RateNext, RateStep

LEMMA RateInvInductive == RateInv /\ [RateNext]_rateVars => RateInv'
  BY TypeInductive, OvershootInductive, WindowInductive DEF RateInv

\* Only EXPIRE lengthens a time to live, and it meets a key that has none.
LEMMA WindowStep ==
  ASSUME RateInv, [RateNext]_rateVars, ttl # NoTtl, ttl' # NoTtl
  PROVE  ttl' <= ttl
<1> USE DEF RateInv, RateTypeOK
<1>1. ASSUME NEW p \in Clients, Expire(p) PROVE FALSE
  BY <1>1 DEF Expire, RateAt, PendingAlone
<1>2. CASE RateTick
  BY <1>2, RateAssumption DEF RateTick
<1>3. CASE UNCHANGED ttl
  BY <1>3, RateAssumption
<1>4. QED
  BY <1>1, <1>2, <1>3 DEF RateNext, RateStep, Check, Incr, FailOpen, Crash, rateVars

LEMMA RateInvariance == RateSpec => []RateInv
  BY InitRateInv, RateInvInductive, PTL DEF RateSpec

\* The counter is well typed, and a key that does not exist has no time to live.
THEOREM RateTypeCorrect == RateSpec => []RateTypeOK
<1>1. RateInv => RateTypeOK
  BY DEF RateInv
<1>2. QED
  BY <1>1, RateInvariance, PTL

\* One window counts fewer requests than the limit and the requests in flight
\* together, but for those whose read failed.
THEOREM OvershootIsBounded == RateSpec => []OvershootBounded
<1>1. RateInv => OvershootBounded
  BY DEF RateInv
<1>2. QED
  BY <1>1, RateInvariance, PTL

\* A counter without a time to live is about to get one, unless a request has
\* ended between its calls.
THEOREM WindowIsSet == RateSpec => []SomeoneSetsTtl
<1>1. RateInv => SomeoneSetsTtl
  BY DEF RateInv
<1>2. QED
  BY <1>1, RateInvariance, PTL

\* No attempt prolongs a window, whatever overlaps, fails or dies.
THEOREM WindowStaysFixed == RateSpec => WindowIsFixed
<1>1. RateInv /\ [RateNext]_rateVars => [ttl # NoTtl /\ ttl' # NoTtl => ttl' <= ttl]_rateVars
  BY WindowStep
<1>2. QED
  BY <1>1, RateInvariance, PTL DEF RateSpec, WindowIsFixed

-----------------------------------------------------------------------------
(***************************************************************************)
(* Registration for any number of owners whose requests overlap, fail and  *)
(* die.  No index keeps an e-mail to one owner: what does is the check,    *)
(* and the invariant says what a passed check is worth once others have    *)
(* passed theirs and updateUser has written what it liked.                 *)
(***************************************************************************)

FormSteps == {"check", "create", "permissions", "snapshot", "sign in", "done"}
FormAnswers == {"none", "conflict", "error", "token with permissions", "token without permissions"}

\* A registration keeps its input, and what is stored is made of the inputs.
RegTypeOK ==
  /\ form \in [Signups -> [at : FormSteps, email : Emails, name : Names]]
  /\ answer \in [Signups -> FormAnswers]
  /\ granted \subseteq Signups /\ snapshots \subseteq Signups
  /\ \A a \in accounts : a.form \in Signups
  /\ \A o \in orgs : o.owner \in Signups /\ o = Organization(o.owner)

\* The account appears with the transaction, not before it, and is there after it.
StoredOnce ==
  /\ \A a \in accounts : form[a.form].at \notin {"check", "create"}
  /\ \A f \in Signups : form[f].at \in {"permissions", "snapshot", "sign in"} => HasAccount(f)
  /\ \A f \in granted : HasAccount(f)

\* An e-mail that has passed its check is still free, or was written or checked meanwhile.
ChecksHold ==
  \A f \in Signups : On(f, "create") =>
    /\ \A a \in accounts : a.email = form[f].email => a.email \in raced
    /\ \A g \in Signups : On(g, "create") /\ form[g].email = form[f].email =>
         f = g \/ form[f].email \in raced

\* Only a registration that is over has an answer, and a refusal left no account.
Answered ==
  \A f \in Signups :
    /\ answer[f] # "none" => On(f, "done")
    /\ answer[f] = "conflict" => ~ HasAccount(f)
    /\ answer[f] = "token with permissions" => f \in granted

RegInv ==
  /\ RegTypeOK /\ StoredOnce /\ ChecksHold /\ Answered
  /\ OwnersAreWhole /\ EmailsDistinct

LEMMA InitRegInv == RegInit => RegInv
  BY DEF RegInit, RegInv, RegTypeOK, StoredOnce, ChecksHold, Answered, OwnersAreWhole,
         EmailsDistinct, HasAccount, On, FormSteps, FormAnswers

\* A registration that moves on moves alone and keeps its input.
LEMMA MovesAlone ==
  ASSUME RegTypeOK, NEW f \in Signups, NEW step \in FormSteps, Proceed(f, step)
  PROVE  /\ form' \in [Signups -> [at : FormSteps, email : Emails, name : Names]]
         /\ form'[f].at = step
         /\ \A g \in Signups : g # f => form'[g] = form[g]
         /\ \A g \in Signups : form'[g].email = form[g].email /\ form'[g].name = form[g].name
         /\ \A g \in Signups : Organization(g)' = Organization(g)
<1>1. /\ form \in [Signups -> [at : FormSteps, email : Emails, name : Names]]
      /\ form' = [form EXCEPT ![f] = [form[f] EXCEPT !.at = step]]
  BY DEF RegTypeOK, Proceed
<1>2. form[f] \in [at : FormSteps, email : Emails, name : Names]
  BY <1>1
<1>3. [form[f] EXCEPT !.at = step] \in [at : FormSteps, email : Emails, name : Names]
  BY <1>2
<1>4. /\ form'[f] = [form[f] EXCEPT !.at = step]
      /\ \A g \in Signups : g # f => form'[g] = form[g]
  BY <1>1
<1>5. form'[f].at = step /\ form'[f].email = form[f].email /\ form'[f].name = form[f].name
  BY <1>2, <1>4
<1>6. \A g \in Signups : form'[g].email = form[g].email /\ form'[g].name = form[g].name
  BY <1>4, <1>5
<1>7. form' \in [Signups -> [at : FormSteps, email : Emails, name : Names]]
  BY <1>1, <1>3
<1> QED
  BY <1>4, <1>5, <1>6, <1>7 DEF Organization

\* The steps of a registration after its transaction, and those that end it without one,
\* leave accounts, organizations and the checked e-mails alone.
LEMMA RestOfRegistration ==
  ASSUME RegInv, NEW f \in Signups, NEW step \in {"snapshot", "sign in", "done"},
         Proceed(f, step), UNCHANGED <<accounts, orgs, raced, unchecked>>,
         step # "done" => form[f].at \in {"permissions", "snapshot"}
  PROVE  /\ \A a \in accounts' : a.form \in Signups
         /\ \A o \in orgs' : o.owner \in Signups /\ o = Organization(o.owner)'
         /\ \A a \in accounts' : form'[a.form].at \notin {"check", "create"}
         /\ \A g \in Signups : form'[g].at \in {"permissions", "snapshot", "sign in"} =>
              HasAccount(g)'
         /\ ChecksHold' /\ OwnersAreWhole' /\ EmailsDistinct'
<1>1. step \in FormSteps /\ RegTypeOK
  BY DEF FormSteps, RegInv
<1>2. /\ form'[f].at = step
      /\ \A g \in Signups : g # f => form'[g] = form[g]
      /\ \A g \in Signups : form'[g].email = form[g].email
      /\ \A g \in Signups : Organization(g)' = Organization(g)
  BY <1>1, MovesAlone
<1>3. /\ \A a \in accounts' : a.form \in Signups
      /\ \A o \in orgs' : o.owner \in Signups /\ o = Organization(o.owner)'
  BY <1>1, <1>2 DEF RegTypeOK
<1>4. \A a \in accounts' : form'[a.form].at \notin {"check", "create"}
  BY <1>2, <1>3 DEF RegInv, StoredOnce
<1>5. \A g \in Signups : form'[g].at \in {"permissions", "snapshot", "sign in"} =>
        HasAccount(g)'
  BY <1>2 DEF RegInv, StoredOnce, HasAccount
<1>6. ChecksHold'
  BY <1>2 DEF RegInv, ChecksHold, On
<1>7. OwnersAreWhole' /\ EmailsDistinct'
  BY DEF RegInv, OwnersAreWhole, EmailsDistinct
<1> QED
  BY <1>3, <1>4, <1>5, <1>6, <1>7

LEMMA RegInvInductive == RegInv /\ [RegNext]_regVars => RegInv'
<1> SUFFICES ASSUME RegInv, [RegNext]_regVars PROVE RegInv'
  OBVIOUS
<1>1. CASE UNCHANGED regVars
  BY <1>1 DEF regVars, RegInv, RegTypeOK, StoredOnce, ChecksHold, Answered, OwnersAreWhole,
              EmailsDistinct, HasAccount, On, Organization
<1>2. ASSUME NEW f \in Signups, CheckEmail(f) PROVE RegInv'
  <2>1. /\ On(f, "check") /\ ~ Taken(f) /\ Proceed(f, "create")
        /\ UNCHANGED <<accounts, orgs, granted, snapshots, answer, unchecked>>
        /\ raced' = raced \cup PastCheck(form[f].email)
    BY <1>2 DEF CheckEmail
  <2>2. RegTypeOK /\ "create" \in FormSteps
    BY DEF RegInv, FormSteps
  <2>3. /\ form' \in [Signups -> [at : FormSteps, email : Emails, name : Names]]
        /\ form'[f].at = "create"
        /\ \A g \in Signups : g # f => form'[g] = form[g]
        /\ \A g \in Signups : form'[g].email = form[g].email
        /\ \A g \in Signups : Organization(g)' = Organization(g)
    BY <2>1, <2>2, MovesAlone
  <2>4. RegTypeOK'
    BY <2>1, <2>2, <2>3 DEF RegTypeOK
  <2>5. \A a \in accounts : a.form # f
    BY <2>1 DEF RegInv, StoredOnce, On
  <2>6. StoredOnce'
    BY <2>1, <2>2, <2>3, <2>5 DEF RegInv, StoredOnce, HasAccount, RegTypeOK
  <2>8. \A g \in Signups : On(g, "create") /\ form[g].email = form[f].email => form[f].email \in raced'
    BY <2>1 DEF PastCheck
  <2>9. ChecksHold'
    BY <2>1, <2>3, <2>8 DEF RegInv, ChecksHold, On, Taken
  <2>10. Answered' /\ OwnersAreWhole' /\ EmailsDistinct'
    BY <2>1, <2>3 DEF RegInv, Answered, HasAccount, OwnersAreWhole, EmailsDistinct, On
  <2> QED
    BY <2>4, <2>6, <2>9, <2>10 DEF RegInv
<1>3. ASSUME NEW f \in Signups, Create(f) PROVE RegInv'
  <2>1. /\ On(f, "create") /\ Insertable(f) /\ Proceed(f, "permissions")
        /\ orgs' = orgs \cup {Organization(f)} /\ accounts' = accounts \cup {Account(f)}
        /\ UNCHANGED <<granted, snapshots, answer, raced, unchecked>>
    BY <1>3 DEF Create
  <2>2. RegTypeOK /\ "permissions" \in FormSteps
    BY DEF RegInv, FormSteps
  <2>3. /\ form' \in [Signups -> [at : FormSteps, email : Emails, name : Names]]
        /\ form'[f].at = "permissions"
        /\ \A g \in Signups : g # f => form'[g] = form[g]
        /\ \A g \in Signups : form'[g].email = form[g].email
        /\ \A g \in Signups : Organization(g)' = Organization(g)
    BY <2>1, <2>2, MovesAlone
  <2>4. /\ Account(f).form = f /\ Account(f).email = form[f].email
        /\ Organization(f).owner = f /\ Organization(f).name = form[f].name
    BY DEF Account, Organization
  <2>5. RegTypeOK'
    BY <2>1, <2>2, <2>3, <2>4 DEF RegTypeOK
  <2>6. StoredOnce'
    BY <2>1, <2>2, <2>3, <2>4 DEF RegInv, StoredOnce, HasAccount, RegTypeOK
  <2>7. ChecksHold'
    BY <2>1, <2>3, <2>4 DEF RegInv, ChecksHold, On
  <2>8. Answered'
    <3>1. answer[f] = "none"
      BY <2>1 DEF RegInv, Answered, HasAccount, On
    <3>2. \A a \in accounts' : a \in accounts \/ a.form = f
      BY <2>1, <2>4
    <3> QED
      BY <2>1, <2>3, <3>1, <3>2 DEF RegInv, Answered, HasAccount, On
  <2>9. OwnersAreWhole'
    <3>1. {o.owner : o \in orgs} = {a.form : a \in accounts}
      BY DEF RegInv, OwnersAreWhole
    <3>2. {o.owner : o \in orgs'} = {o.owner : o \in orgs} \cup {f}
      BY <2>1, <2>4
    <3>3. {a.form : a \in accounts'} = {a.form : a \in accounts} \cup {f}
      BY <2>1, <2>4
    <3>4. \A o, q \in orgs' : o.name = q.name => o = q
      BY <2>1, <2>4 DEF RegInv, OwnersAreWhole, Insertable
    <3> QED
      BY <3>1, <3>2, <3>3, <3>4 DEF OwnersAreWhole
  <2>10. EmailsDistinct'
    BY <2>1, <2>4 DEF RegInv, EmailsDistinct, ChecksHold, On
  <2> QED
    BY <2>5, <2>6, <2>7, <2>8, <2>9, <2>10 DEF RegInv
<1>4. ASSUME NEW f \in Signups, Conflict(f) \/ RollBack(f) PROVE RegInv'
  <2>1. PICK what \in {"conflict", "error"} :
          /\ form[f].at \in {"check", "create"}
          /\ Proceed(f, "done") /\ answer' = [answer EXCEPT ![f] = what]
          /\ UNCHANGED <<accounts, orgs, granted, snapshots, raced, unchecked>>
    BY <1>4 DEF Conflict, RollBack, Reply, On
  <2>2. \A a \in accounts : a.form # f
    BY <2>1 DEF RegInv, StoredOnce
  <2>3. RegTypeOK /\ "done" \in FormSteps /\ "done" \in {"snapshot", "sign in", "done"}
    BY DEF RegInv, FormSteps
  <2>4. /\ form' \in [Signups -> [at : FormSteps, email : Emails, name : Names]]
        /\ form'[f].at = "done"
        /\ \A g \in Signups : g # f => form'[g] = form[g]
    BY <2>1, <2>3, MovesAlone
  <2>5. /\ \A a \in accounts' : a.form \in Signups
        /\ \A o \in orgs' : o.owner \in Signups /\ o = Organization(o.owner)'
        /\ \A a \in accounts' : form'[a.form].at \notin {"check", "create"}
        /\ \A g \in Signups : form'[g].at \in {"permissions", "snapshot", "sign in"} =>
             HasAccount(g)'
        /\ ChecksHold' /\ OwnersAreWhole' /\ EmailsDistinct'
    BY <2>1, <2>3, RestOfRegistration
  <2>6. RegTypeOK'
    BY <2>1, <2>3, <2>4, <2>5 DEF RegTypeOK, FormAnswers
  <2>7. StoredOnce'
    BY <2>1, <2>3, <2>4, <2>5 DEF RegInv, StoredOnce, HasAccount, RegTypeOK
  <2>8. Answered'
    BY <2>1, <2>2, <2>3, <2>4 DEF RegInv, Answered, HasAccount, On, RegTypeOK
  <2> QED
    BY <2>5, <2>6, <2>7, <2>8 DEF RegInv
<1>5. ASSUME NEW f \in Signups, InitializeOwnerPermissions(f) \/ CreateSnapshot(f) \/ Swallow(f)
      PROVE  RegInv'
  <2>1. PICK step \in {"snapshot", "sign in"} :
          /\ form[f].at \in {"permissions", "snapshot"}
          /\ Proceed(f, step) /\ granted' \in {granted, granted \cup {f}}
          /\ snapshots' \in {snapshots, snapshots \cup {f}}
          /\ UNCHANGED <<accounts, orgs, answer, raced, unchecked>>
    BY <1>5 DEF InitializeOwnerPermissions, CreateSnapshot, Swallow, On
  <2>2. HasAccount(f)
    BY <2>1 DEF RegInv, StoredOnce
  <2>3. RegTypeOK /\ step \in FormSteps /\ step \in {"snapshot", "sign in", "done"}
    BY DEF RegInv, FormSteps
  <2>4. /\ form' \in [Signups -> [at : FormSteps, email : Emails, name : Names]]
        /\ \A g \in Signups : g # f => form'[g] = form[g]
    BY <2>1, <2>3, MovesAlone
  <2>5. /\ \A a \in accounts' : a.form \in Signups
        /\ \A o \in orgs' : o.owner \in Signups /\ o = Organization(o.owner)'
        /\ \A a \in accounts' : form'[a.form].at \notin {"check", "create"}
        /\ \A g \in Signups : form'[g].at \in {"permissions", "snapshot", "sign in"} =>
             HasAccount(g)'
        /\ ChecksHold' /\ OwnersAreWhole' /\ EmailsDistinct'
    BY <2>1, <2>3, RestOfRegistration
  <2>6. RegTypeOK'
    BY <2>1, <2>3, <2>4, <2>5 DEF RegTypeOK
  <2>7. StoredOnce'
    BY <2>1, <2>2, <2>3, <2>4, <2>5 DEF RegInv, StoredOnce, HasAccount, RegTypeOK
  <2>8. Answered'
    BY <2>1, <2>4 DEF RegInv, Answered, HasAccount, On
  <2> QED
    BY <2>5, <2>6, <2>7, <2>8 DEF RegInv
<1>6. ASSUME NEW f \in Signups, SignOwnerIn(f) \/ Die(f) PROVE RegInv'
  <2>1. PICK what \in FormAnswers \ {"conflict"} :
          /\ Proceed(f, "done")
          /\ answer' = answer \/ answer' = [answer EXCEPT ![f] = what]
          /\ what = "token with permissions" => f \in granted
          /\ UNCHANGED <<accounts, orgs, granted, snapshots, raced, unchecked>>
    <3>1. CASE SignOwnerIn(f)
      <4>1. PICK what \in {"error", "token with permissions", "token without permissions"} :
              Reply(f, what) /\ (what = "token with permissions" => f \in granted)
        BY <3>1, Zenon DEF SignOwnerIn
      <4>2. what \in FormAnswers \ {"conflict"}
        BY <4>1 DEF FormAnswers
      <4> QED
        BY <3>1, <4>1, <4>2 DEF SignOwnerIn, Reply
    <3>2. CASE Die(f)
      <4>1. "error" \in FormAnswers \ {"conflict"}
        BY DEF FormAnswers
      <4> QED
        BY <3>2, <4>1 DEF Die
    <3> QED
      BY <1>6, <3>1, <3>2
  <2>2. RegTypeOK /\ "done" \in FormSteps /\ "done" \in {"snapshot", "sign in", "done"}
    BY DEF RegInv, FormSteps
  <2>3. /\ form' \in [Signups -> [at : FormSteps, email : Emails, name : Names]]
        /\ form'[f].at = "done"
        /\ \A g \in Signups : g # f => form'[g] = form[g]
    BY <2>1, <2>2, MovesAlone
  <2>4. /\ \A a \in accounts' : a.form \in Signups
        /\ \A o \in orgs' : o.owner \in Signups /\ o = Organization(o.owner)'
        /\ \A a \in accounts' : form'[a.form].at \notin {"check", "create"}
        /\ \A g \in Signups : form'[g].at \in {"permissions", "snapshot", "sign in"} =>
             HasAccount(g)'
        /\ ChecksHold' /\ OwnersAreWhole' /\ EmailsDistinct'
    BY <2>1, <2>2, RestOfRegistration
  <2>5. RegTypeOK'
    BY <2>1, <2>2, <2>3, <2>4 DEF RegTypeOK
  <2>6. StoredOnce'
    <3>1. \A g \in granted' : HasAccount(g)'
      BY <2>1, <2>2, <2>3 DEF RegInv, StoredOnce, HasAccount, RegTypeOK
    <3> QED
      BY <2>4, <3>1 DEF StoredOnce
  <2>7. Answered'
    BY <2>1, <2>2, <2>3 DEF RegInv, Answered, HasAccount, On, RegTypeOK
  <2> QED
    BY <2>4, <2>5, <2>6, <2>7 DEF RegInv
<1>7. ASSUME NEW a \in accounts, NEW e \in Emails, UpdateOwner(a, e) PROVE RegInv'
  <2>1. /\ accounts' = (accounts \ {a}) \cup {[email |-> e, form |-> a.form]}
        /\ raced' = raced \cup PastCheck(e)
        /\ unchecked' = unchecked \cup ({e} \cap {b.email : b \in accounts})
        /\ UNCHANGED <<form, orgs, granted, snapshots, answer>>
    BY <1>7 DEF UpdateOwner
  <2>2. PICK moved : /\ accounts' = (accounts \ {a}) \cup {moved}
                     /\ moved.email = e /\ moved.form = a.form
    <3>1. PICK moved : moved = [email |-> e, form |-> a.form]
      OBVIOUS
    <3>2. moved.email = e /\ moved.form = a.form
      BY <3>1
    <3> QED
      BY <2>1, <3>1, <3>2
  <2>3. /\ \A b \in accounts' : b \in accounts \/ b = moved
        /\ \A b \in accounts : b \in accounts' \/ b = a
    BY <2>2
  <2>4. \A f \in Signups : HasAccount(f)' <=> HasAccount(f)
    BY <2>2 DEF HasAccount
  <2>5. RegTypeOK'
    BY <2>1, <2>2, <2>3 DEF RegInv, RegTypeOK, Organization
  <2>6. StoredOnce'
    BY <2>1, <2>2, <2>3, <2>4 DEF RegInv, StoredOnce, RegTypeOK
  <2>7. ChecksHold'
    <3>1. \A f \in Signups : On(f, "create") /\ form[f].email = e => e \in raced'
      BY <2>1 DEF PastCheck
    <3> QED
      BY <2>1, <2>2, <2>3, <3>1 DEF RegInv, ChecksHold, On
  <2>8. Answered'
    BY <2>1, <2>4 DEF RegInv, Answered, On
  <2>9. OwnersAreWhole'
    <3>1. {b.form : b \in accounts'} = {b.form : b \in accounts}
      BY <2>2, <2>3
    <3> QED
      BY <2>1, <3>1 DEF RegInv, OwnersAreWhole
  <2>10. EmailsDistinct'
    <3>1. \A b \in accounts : b.email = e => e \in unchecked'
      BY <2>1
    <3> QED
      BY <2>1, <2>2, <2>3, <3>1 DEF RegInv, EmailsDistinct
  <2> QED
    BY <2>5, <2>6, <2>7, <2>8, <2>9, <2>10 DEF RegInv
<1>8. ASSUME NEW e \in Emails,
             (\E f \in Signups : HireStaff(f, e)) \/ (\E a \in staff : UpdateStaff(a, e))
      PROVE  RegInv'
  <2>1. UNCHANGED <<form, accounts, orgs, granted, snapshots, answer, raced, unchecked>>
    BY <1>8 DEF HireStaff, UpdateStaff
  <2> QED
    BY <2>1 DEF RegInv, RegTypeOK, StoredOnce, ChecksHold, Answered, OwnersAreWhole,
                EmailsDistinct, HasAccount, On, Organization
<1>9. CASE WriteEmail
  BY <1>7, <1>8, <1>9 DEF WriteEmail
<1> QED
  BY <1>1, <1>2, <1>3, <1>4, <1>5, <1>6, <1>9 DEF RegNext

\* Whatever fails, dies and overlaps in registerOwner, for any number of owners, and
\* whatever e-mails are written meanwhile: organization and owner come together or not at
\* all, no name is used twice, two owner accounts share an e-mail only when it was written or
\* checked during another registration's check or when updateUser gave one the other's, and
\* no client was told a wrong thing.
THEOREM AccountsStaySound == RegSpec => []AccountsSound
<1>1. RegInv => AccountsSound
  BY DEF RegInv, AccountsSound, AnswersTrue, Answered, StoredOnce
<1> QED
  BY <1>1, InitRegInv, RegInvInductive, PTL DEF RegSpec

-----------------------------------------------------------------------------
(***************************************************************************)
(* The gates of the API, for any number of managers and workers and any    *)
(* sets of actions that are granted.  What every operation asks for is in  *)
(* the registry, group by group, and registerOwner writes the registry.    *)
(* From then on only a grant to the owner or a revocation from him could   *)
(* take something away, and those are counted as touching him.             *)
(***************************************************************************)

\* What the owner can do: any level will do, and it is in the registry.
Answerable(asked) ==
  /\ asked.level \in {"OWNER", "MANAGER", "WORKER"}
  /\ asked.module = "none" \/ (asked.module \in Modules /\ asked.action \in Registry[asked.module])

\* Every action that operations on the staff ask for is registered (PERMISSION_MODULES).
LEMMA AskedOfUsers ==
  \A action \in Registry["USERS"], level \in {"OWNER", "MANAGER", "WORKER"} :
     Answerable(Asks(level, "USERS", action))
  BY DEF Answerable, Asks, Registry, Modules

\* The same of the actions of the settings.
LEMMA AskedOfSettings ==
  \A action \in Registry["SETTINGS"], level \in {"OWNER", "MANAGER", "WORKER"} :
     Answerable(Asks(level, "SETTINGS", action))
  BY DEF Answerable, Asks, Registry, Modules

\* An operation without @RequirePermission asks for a level only.
LEMMA AskedOfNobody ==
  \A level \in {"OWNER", "MANAGER", "WORKER"} : Answerable(Asks(level, "none", "none"))
  BY DEF Answerable, Asks

\* No resolver asks for a module or an action that the registry does not know.
LEMMA GroupsAnswerable ==
  ASSUME NEW g \in Groups, NEW op \in DOMAIN g PROVE Answerable(g[op])
<1>0. /\ {"CREATE", "READ", "UPDATE", "GRANT_PERMISSIONS"} \subseteq Registry["USERS"]
      /\ {"READ", "UPDATE"} \subseteq Registry["SETTINGS"]
  BY DEF Registry
<1>1. CASE g = UserMutations
  BY <1>0, <1>1, AskedOfUsers DEF UserMutations, Owners, Everyone
<1>2. CASE g = UserQueries
  BY <1>0, <1>2, AskedOfUsers DEF UserQueries, Everyone
<1>3. CASE g = PermissionOperations
  BY <1>0, <1>3, AskedOfUsers DEF PermissionOperations, Everyone
<1>4. CASE g = BranchOperations
  BY <1>0, <1>4, AskedOfSettings DEF BranchOperations, Owners, Everyone
<1>5. CASE g = DepartmentOperations
  BY <1>0, <1>5, AskedOfSettings DEF DepartmentOperations, Owners, Everyone
<1>6. CASE g = OrganizationOperations
  BY <1>0, <1>6, AskedOfSettings DEF OrganizationOperations, Owners, Everyone
<1>7. CASE g = AuditOperations
  BY <1>0, <1>7, AskedOfUsers DEF AuditOperations, Owners, Everyone
<1>8. CASE g = RuleOperations
  BY <1>8, AskedOfNobody DEF RuleOperations, Owners, Everyone, Anyone
<1>9. CASE g = OwnAccountOperations
  BY <1>9, AskedOfNobody DEF OwnAccountOperations, Everyone, Anyone
<1> QED
  BY <1>1, <1>2, <1>3, <1>4, <1>5, <1>6, <1>7, <1>8, <1>9 DEF Groups

\* What an operation asks is what one of the resolvers says.
LEMMA OperationOfGroup ==
  ASSUME NEW op \in DOMAIN Operations
  PROVE  \E g \in Groups : op \in DOMAIN g /\ Operations[op] = g[op]
<1>1. \E g \in Groups : op \in DOMAIN g
  BY DEF Operations
<1>2. Operations[op] = (CHOOSE g \in Groups : op \in DOMAIN g)[op]
  BY DEF Operations
<1> QED
  BY <1>1, <1>2

\* The inductive invariant: an owner whom nobody touched has what the registry knows.
OwnerKeepsAll ==
  /\ DOMAIN rows = Staff
  /\ members \subseteq Staff
  /\ owned = "intact" =>
        Owner \in members /\ \A m \in Modules : Registry[m] \subseteq rows[Owner][m].actions

\* The operations by which an owner has others do what he cannot, and what they ask for.
LEMMA Creations ==
  /\ {"createManager", "createWorker", "grantPermissions"} \subseteq DOMAIN Operations
  /\ Operations["createWorker"] = Asks("MANAGER", "USERS", "CREATE")
<1>1. /\ UserMutations \in Groups /\ PermissionOperations \in Groups
      /\ "createManager" \in DOMAIN UserMutations /\ "createWorker" \in DOMAIN UserMutations
      /\ "grantPermissions" \in DOMAIN PermissionOperations
  BY DEF Groups, UserMutations, PermissionOperations
<1>2. {"createManager", "createWorker", "grantPermissions"} \subseteq DOMAIN Operations
  BY <1>1 DEF Operations
<1>3. PICK g \in Groups : "createWorker" \in DOMAIN g /\ Operations["createWorker"] = g["createWorker"]
  BY <1>2, OperationOfGroup
<1>4. /\ "createWorker" \notin DOMAIN UserQueries /\ "createWorker" \notin DOMAIN PermissionOperations
      /\ "createWorker" \notin DOMAIN BranchOperations
      /\ "createWorker" \notin DOMAIN DepartmentOperations
  BY DEF UserQueries, PermissionOperations, BranchOperations, DepartmentOperations
<1>5. /\ "createWorker" \notin DOMAIN OrganizationOperations
      /\ "createWorker" \notin DOMAIN AuditOperations
      /\ "createWorker" \notin DOMAIN RuleOperations
      /\ "createWorker" \notin DOMAIN OwnAccountOperations
  BY DEF OrganizationOperations, AuditOperations, RuleOperations, OwnAccountOperations
<1>6. g = UserMutations
  BY <1>3, <1>4, <1>5 DEF Groups
<1> QED
  BY <1>2, <1>3, <1>6 DEF UserMutations

\* With all of the registry and the highest level every guard lets through, and every
\* service but createWorker's; a manager has the level for that one.
LEMMA KeepsAllSuffices == OwnerKeepsAll => NothingOutOfReach
<1> SUFFICES ASSUME OwnerKeepsAll, owned = "intact"
             PROVE  \A op \in DOMAIN Operations :
                      IF op = "createWorker" THEN \A m \in Managers : ThroughManager(m, op)
                                             ELSE Served(Owner, op)
  BY DEF NothingOutOfReach
<1>0. LevelOf[Owner] = "OWNER"
  BY DEF LevelOf, Staff
<1>1. ASSUME NEW op \in DOMAIN Operations, op # "createWorker" PROVE Served(Owner, op)
  <2>1. Answerable(Operations[op])
    BY OperationOfGroup, GroupsAnswerable
  <2>2. MeetsLevel(Owner, op)
    BY <1>0, <2>1 DEF MeetsLevel, Answerable, LevelRank
  <2>3. HasPermission(Owner, op)
    BY <2>1 DEF OwnerKeepsAll, HasPermission, Answerable
  <2> QED
    BY <1>0, <1>1, <2>2, <2>3 DEF Served, Accepts, Open, OwnerKeepsAll
<1>2. ASSUME NEW m \in Managers PROVE ThroughManager(m, "createWorker")
  <2>1. LevelOf[m] = "MANAGER"
    BY StaffAssumption DEF LevelOf, Staff
  <2>2. MeetsLevel(m, "createWorker") /\ Accepts(m, "createWorker")
    BY <2>1, Creations DEF MeetsLevel, Accepts, Asks, LevelRank
  <2>3. Served(Owner, "createManager") /\ Served(Owner, "grantPermissions")
    BY <1>1, Creations
  <2>4. /\ Operations["createWorker"].module = "USERS" /\ Operations["createWorker"].action = "CREATE"
        /\ "USERS" \in Modules /\ "CREATE" \in Registry["USERS"]
    BY Creations DEF Asks, Modules, Registry
  <2> QED
    BY <1>0, <2>2, <2>3, <2>4 DEF ThroughManager, Delegable
<1> QED
  BY <1>1, <1>2

\* A grant or a revocation that leaves the owner "intact" has left his rows alone.
LEMMA TouchShows ==
  ASSUME OwnerKeepsAll, TouchOwner, UNCHANGED members, DOMAIN rows' = Staff
  PROVE  OwnerKeepsAll'
<1>1. owned' = "intact" => owned = "intact" /\ rows'[Owner] = rows[Owner]
  BY DEF TouchOwner
<1> QED
  BY <1>1 DEF OwnerKeepsAll

\* One step per operation; grants and revocations through TouchShows.
LEMMA GatesInductive == OwnerKeepsAll /\ [GateNext]_gateVars => OwnerKeepsAll'
<1> SUFFICES ASSUME OwnerKeepsAll, [GateNext]_gateVars PROVE OwnerKeepsAll'
  OBVIOUS
<1>1. CASE UNCHANGED gateVars
  BY <1>1 DEF gateVars, OwnerKeepsAll
<1>2. CASE RegisterOwner
  <2>0. Owner \in Staff /\ members' = {Owner}
    BY <1>2 DEF RegisterOwner, Staff
  <2>1. CASE owned' = "failed" /\ UNCHANGED rows
    BY <2>0, <2>1 DEF OwnerKeepsAll
  <2>2. CASE rows' = [rows EXCEPT ![Owner] =
                        [m \in Modules |-> [actions |-> Registry[m], by |-> Owner]]]
    <3>1. \A m \in Modules : rows'[Owner][m].actions = Registry[m]
      BY <2>0, <2>2 DEF OwnerKeepsAll
    <3> QED
      BY <2>0, <2>2, <3>1 DEF OwnerKeepsAll
  <2> QED
    BY <1>2, <2>1, <2>2 DEF RegisterOwner
<1>3. ASSUME NEW u, NEW op, NEW new \in Managers \cup Workers, CreateStaff(u, op, new)
      PROVE  OwnerKeepsAll'
  BY <1>3 DEF CreateStaff, OwnerKeepsAll, Staff
<1>4. ASSUME NEW u \in Staff, NEW v \in Staff, NEW m \in Modules, NEW A, GrantPermissions(u, v, m, A)
      PROVE  OwnerKeepsAll'
  <2>1. TouchOwner /\ UNCHANGED members /\ DOMAIN rows' = Staff
    BY <1>4 DEF GrantPermissions, OwnerKeepsAll
  <2> QED
    BY <2>1, TouchShows
<1>5. ASSUME NEW u \in Staff, NEW v \in Staff, NEW M, RevokePermissions(u, v, M)
      PROVE  OwnerKeepsAll'
  <2>1. TouchOwner /\ UNCHANGED members /\ DOMAIN rows' = Staff
    BY <1>5 DEF RevokePermissions
  <2> QED
    BY <2>1, TouchShows
<1>6. CASE OtherCall
  BY <1>1, <1>6 DEF OtherCall
<1> QED
  BY <1>1, <1>2, <1>3, <1>4, <1>5, <1>6 DEF GateNext

\* Whatever is granted and revoked through the API: an owner whose permissions were written
\* at registration and whom nobody has revoked from or granted to since is let through to
\* every operation but createWorker by its guards and its service, and can create managers
\* and grant them what createWorker asks for.
THEOREM OwnerReachesEverything == GateSpec => []NothingOutOfReach
<1>1. GateInit => OwnerKeepsAll
  BY DEF GateInit, OwnerKeepsAll
<1> QED
  BY <1>1, GatesInductive, KeepsAllSuffices, PTL DEF GateSpec
=============================================================================
