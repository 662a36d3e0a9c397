------------------------------ MODULE RateLimit ------------------------------
(***************************************************************************)
(* The login rate limiter (modules/auth/guards/rate-limit.guard.ts) for    *)
(* one identifier: a Redis counter that is read, incremented and given a   *)
(* time to live in three separate calls, by requests that overlap.         *)
(***************************************************************************)
EXTENDS Naturals, FiniteSets

CONSTANTS
    Clients,     \* requests in flight for the identifier
    MaxAttempts, \* 5
    Window,      \* 15 minutes
    RateFaults,  \* which of "redis", "crash" may happen
    MaxBlind,    \* bound on the reads that fail
    NoTtl        \* a key that never expires

ASSUME RateAssumption ==
    /\ MaxAttempts \in Nat \ {0} /\ Window \in Nat \ {0}
    /\ MaxBlind \in Nat /\ NoTtl \notin Nat /\ RateFaults \subseteq {"redis", "crash"}
    /\ IsFiniteSet(Clients)

VARIABLES
    count,  \* rate_limit:<identifier>, 0 when the key does not exist
    ttl,    \* its time to live
    pc,     \* per request: its next call to Redis
    blind,       \* history: requests that passed because the read failed
    interrupted  \* history: a request has ended between two calls

rateVars == <<count, ttl, pc, blind, interrupted>>

RateInit ==
    /\ count = 0 /\ ttl = NoTtl
    /\ pc = [p \in Clients |-> "idle"]
    /\ blind = 0 /\ interrupted = FALSE

RateAt(p, step) == pc[p] = step
RateGoto(p, step) == pc' = [pc EXCEPT ![p] = step]

-----------------------------------------------------------------------------
\* Mutant: one attempt too many.
BelowLimitOrAt(n) == n <= MaxAttempts

\* `currentAttempts >= this.maxAttempts' refuses.
BelowLimit(n) == n < MaxAttempts

\* The counter is read; at the limit the request is answered with 429, which
\* changes nothing.  A read that fails returns null, which counts as 0.
Check(p) ==
    /\ RateAt(p, "idle")
    /\ \/ BelowLimit(count) /\ UNCHANGED blind
       \/ "redis" \in RateFaults /\ blind < MaxBlind /\ blind' = blind + 1
    /\ RateGoto(p, "incr")
    /\ UNCHANGED <<count, ttl, interrupted>>

\* Mutant: every attempt renews the window.
IncrRenewing(p) ==
    /\ RateAt(p, "incr")
    /\ count' = count + 1
    /\ RateGoto(p, "expire")
    /\ UNCHANGED <<ttl, blind, interrupted>>

\* INCR keeps the time to live of the key, or creates it without one.
Incr(p) ==
    /\ RateAt(p, "incr")
    /\ count' = count + 1
    /\ RateGoto(p, IF count = 0 THEN "expire" ELSE "idle")
    /\ UNCHANGED <<ttl, blind, interrupted>>

\* Mutant: the window is only set at the limit.
ExpireAtLimit(p) ==
    /\ RateAt(p, "expire")
    /\ ttl' = IF count = MaxAttempts THEN Window ELSE ttl
    /\ RateGoto(p, "idle")
    /\ UNCHANGED <<count, blind, interrupted>>

\* EXPIRE after the first attempt; a key that is gone is left alone.
Expire(p) ==
    /\ RateAt(p, "expire")
    /\ ttl' = IF count > 0 THEN Window ELSE ttl
    /\ RateGoto(p, "idle")
    /\ UNCHANGED <<count, blind, interrupted>>

\* INCR or EXPIRE fails: the request is allowed and calls Redis no more.
FailOpen(p) ==
    /\ "redis" \in RateFaults /\ ~ RateAt(p, "idle")
    /\ RateGoto(p, "idle")
    /\ interrupted' = TRUE
    /\ UNCHANGED <<count, ttl, blind>>

\* The instance dies between two calls.
Crash(p) ==
    /\ "crash" \in RateFaults /\ ~ RateAt(p, "idle")
    /\ RateGoto(p, "idle")
    /\ interrupted' = TRUE
    /\ UNCHANGED <<count, ttl, blind>>

\* Time passes; a key whose time is up is gone.
RateTick ==
    /\ IF ttl = NoTtl THEN UNCHANGED <<count, ttl>>
       ELSE IF ttl > 1 THEN ttl' = ttl - 1 /\ UNCHANGED count
       ELSE ttl' = NoTtl /\ count' = 0
    /\ UNCHANGED <<pc, blind, interrupted>>

RateStep(p) == Incr(p) \/ Expire(p)

RateNext ==
    \/ \E p \in Clients : Check(p) \/ RateStep(p) \/ FailOpen(p) \/ Crash(p)
    \/ RateTick

RateSpec == RateInit /\ [][RateNext]_rateVars

\* Redis answers and time passes; nothing makes a client call.
RateFairSpec == RateSpec /\ WF_rateVars(RateTick) /\ \A p \in Clients : WF_rateVars(RateStep(p))

-----------------------------------------------------------------------------
(* Correctness                                                             *)

\* Requests past the check that have yet to count themselves.
Counting == {p \in Clients : pc[p] = "incr"}

\* The counter is well typed and a key that does not exist has no time to live.
RateTypeOK ==
    /\ count \in Nat
    /\ ttl \in (1 .. Window) \cup {NoTtl}
    /\ pc \in [Clients -> {"idle", "incr", "expire"}]
    /\ count = 0 => ttl = NoTtl
    /\ blind \in Nat /\ interrupted \in BOOLEAN

\* How far overlapping requests get past the limit: each may have read the
\* counter before the others were counted, so one window counts fewer requests
\* than the limit and the requests in flight together, but for those whose read
\* failed.  One request at a time gives the documented "5 attempts".
OvershootBounded ==
    count + Cardinality(Counting) < MaxAttempts + Cardinality(Clients) + blind

\* As long as no request ends between its calls, a counter without a time to
\* live is about to be given one by the request that created it; otherwise its
\* identifier would be refused for ever.
SomeoneSetsTtl ==
    count > 0 /\ ttl = NoTtl => interrupted \/ \E p \in Clients : pc[p] = "expire"

\* A refused identifier is admitted again ("Please try again in ... minutes") where
\* every request has made all its calls: whatever overlaps, a window that refuses
\* comes to an end.  A request that ends between INCR and EXPIRE may leave a counter
\* that refuses for ever.
UninterruptedLimitLifts == ~ BelowLimit(count) ~> (BelowLimit(count) \/ interrupted)

\* A window is fixed by its first attempt: attempts made in it do not prolong it.
WindowIsFixed ==
    [][ttl # NoTtl /\ ttl' # NoTtl => ttl' <= ttl]_rateVars
=============================================================================
