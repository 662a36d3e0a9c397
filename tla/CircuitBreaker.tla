--------------------------- MODULE CircuitBreaker ---------------------------
(***************************************************************************)
(* One registered circuit of the circuit breaker                           *)
(* (core/resilience/circuit-breaker.service.ts), shared by the calls that  *)
(* are in flight.  Between the admission of a call and the recording of    *)
(* its outcome any number of other calls may be admitted or recorded, so   *)
(* an outcome may meet a circuit quite different from the one that         *)
(* admitted it.                                                            *)
(*                                                                         *)
(* Time is discrete.  Date.now() - lastFailureTime only matters up to      *)
(* config.timeout, so it is kept as a number that stops there.             *)
(***************************************************************************)
EXTENDS Naturals

CONSTANTS
    Calls,            \* calls that may be in flight together
    FailureThreshold, SuccessThreshold,
    Timeout,          \* rest of an open circuit, config.timeout
    RequestTimeout,   \* when the timer of a call is due, config.requestTimeout
    Latest,           \* when it has fired at the latest, the event loop's delay included
    MaxCount,         \* counters stop here: they are only compared with the thresholds
    Never             \* lastFailureTime undefined

ASSUME ThresholdAssumption ==
    /\ FailureThreshold \in Nat \ {0} /\ SuccessThreshold \in Nat \ {0}
    /\ MaxCount \in Nat
    /\ FailureThreshold <= MaxCount /\ SuccessThreshold <= MaxCount

\* onModuleInit of AuthService: 10 seconds for a call, 60 for the circuit.
ASSUME TimeAssumption ==
    /\ Timeout \in Nat /\ RequestTimeout \in Nat /\ Latest \in Nat
    /\ RequestTimeout <= Latest /\ Latest < Timeout
    /\ Never \notin Nat

VARIABLES
    state, failures, successes, \* CircuitStats
    since,     \* time since lastFailureTime, up to Timeout
    running,   \* calls in executeWithTimeout
    age,       \* how long each call has been running
    trials     \* history: calls admitted in the present HALF_OPEN period

stats == <<state, failures, successes, since>>
breakerVars == <<state, failures, successes, since, running, age, trials>>

BreakerInit ==
    /\ state = "CLOSED" /\ failures = 0 /\ successes = 0 /\ since = Never
    /\ running = {} /\ age = [c \in Calls |-> 0] /\ trials = {}

Inc(n) == IF n < MaxCount THEN n + 1 ELSE n

-----------------------------------------------------------------------------
\* Mutant: the rest of an open circuit is taken to be the request timeout.
CooledEarly == since # Never /\ since >= RequestTimeout

\* The time an open circuit has to rest is over.
Cooled == since # Never /\ since >= Timeout

Start(c) ==
    /\ c \notin running
    /\ running' = running \cup {c}
    /\ age' = [age EXCEPT ![c] = 0]

\* Mutant: every trial call resets the count of successes.
AdmitResetting(c) ==
    /\ state # "OPEN"
    /\ Start(c)
    /\ successes' = IF state = "HALF_OPEN" THEN 0 ELSE successes
    /\ trials' = IF state = "HALF_OPEN" THEN trials \cup {c} ELSE trials
    /\ UNCHANGED <<state, failures, since>>

\* execute on a circuit that is not open.
Admit(c) ==
    /\ state # "OPEN"
    /\ Start(c)
    /\ trials' = IF state = "HALF_OPEN" THEN trials \cup {c} ELSE trials
    /\ UNCHANGED stats

\* execute on an open circuit that has rested.  One that has not throws before
\* the try block and leaves everything as it is.
Trial(c) ==
    /\ state = "OPEN" /\ Cooled
    /\ Start(c)
    /\ state' = "HALF_OPEN" /\ successes' = 0
    /\ trials' = {c}
    /\ UNCHANGED <<failures, since>>

Stop(c) == running' = running \ {c} /\ UNCHANGED age

\* recordSuccess: every success counts, whatever the state.
RecordSuccess(c) ==
    /\ failures' = 0
    /\ IF state = "HALF_OPEN" /\ Inc(successes) >= SuccessThreshold
         THEN state' = "CLOSED" /\ successes' = 0 /\ trials' = {}
         ELSE successes' = Inc(successes) /\ trials' = trials \ {c} /\ UNCHANGED state
    /\ UNCHANGED since

\* recordFailure.
RecordFailure(c) ==
    /\ failures' = Inc(failures)
    /\ since' = 0
    /\ IF state = "HALF_OPEN"
         THEN state' = "OPEN" /\ successes' = 0 /\ trials' = {}
         ELSE /\ state' = IF Inc(failures) >= FailureThreshold THEN "OPEN" ELSE state
              /\ trials' = trials \ {c}
              /\ UNCHANGED successes

Succeed(c) == c \in running /\ Stop(c) /\ RecordSuccess(c)
Fail(c) == c \in running /\ Stop(c) /\ RecordFailure(c)

\* The timer of executeWithTimeout wins the race.
TimeOut(c) ==
    /\ c \in running /\ age[c] >= RequestTimeout
    /\ Stop(c) /\ RecordFailure(c)

\* reset, by an operator, with calls in flight or not.
Reset ==
    /\ state' = "CLOSED" /\ failures' = 0 /\ successes' = 0 /\ since' = Never
    /\ trials' = {} /\ UNCHANGED <<running, age>>

\* A unit of time passes, unless a timer has to fire first.
Tick ==
    /\ \A c \in running : age[c] < Latest
    /\ since' = IF since # Never /\ since < Timeout THEN since + 1 ELSE since
    /\ age' = [c \in Calls |-> IF c \in running THEN age[c] + 1 ELSE age[c]]
    /\ UNCHANGED <<state, failures, successes, running, trials>>

Execute(c) == Admit(c) \/ Trial(c)
Outcome(c) == Succeed(c) \/ Fail(c) \/ TimeOut(c)

BreakerNext ==
    \/ \E c \in Calls : Execute(c) \/ Outcome(c)
    \/ Reset \/ Tick

BreakerSpec == BreakerInit /\ [][BreakerNext]_breakerVars

\* Time passes and timers fire; the service goes on being called.
BreakerFairSpec ==
    /\ BreakerSpec
    /\ WF_breakerVars(Tick)
    /\ \A c \in Calls : WF_breakerVars(Outcome(c)) /\ WF_breakerVars(Execute(c))

-----------------------------------------------------------------------------
(* Correctness                                                             *)

BreakerTypeOK ==
    /\ state \in {"CLOSED", "OPEN", "HALF_OPEN"}
    /\ failures \in 0 .. MaxCount /\ successes \in 0 .. MaxCount
    /\ since \in (0 .. Timeout) \cup {Never}
    /\ running \subseteq Calls /\ trials \subseteq running
    /\ age \in [Calls -> 0 .. Latest]

\* A circuit never stays closed once FailureThreshold failures have come in
\* without a success between them, whichever calls they belong to and however
\* the circuit came to be closed (recordFailure, recordSuccess, reset).
ClosedBelowThreshold == state = "CLOSED" => failures < FailureThreshold

\* A half-open circuit has not yet had the successes that close it: none is
\* carried over from before it opened (execute, recordSuccess).
HalfOpenBelowThreshold == state = "HALF_OPEN" => successes < SuccessThreshold

\* An open circuit knows when it may be tried again; without lastFailureTime
\* execute would reject every call for ever.
OpenCanBeTried == state = "OPEN" => since # Never

\* A half-open circuit is judged by its trial calls alone: every call whose
\* outcome can still close or reopen it was admitted since it turned half-open.
\* An outcome of the time before it opened would be stale evidence.
OnlyTrialsJudge == state = "HALF_OPEN" => running \subseteq trials

\* A call in flight while the circuit is open is at least as old as the last
\* failure: an open circuit admits no call.
NoneAdmittedWhileOpen ==
    state = "OPEN" => \A c \in running : since # Never /\ age[c] >= since

\* Once the service has recovered for good, so that no call fails any more and
\* no operator intervenes, the circuit closes and stays closed.
Recovers ==
    (<>[][~ Reset /\ \A c \in Calls : ~ Fail(c) /\ ~ TimeOut(c)]_breakerVars)
        => <>[](state = "CLOSED")
=============================================================================
