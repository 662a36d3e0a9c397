------------------------------ MODULE Resilience ----------------------------
(***************************************************************************)
(* One operation under RetryService and TimeoutService, core/resilience:   *)
(* attempts with exponential backoff, each raced against a timer, and a    *)
(* fallback.  A timer stops the waiting, not the attempt, which may settle *)
(* long after the next one has begun.  The two services do not know each   *)
(* other: that a caller retries what has a timer, executeWithRetry around  *)
(* executeWithTimeout, is a way to use them, and nothing in src/ does yet. *)
(***************************************************************************)
EXTENDS Naturals, Sequences, FiniteSets

CONSTANTS
    MaxAttempts, InitialDelay, LongestDelay, Multiplier,  \* RetryConfig
    Services  \* how an operation may be called: [timed : BOOLEAN, fallback, retried : SUBSET Errors]

Errors == {"transient", "permanent", "timeout"}

\* As in DEFAULT_RETRY_CONFIG; nothing configures a service otherwise.
ASSUME RetryAssumption ==
    /\ MaxAttempts \in Nat \ {0} /\ Multiplier \in Nat \ {0}
    /\ InitialDelay \in Nat /\ LongestDelay \in Nat /\ InitialDelay <= LongestDelay

VARIABLES
    service, \* how the operation is called
    pc,      \* what the caller awaits: "attempt", "delay", "fallback", or it is "answered"
    attempt, \* number of the current attempt
    unsettled, \* attempts whose function still runs
    delay,   \* the next delay
    slept,   \* history: the delays so far
    errors,  \* history: how each attempt ended that failed
    answer_  \* what the caller was told

resilienceVars == <<service, pc, attempt, unsettled, delay, slept, errors, answer_>>

ResilienceInit ==
    /\ service \in Services
    /\ pc = "attempt" /\ attempt = 1 /\ unsettled = {1}
    /\ delay = InitialDelay /\ slept = << >> /\ errors = << >> /\ answer_ = "none"

Smaller(m, n) == IF m < n THEN m ELSE n

Answer(a) == pc' = "answered" /\ answer_' = a

\* isRetryableError: "If no specific retryable errors defined, retry all errors".
IsRetryableError(e) == service.retried = {} \/ e \in service.retried

\* executeWithRetryAndFallback falls back on any error that is left, and
\* executeWithTimeoutAndFallback, which does not retry, on its timeout only.
FallsBackOn(e) == service.fallback = "any" \/ (service.fallback = "timeout" /\ e = "timeout")

GiveUp(e) == IF FallsBackOn(e) THEN pc' = "fallback" /\ UNCHANGED answer_ ELSE Answer("error")

AttemptsAllowed == IF service.fallback = "timeout" THEN 1 ELSE MaxAttempts

\* Mutant: what is not retryable is retried like the rest.
CatchAlways(e) ==
    /\ errors' = Append(errors, e)
    /\ IF attempt = AttemptsAllowed THEN GiveUp(e) ELSE pc' = "delay" /\ UNCHANGED answer_

\* The catch block of an attempt.
Catch(e) ==
    /\ errors' = Append(errors, e)
    /\ IF ~ IsRetryableError(e) \/ attempt = AttemptsAllowed
       THEN GiveUp(e) ELSE pc' = "delay" /\ UNCHANGED answer_

\* The function of attempt a settles.  If the timer has won, nobody listens any more.
Settle(a, e) ==
    /\ a \in unsettled
    /\ unsettled' = unsettled \ {a}
    /\ IF a = attempt /\ pc = "attempt"
       THEN IF e = "none" THEN Answer("result") /\ UNCHANGED errors ELSE Catch(e)
       ELSE UNCHANGED <<pc, errors, answer_>>
    /\ UNCHANGED <<service, attempt, delay, slept>>

\* Mutant: the timer only logs.
TimerIgnored ==
    /\ service.timed /\ pc = "attempt"
    /\ UNCHANGED resilienceVars

\* executeWithTimeout: the timer rejects first.
TimerWins ==
    /\ service.timed /\ pc = "attempt" /\ attempt \in unsettled
    /\ Catch("timeout")
    /\ UNCHANGED <<service, attempt, unsettled, delay, slept>>

\* "Calculate next delay with exponential backoff"
NextDelay(d) == Smaller(d * Multiplier, LongestDelay)

\* The delay is over and the next attempt begins.
Retry ==
    /\ pc = "delay"
    /\ pc' = "attempt" /\ attempt' = attempt + 1
    /\ unsettled' = unsettled \cup {attempt + 1}
    /\ slept' = Append(slept, delay) /\ delay' = NextDelay(delay)
    /\ UNCHANGED <<service, errors, answer_>>

Fallback ==
    /\ pc = "fallback"
    /\ \E a \in {"result", "error"} : Answer(a)
    /\ UNCHANGED <<service, attempt, unsettled, delay, slept, errors>>

\* Another operation is called; what still runs of the last one concerns nobody.
CallAgain ==
    /\ pc = "answered"
    /\ service' \in Services /\ pc' = "attempt" /\ attempt' = 1 /\ unsettled' = {1}
    /\ delay' = InitialDelay /\ slept' = << >> /\ errors' = << >> /\ answer_' = "none"

ResilienceNext ==
    \/ \E a \in 1 .. MaxAttempts, e \in {"none", "transient", "permanent"} : Settle(a, e)
    \/ TimerWins \/ Retry \/ Fallback \/ CallAgain

ResilienceSpec == ResilienceInit /\ [][ResilienceNext]_resilienceVars

-----------------------------------------------------------------------------
(* Correctness                                                             *)

\* The powers of the multiplier.
Growth[n \in Nat] == IF n = 0 THEN 1 ELSE Growth[n - 1] * Multiplier

\* The delay after attempt k, "with exponential backoff".
Backoff(k) == Smaller(InitialDelay * Growth[k - 1], LongestDelay)

\* What an operation costs: it is tried again only after an error that is worth it, after
\* the delay the configuration gives, never more often than it says, and beside an older
\* attempt only if that has timed out.  A failure is answered when the last attempt has
\* failed, and the fallback stands in only for one it is meant for.
RetriesJustified ==
    /\ attempt <= AttemptsAllowed
    /\ \A k \in 1 .. attempt - 1 : IsRetryableError(errors[k])
    /\ \A k \in DOMAIN slept : slept[k] = Backoff(k)
    /\ \A a \in unsettled : a # attempt => errors[a] = "timeout"
    /\ (pc = "fallback" \/ answer_ = "error") => Len(errors) = attempt
    /\ pc = "fallback" => FallsBackOn(errors[attempt])

\* Whatever its attempts do, a caller with a timer is answered.
CallerAnswered == service.timed ~> pc = "answered"
=============================================================================
