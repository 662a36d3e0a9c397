------------------------------- MODULE MCCore -------------------------------
(***************************************************************************)
(* The cache strategies and the multi-tier cache, a circuit, and a retried *)
(* operation.  They share nothing: a behaviour exercises one of them,      *)
(* which the variable strategy names.                                      *)
(***************************************************************************)
EXTENDS CacheStrategies, CircuitBreaker, MultiTierCache, Resilience

\* With and without a timer and a fallback, retrying every error or some, and
\* executeWithTimeoutAndFallback.
EveryService ==
    [timed : BOOLEAN, fallback : {"none", "any"},
     retried : {{}, {"transient"}, {"transient", "timeout"}}]
      \cup [timed : {TRUE}, fallback : {"timeout"}, retried : {{}}]

\* What a behaviour does not look at starts in one way only.
MCInit ==
    /\ Init /\ BreakerInit /\ TiersInit /\ ResilienceInit
    /\ strategy = "resilience" \/ service = CHOOSE s \in Services : TRUE

MCNext ==
    \/ /\ strategy \in {"aside", "through", "behind"}
       /\ Next /\ UNCHANGED <<breakerVars, tierVars, resilienceVars>>
    \/ strategy = "breaker" /\ BreakerNext /\ UNCHANGED <<vars, tierVars, resilienceVars>>
    \/ strategy = "tiers" /\ TiersNext /\ UNCHANGED <<vars, breakerVars, resilienceVars>>
    \/ strategy = "resilience" /\ ResilienceNext /\ UNCHANGED <<vars, breakerVars, tierVars>>

MCVars == <<vars, breakerVars, tierVars, resilienceVars>>

MCSpec == MCInit /\ [][MCNext]_MCVars

\* Awaited calls return, timers fire, and the service behind a circuit goes on being called;
\* a fallback settles.
Caching(A) == strategy \in {"aside", "through", "behind"} /\ A /\ UNCHANGED <<breakerVars, tierVars, resilienceVars>>
Breaking(A) == strategy = "breaker" /\ A /\ UNCHANGED <<vars, tierVars, resilienceVars>>
Retrying(A) == strategy = "resilience" /\ A /\ UNCHANGED <<vars, breakerVars, tierVars>>

MCFairSpec ==
    /\ MCSpec
    /\ \A p \in Procs : WF_MCVars(Caching(Step(p)))
    /\ WF_MCVars(Caching(Fire))
    /\ \A v \in Versions : WF_MCVars(Caching(Complete(v)))
    /\ WF_MCVars(Breaking(Tick))
    /\ \A c \in Calls : WF_MCVars(Breaking(Outcome(c))) /\ WF_MCVars(Breaking(Execute(c)))
    /\ WF_MCVars(Retrying(TimerWins))
    /\ WF_MCVars(Retrying(Retry)) /\ WF_MCVars(Retrying(Fallback))

\* A service that has recovered is used again.
ServiceUsedAgain == strategy = "breaker" => Recovers

\* A caller with a timer is answered.
OperationAnswered == strategy = "resilience" => CallerAnswered
=============================================================================
