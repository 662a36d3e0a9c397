------------------------------- MODULE EventBus -----------------------------
(***************************************************************************)
(* Domain events, core/events: publishing to the listeners of the moment,  *)
(* listeners wrapped so that their errors stay with them, and the bounded  *)
(* log from which events are replayed.                                     *)
(*                                                                         *)
(* EventEmitter2, external, keeps one registration more for a function     *)
(* that is subscribed again and calls it once for each.  It calls the      *)
(* registrations there are in their order, takes one that is to be called  *)
(* once off the list first, and stops at one that throws at once; what     *)
(* they return is awaited together, and the first rejection is the outcome.*)
(***************************************************************************)
EXTENDS Naturals, Sequences, SequencesExt, FiniteSets

CONSTANTS
    Listeners,   \* functions that may be subscribed
    Plain,       \* those of them that are not wrapped
    Publishers,  \* calls of publish that may overlap
    MaxEvents,   \* bound on the events published
    MaxListening,\* bound on the registrations there are at a time
    MaxLogSize   \* events kept in memory: 10000 in the code

ASSUME BusAssumption == MaxLogSize \in Nat

VARIABLES
    listeners, \* those registered, in order: [f, once]
    publish,   \* per call of publish: its event, the calls awaited (the registration's place
               \* and the function), the outcome, whether somebody was not called and whether
               \* a plain one was among the listeners
    eventLog,  \* the events kept
    events     \* history: events published since the log was cleared

busVars == <<listeners, publish, eventLog, events>>

Quiet == [awaited |-> {}, missed |-> FALSE, plain |-> FALSE, event |-> 0, outcome |-> "none"]

BusInit ==
    /\ listeners = << >> /\ publish = [p \in Publishers |-> Quiet]
    /\ eventLog = << >>
    /\ events = << >>

\* subscribe and subscribeOnce, of a function that may be subscribed already.
Subscribe(f, once) ==
    /\ Len(listeners) < MaxListening
    /\ listeners' = Append(listeners, [f |-> f, once |-> once])
    /\ UNCHANGED <<publish, eventLog, events>>

\* removeListener takes one registration of f away; which of several is the emitter's affair.
Unsubscribe(f) ==
    /\ \E i \in DOMAIN listeners : listeners[i].f = f /\ listeners' = RemoveAt(listeners, i)
    /\ UNCHANGED <<publish, eventLog, events>>

\* "Trim log if it exceeds max size"
Trimmed(s) == IF Len(s) > MaxLogSize THEN Tail(s) ELSE s

\* EventLoggerService.logEvent.
LogEvent(e) == eventLog' = Trimmed(Append(eventLog, e)) /\ events' = Append(events, e)

\* publish logs and emits.  If listener number k, a plain one, throws at once, those after
\* it are not called; k = 0 means that none does.
Publish(p, k) ==
    LET reached == {i \in DOMAIN listeners : k = 0 \/ i <= k}
        last == IF k = 0 THEN Len(listeners) ELSE k
        called == SubSeq(listeners, 1, last)
        others == SubSeq(listeners, last + 1, Len(listeners))
    IN  /\ publish[p].outcome = "none" /\ Len(events) < MaxEvents
        /\ k # 0 => k \in DOMAIN listeners /\ listeners[k].f \in Plain
        /\ LogEvent(Len(events) + 1)
        /\ listeners' = SelectSeq(called, LAMBDA l : ~ l.once) \o others
        /\ publish' = [publish EXCEPT ![p] =
              [missed |-> reached # DOMAIN listeners,
               plain |-> \E i \in DOMAIN listeners : listeners[i].f \in Plain,
               event |-> Len(events) + 1,
               awaited |-> {<<i, listeners[i].f>> : i \in reached \ {k}},
               outcome |-> IF k # 0 THEN "thrown" ELSE "pending"]]

\* Mutant: the wrapper logs the error and throws it again.
RejectsStill(f, failed) == failed

\* "Log the error but don't throw it": only a plain listener's error is publish's.
Rejects(f, failed) == failed /\ f \in Plain

\* A listener that was called settles.  The first rejection settles publish; the others run on.
Settle(p, call, failed) ==
    /\ call \in publish[p].awaited
    /\ publish' = [publish EXCEPT ![p].awaited = @ \ {call},
          ![p].outcome = IF @ = "pending" /\ Rejects(call[2], failed) THEN "thrown" ELSE @]
    /\ UNCHANGED <<listeners, eventLog, events>>

\* publish returns, or has thrown and everybody has settled.
Resolve(p) ==
    /\ publish[p].outcome # "none" /\ publish[p].awaited = {}
    /\ publish' = [publish EXCEPT ![p] = [Quiet EXCEPT !.event = publish[p].event]]
    /\ UNCHANGED <<listeners, eventLog, events>>

\* EventLoggerService.clear.  What was published before is out of the count.
Clear ==
    /\ events # << >>
    /\ eventLog' = << >> /\ events' = << >>
    /\ publish' = [p \in Publishers |-> [publish[p] EXCEPT !.event = 0]]
    /\ UNCHANGED listeners

\* replayEvents without a filter.
ReplayEvents == eventLog

BusNext ==
    \/ \E f \in Listeners : Unsubscribe(f) \/ \E once \in BOOLEAN : Subscribe(f, once)
    \/ \E p \in Publishers :
          \/ \E k \in 0 .. Len(listeners) : Publish(p, k)
          \/ \E call \in publish[p].awaited, failed \in BOOLEAN : Settle(p, call, failed)
          \/ Resolve(p)
    \/ Clear

BusSpec == BusInit /\ [][BusNext]_busVars

-----------------------------------------------------------------------------
(* Correctness                                                             *)

\* A wrapped listener disturbs nobody: publish fails only on account of a plain one, and
\* while there is none, everybody who was subscribed gets the event, whatever the others
\* do and whoever comes, goes or publishes meanwhile.  And where a plain one has stopped
\* an event, those who missed it can have it replayed while it is among the newest.
NobodyMissesForGood ==
    \A p \in Publishers :
        LET d == publish[p] IN
        /\ ~ d.plain => d.outcome # "thrown" /\ ~ d.missed
        /\ d.event # 0 /\ d.event + MaxLogSize > Len(events) =>
              \E i \in DOMAIN ReplayEvents : ReplayEvents[i] = d.event
=============================================================================
