----------------------------- MODULE CoreProofs -----------------------------
(***************************************************************************)
(* The shared services, each for any number of requests: the strategies    *)
(* that keep cache and database in step, the circuit breaker, the two      *)
(* cache tiers, and retries.                                               *)
(***************************************************************************)
EXTENDS CacheStrategies, CircuitBreaker, MultiTierCache, Resilience,
        SequenceTheorems, WellFoundedInduction, TLAPS

(***************************************************************************)
(* Cache-aside and write-through leave the key and the database in step,   *)
(* for any number of requests and writes and every fault.                  *)
(*                                                                         *)
(* At rest the claim says nothing about a request half way.  Synced does:  *)
(* what a reader is about to cache is what the database holds, and a       *)
(* write-through past the cache has left its own value there, or nothing.  *)
(* Alone lets the step of a writer consider no other request.              *)
(***************************************************************************)

Writing(p) == handler[p].pc \in {"cacheSet", "persist", "del", "queue"}

\* As long as requests were orderly, a writer is the only request.
Alone ==
    orderly => \A p \in Procs : Writing(p) => \A q \in Procs : q # p => At(q, "idle")

CacheCurrent == cache \in {None, db}

\* How cache and database relate at each await.
Synced ==
    orderly /\ ~ halfDone =>
        /\ Reading => CacheCurrent
        /\ \A p \in Procs :
              /\ At(p, "fill") => handler[p].value = db
              /\ At(p, "cacheSet") => CacheCurrent
              /\ At(p, "persist") => IF strategy = "aside" THEN CacheCurrent
                                     ELSE cache \in {None, handler[p].value}

\* Only write-behind has a queue, and cache-aside never sets the cache in set.
StrategyTyped ==
    /\ handler \in [Procs -> [pc : {"idle", "load", "fill", "cacheSet", "persist", "del"},
                              value : Nat]]
    /\ db \in Nat /\ written \in Nat
    /\ orderly \in BOOLEAN /\ halfDone \in BOOLEAN
    /\ timers = <<>> /\ persisting = {} /\ pending = None
    /\ strategy = "aside" => \A p \in Procs : ~ At(p, "cacheSet")

StrategyInv == strategy \in {"aside", "through"} => StrategyTyped /\ Alone /\ Synced

LEMMA InitStrategy == Init => StrategyInv
<1> SUFFICES ASSUME Init PROVE StrategyTyped /\ Alone /\ Synced
  BY DEF StrategyInv
<1>1. \A p \in Procs : handler[p].pc = "idle"
  BY DEF Init, Idle
<1>2. StrategyTyped
  BY <1>1 DEF Init, StrategyTyped, Idle, At
<1>3. Alone /\ Synced
  BY <1>1 DEF Init, Alone, Synced, Writing, CacheCurrent, At
<1> QED
  BY <1>2, <1>3

\* A reader: it writes nothing but the database's own value.
LEMMA ReaderStep ==
    ASSUME strategy \in {"aside", "through"}, StrategyTyped, Alone, Synced,
           NEW p \in Procs, Lookup(p) \/ Load(p) \/ Fill(p)
    PROVE  StrategyTyped' /\ Alone' /\ Synced'
<1> USE DEF At, RedisFails, RedisWorks, store, queue
<1>1. CASE Lookup(p)
  <2>1. StrategyTyped'
    BY <1>1 DEF Lookup, StrategyTyped
  <2>2. orderly' => orderly /\ Reading
    BY <1>1 DEF Lookup, StrategyTyped
  <2>3. handler'[p].pc = "load" /\ \A q \in Procs : q # p => handler'[q] = handler[q]
    BY <1>1 DEF Lookup, StrategyTyped
  <2>4. Alone'
    BY <1>1, <2>2, <2>3 DEF Alone, Writing, Reading
  <2>5. Synced'
    BY <1>1, <2>2, <2>3 DEF Lookup, StrategyTyped, Synced, Reading, CacheCurrent
  <2> QED
    BY <2>1, <2>4, <2>5
<1>2. CASE Load(p)
  <2>1. StrategyTyped'
    BY <1>2 DEF Load, StrategyTyped, Goto, Finish, Idle
  <2>2. /\ handler'[p].pc \in {"fill", "idle"} /\ handler[p].pc = "load"
        /\ handler'[p].pc = "fill" => handler'[p].value = db
        /\ \A q \in Procs : q # p => handler'[q] = handler[q]
    BY <1>2 DEF Load, StrategyTyped, Finish, Idle
  <2>3. Reading' => Reading
    BY <2>2 DEF Reading
  <2>4. Alone'
    BY <1>2, <2>2 DEF Load, Alone, Writing
  <2>5. Synced'
    BY <1>2, <2>2, <2>3 DEF Load, Synced, CacheCurrent
  <2> QED
    BY <2>1, <2>4, <2>5
<1>3. CASE Fill(p)
  <2>1. StrategyTyped'
    BY <1>3 DEF Fill, StrategyTyped, Finish, Idle
  <2>2. /\ handler'[p].pc = "idle" /\ handler[p].pc = "fill"
        /\ \A q \in Procs : q # p => handler'[q] = handler[q]
    BY <1>3 DEF Fill, StrategyTyped, Finish, Idle
  <2>3. orderly => \A q \in Procs : ~ Writing(q)
    BY <2>2 DEF Alone, Writing
  <2>4. Alone'
    BY <1>3, <2>2, <2>3 DEF Fill, Alone, Writing
  <2>5. ASSUME orderly', ~ halfDone' PROVE CacheCurrent'
    BY <1>3, <2>2, <2>5 DEF Fill, StrategyTyped, Synced, CacheCurrent
  <2>6. Synced'
    BY <1>3, <2>2, <2>3, <2>5 DEF Fill, StrategyTyped, Synced, Writing, CacheCurrent
  <2> QED
    BY <2>1, <2>4, <2>6
<1> QED
  BY <1>1, <1>2, <1>3

\* A writer: while requests are orderly, all others are idle.
LEMMA WriterStep ==
    ASSUME strategy \in {"aside", "through"}, StrategyTyped, Alone, Synced,
           NEW p \in Procs, Set(p) \/ CacheSet(p) \/ Persist(p) \/ Del(p)
    PROVE  StrategyTyped' /\ Alone' /\ Synced'
<1> USE DEF At, RedisFails, RedisWorks, store, queue
<1>1. CASE Set(p)
  <2>1. StrategyTyped'
    BY <1>1 DEF Set, StrategyTyped
  <2>2. orderly' => orderly /\ Quiescent
    BY <1>1 DEF Set, StrategyTyped
  <2>3. /\ handler'[p].pc = IF strategy = "aside" THEN "persist" ELSE "cacheSet"
        /\ \A q \in Procs : q # p => handler'[q] = handler[q]
    BY <1>1 DEF Set, StrategyTyped
  <2>4. Alone'
    BY <2>2, <2>3 DEF Alone, Writing, Quiescent
  <2>5. orderly' /\ ~ halfDone' => CacheCurrent
    BY <1>1, <2>2 DEF Set, Synced, Reading, Quiescent
  <2>6. Synced'
    BY <1>1, <2>2, <2>3, <2>5 DEF Set, Synced, Quiescent, Reading, CacheCurrent
  <2> QED
    BY <2>1, <2>4, <2>6
<1>2. CASE CacheSet(p) \/ Persist(p) \/ Del(p)
  <2>1. StrategyTyped'
    <3>1. CASE CacheSet(p)
      <4>1. strategy = "through" /\ handler[p].pc = "cacheSet"
        BY <3>1 DEF CacheSet, StrategyTyped
      <4>2. CASE Finish(p)
        BY <3>1, <4>1, <4>2 DEF CacheSet, StrategyTyped, Finish, Idle
      <4>3. CASE Goto(p, "persist")
        BY <3>1, <4>1, <4>3 DEF CacheSet, StrategyTyped, Goto
      <4> QED
        BY <3>1, <4>1, <4>2, <4>3 DEF CacheSet
    <3>2. CASE Persist(p)
      BY <3>2 DEF Persist, StrategyTyped, Goto, Finish, Idle
    <3>3. CASE Del(p)
      BY <3>3 DEF Del, StrategyTyped, Finish, Idle
    <3> QED
      BY <1>2, <3>1, <3>2, <3>3
  <2>2. /\ Writing(p) /\ orderly' = orderly /\ strategy' = strategy
        /\ \A q \in Procs : q # p => handler'[q] = handler[q]
    BY <1>2 DEF CacheSet, Persist, Del, StrategyTyped, Goto, Finish, Writing
  <2>3. orderly => \A q \in Procs : q # p => handler[q].pc = "idle"
    BY <2>2 DEF Alone
  <2>4. Alone'
    BY <2>2, <2>3 DEF Alone, Writing
  <2>5. CASE CacheSet(p)
    <3>1. /\ ~ halfDone' => /\ ~ halfDone /\ handler'[p].pc = "persist"
                            /\ handler'[p].value = handler[p].value
                            /\ cache' = handler[p].value
          /\ strategy = "through" /\ db' = db
      BY <2>5 DEF CacheSet, StrategyTyped, Goto, Finish, Idle, Synced
    <3> QED
      BY <2>1, <2>2, <2>3, <2>4, <3>1 DEF Synced, Reading
  <2>6. CASE Persist(p)
    <3>1. /\ halfDone' = halfDone /\ cache' = cache /\ handler[p].pc = "persist"
          /\ handler'[p].pc \in {"del", "idle"}
          /\ handler'[p].pc = "idle" => \/ strategy = "aside" /\ db' = db
                                        \/ strategy = "through" /\ db' = handler[p].value
      BY <2>6 DEF Persist, StrategyTyped, Goto, Finish, Idle
    <3> QED
      BY <2>1, <2>2, <2>3, <2>4, <3>1 DEF Synced, Reading, CacheCurrent
  <2>7. CASE Del(p)
    <3>1. handler'[p].pc = "idle" /\ (~ halfDone' => cache' = None)
      BY <2>7 DEF Del, StrategyTyped, Finish, Idle
    <3> QED
      BY <2>1, <2>2, <2>3, <2>4, <3>1 DEF Synced, Reading, CacheCurrent
  <2> QED
    BY <1>2, <2>5, <2>6, <2>7
<1> QED
  BY <1>1, <1>2

LEMMA StrategyInductive == StrategyInv /\ [Next]_vars => StrategyInv'
<1> SUFFICES ASSUME StrategyInv, [Next]_vars, strategy' \in {"aside", "through"}
             PROVE  StrategyTyped' /\ Alone' /\ Synced'
  BY DEF StrategyInv
<1>1. strategy' = strategy
  BY DEF Next, Step, Lookup, Set, Load, Fill, CacheSet, Persist, Del, Queue, Fire,
         Complete, Flush, Expire, Crash, vars
<1>2. StrategyTyped /\ Alone /\ Synced
  BY <1>1 DEF StrategyInv
<1>3. ASSUME NEW p \in Procs, Lookup(p) \/ Set(p) \/ Step(p)
      PROVE  StrategyTyped' /\ Alone' /\ Synced'
  <2>1. ~ Queue(p)
    BY <1>2 DEF Queue, At, StrategyTyped
  <2> QED
    BY <1>1, <1>2, <1>3, <2>1, ReaderStep, WriterStep DEF Step
<1>4. CASE Fire \/ Flush \/ \E v \in persisting : Complete(v)
  BY <1>2, <1>4 DEF Fire, Flush, Complete, StrategyTyped
<1>5. CASE Expire
  BY <1>2, <1>5 DEF Expire, store, queue, StrategyTyped, Alone, Synced, Writing, Reading,
                    CacheCurrent, At
<1>6. CASE Crash
  <2>1. \A p \in Procs : handler'[p].pc = "idle"
    BY <1>6 DEF Crash, Idle
  <2>2. StrategyTyped'
    <3>1. handler' \in [Procs -> [pc : {"idle", "load", "fill", "cacheSet", "persist", "del"},
                                  value : Nat]]
      BY <1>6 DEF Crash, Idle
    <3>2. halfDone' \in BOOLEAN
      BY <1>6 DEF Crash
    <3> QED
      BY <1>1, <1>2, <1>6, <2>1, <3>1, <3>2 DEF Crash, store, StrategyTyped, At
  <2>3. Alone'
    BY <2>1 DEF Alone, Writing
  <2>4. ~ halfDone' => ~ halfDone /\ Reading
    BY <1>6 DEF Crash, Quiescent, Reading, At
  <2>5. Synced'
    BY <1>2, <1>6, <2>1, <2>4 DEF Crash, store, Synced, CacheCurrent, At
  <2> QED
    BY <2>2, <2>3, <2>5
<1>7. CASE UNCHANGED vars
  BY <1>2, <1>7 DEF vars, StrategyTyped, Alone, Synced, Writing, Reading, CacheCurrent, At
<1> QED
  BY <1>3, <1>4, <1>5, <1>6, <1>7 DEF Next

(***************************************************************************)
(* Write-behind, for any number of requests and writes.  Every write of    *)
(* the key is on its way to the database in the order in which it was      *)
(* made, also when the completion of an older one has deleted the queue    *)
(* entry of a newer (write-behind.strategy.ts:110): the newer timer can    *)
(* then no longer be cancelled, but it still fires before any later one.   *)
(***************************************************************************)

Ascending(s) == \A i, j \in DOMAIN s : i < j => s[i] < s[j]

\* All that is stored or on its way there is older than v.
OlderThan(v) ==
    /\ db < v
    /\ \A w \in persisting : w < v
    /\ \A i \in DOMAIN timers : timers[i] < v

\* The writes of one key are on their way in the order in which they were made: first what a
\* persister is about to store, then the timers, then the write of a request.  The last
\* one is among them, or stored.
InOrder ==
    orderly /\ ~ dropped =>
        /\ db <= written
        /\ \A v \in persisting : db < v /\ v <= written /\ persisting = {v}
        /\ Ascending(timers)
        /\ \A i \in DOMAIN timers :
             db < timers[i] /\ timers[i] <= written /\ \A v \in persisting : v < timers[i]
        /\ \A p \in Procs : Writing(p) => handler[p].value = written /\ OlderThan(written)
        /\ (\A p \in Procs : ~ Writing(p)) =>
             \/ db = written \/ written \in persisting
             \/ \E i \in DOMAIN timers : timers[i] = written

\* Only write-behind cancels and arms timers; it never awaits the database in set.
QueueTyped ==
    /\ handler \in [Procs -> [pc : {"idle", "load", "fill", "cacheSet", "queue"}, value : Nat]]
    /\ db \in Nat /\ written \in Nat
    /\ orderly \in BOOLEAN /\ dropped \in BOOLEAN
    /\ timers \in Seq(Nat) /\ persisting \subseteq Nat

QueueInv == strategy = "behind" => QueueTyped /\ Alone /\ InOrder

LEMMA InitQueue == Init => QueueInv
<1> SUFFICES ASSUME Init PROVE QueueTyped /\ Alone /\ InOrder
  BY DEF QueueInv
<1>1. /\ \A p \in Procs : handler[p].pc = "idle"
      /\ timers = <<>> /\ DOMAIN timers = {} /\ persisting = {} /\ db = 0 /\ written = 0
  BY DEF Init, Idle
<1>2. QueueTyped
  <2>1. << >> \in Seq(Nat)
    OBVIOUS
  <2>2. handler \in [Procs -> [pc : {"idle", "load", "fill", "cacheSet", "queue"}, value : Nat]]
    BY DEF Init, Idle
  <2> QED
    BY <2>1, <2>2 DEF Init, QueueTyped
<1> QED
  BY <1>1, <1>2 DEF Alone, InOrder, Writing, Ascending

\* clearTimeout takes nothing away but the timer it is given, and leaves the others in order.
LEMMA ClearTimeoutKeeps ==
  ASSUME timers \in Seq(Nat), NEW t
  PROVE  /\ ClearTimeout(t) \in Seq(Nat)
         /\ \A i \in DOMAIN ClearTimeout(t) : \E k \in DOMAIN timers : ClearTimeout(t)[i] = timers[k]
         /\ Ascending(timers) => Ascending(ClearTimeout(t))
<1>1. CASE ~ \E i \in DOMAIN timers : timers[i] = t
  BY <1>1 DEF ClearTimeout
<1>2. CASE \E i \in DOMAIN timers : timers[i] = t
  <2>1. PICK at \in DOMAIN timers :
          ClearTimeout(t) = [k \in 1 .. Len(timers) - 1 |-> timers[IF k < at THEN k ELSE k + 1]]
    <3>1. (CHOOSE i \in DOMAIN timers : timers[i] = t) \in DOMAIN timers
      BY <1>2
    <3> QED
      BY <1>2, <3>1 DEF ClearTimeout
  <2>2. DOMAIN timers = 1 .. Len(timers) /\ Len(timers) \in Nat /\ Len(timers) >= 1 /\ at \in Nat
    OBVIOUS
  <2>3. PICK n \in Nat : n = Len(timers) - 1
    <3>1. Len(timers) - 1 \in Nat
      BY <2>2
    <3> QED
      BY <3>1
  <2>4. \A k \in 1 .. n : (IF k < at THEN k ELSE k + 1) \in DOMAIN timers
    BY <2>2, <2>3
  <2>5. ClearTimeout(t) = [k \in 1 .. n |-> timers[IF k < at THEN k ELSE k + 1]]
    BY <2>1, <2>3
  <2>6. ClearTimeout(t) \in Seq(Nat) /\ DOMAIN ClearTimeout(t) = 1 .. n
    <3>1. \A k \in 1 .. n : timers[IF k < at THEN k ELSE k + 1] \in Nat
      BY <2>4
    <3>2. ClearTimeout(t) \in [1 .. n -> Nat]
      BY <2>5, <3>1
    <3> QED
      BY <2>3, <3>2
  <2>7. \A k \in 1 .. n : ClearTimeout(t)[k] = timers[IF k < at THEN k ELSE k + 1]
    BY <2>5
  <2>8. ASSUME Ascending(timers), NEW i \in 1 .. n, NEW j \in 1 .. n, i < j
        PROVE  ClearTimeout(t)[i] < ClearTimeout(t)[j]
    <3>1. (IF i < at THEN i ELSE i + 1) < (IF j < at THEN j ELSE j + 1)
      BY <2>2, <2>8
    <3> QED
      BY <2>4, <2>7, <2>8, <3>1 DEF Ascending
  <2> QED
    BY <2>4, <2>6, <2>7, <2>8 DEF Ascending
<1> QED
  BY <1>1, <1>2

\* A get, and the steps of a set before it queues its write.
LEMMA RequestStep ==
  ASSUME strategy = "behind", QueueTyped, Alone, InOrder,
         NEW p \in Procs, Lookup(p) \/ Load(p) \/ Fill(p) \/ Set(p) \/ CacheSet(p)
  PROVE  QueueTyped' /\ Alone' /\ InOrder'
<1> USE DEF At, RedisFails, RedisWorks, store, queue
<1>1. /\ UNCHANGED <<db, timers, persisting>>
      /\ \A q \in Procs : q # p => handler'[q] = handler[q]
  BY DEF Lookup, Load, Fill, Set, CacheSet, QueueTyped, Goto, Finish
<1>2. QueueTyped'
  <2>0. timers' \in Seq(Nat) /\ persisting' \subseteq Nat /\ db' \in Nat
    BY <1>1 DEF QueueTyped
  <2>1. CASE CacheSet(p)
    <3>1. CASE Finish(p)
      BY <2>1, <3>1 DEF CacheSet, QueueTyped, Finish, Idle
    <3>2. CASE Goto(p, "queue")
      BY <2>1, <3>2 DEF CacheSet, QueueTyped, Goto
    <3> QED
      BY <2>1, <3>1, <3>2 DEF CacheSet
  <2>2. CASE Lookup(p)
    BY <2>0, <2>2 DEF Lookup, QueueTyped
  <2>3. CASE Set(p)
    BY <2>0, <2>3 DEF Set, QueueTyped
  <2>4. CASE Load(p) \/ Fill(p)
    <3>1. handler' = [handler EXCEPT ![p] = [pc |-> "fill", value |-> db]] \/ Finish(p)
      BY <2>4 DEF Load, Fill
    <3>2. handler' \in [Procs -> [pc : {"idle", "load", "fill", "cacheSet", "queue"}, value : Nat]]
      BY <3>1 DEF QueueTyped, Finish, Idle
    <3>3. written' = written /\ orderly' = orderly /\ dropped' = dropped
      BY <2>4 DEF Load, Fill
    <3> QED
      BY <2>0, <3>2, <3>3 DEF QueueTyped
  <2> QED
    BY <2>1, <2>2, <2>3, <2>4
<1>3. CASE Lookup(p) \/ Load(p) \/ Fill(p)
  <2>1. /\ written' = written /\ dropped' = dropped
        /\ orderly' => orderly
        /\ ~ Writing(p) /\ ~ Writing(p)'
    BY <1>3 DEF Lookup, Load, Fill, QueueTyped, Finish, Idle, Writing
  <2>2. orderly' => \A q \in Procs : Writing(q) => q # p /\ FALSE
    BY <1>3, <2>1 DEF Lookup, Load, Fill, Alone, Writing, QueueTyped, Reading
  <2>3. \A q \in Procs : Writing(q)' => Writing(q) /\ q # p
    BY <1>1, <2>1 DEF Writing
  <2>4. Alone'
    BY <2>2, <2>1, <2>3 DEF Alone
  <2>5. InOrder'
    BY <1>1, <2>1, <2>2, <2>3 DEF InOrder, Ascending
  <2> QED
    BY <1>2, <2>4, <2>5
<1>4. CASE Set(p)
  <2>1. /\ written' = written + 1 /\ dropped' = dropped
        /\ orderly' => orderly /\ Quiescent
        /\ handler'[p] = [pc |-> "cacheSet", value |-> written']
    BY <1>4 DEF Set, QueueTyped
  <2>2. Alone'
    BY <1>1, <2>1 DEF Alone, Quiescent, Writing
  <2>3. ASSUME orderly', ~ dropped' PROVE OlderThan(written)' /\ db <= written'
    BY <1>1, <2>1, <2>3 DEF InOrder, OlderThan, QueueTyped
  <2>4. InOrder'
    <3>1. Writing(p)'
      BY <2>1 DEF Writing
    <3>2. orderly' => \A q \in Procs : Writing(q)' => q = p
      BY <1>1, <2>1 DEF Quiescent, Writing
    <3> QED
      BY <1>1, <2>1, <2>3, <3>1, <3>2 DEF InOrder, Ascending, QueueTyped
  <2> QED
    BY <1>2, <2>2, <2>4
<1>5. CASE CacheSet(p)
  <2>1. /\ written' = written /\ orderly' = orderly
        /\ ~ dropped' => ~ dropped /\ handler'[p].value = handler[p].value /\ Writing(p)'
        /\ Writing(p)
    BY <1>5 DEF CacheSet, QueueTyped, Goto, Writing, Finish
  <2>2. Alone'
    BY <1>1, <2>1 DEF Alone, Writing
  <2>3. InOrder'
    BY <1>1, <2>1 DEF InOrder, Ascending, Writing, OlderThan
  <2> QED
    BY <1>2, <2>2, <2>3
<1> QED
  BY <1>3, <1>4, <1>5

\* queueDatabaseWrite: nobody else writes, so what is queued is older.
LEMMA QueueStep ==
  ASSUME strategy = "behind", QueueTyped, Alone, InOrder, NEW p \in Procs, Queue(p)
  PROVE  QueueTyped' /\ Alone' /\ InOrder'
<1> USE DEF At, store
<1>1. PICK s \in Seq(Nat) :
        /\ s = ClearTimeout(pending)
        /\ \A i \in DOMAIN s : \E k \in DOMAIN timers : s[i] = timers[k]
        /\ Ascending(timers) => Ascending(s)
  BY ClearTimeoutKeeps DEF QueueTyped
<1>2. PICK v \in Nat : v = handler[p].value
  BY DEF QueueTyped
<1>3. /\ timers' = Append(s, v)
      /\ UNCHANGED <<db, written, persisting, orderly, dropped>>
      /\ Writing(p) /\ handler'[p].pc = "idle"
      /\ \A q \in Procs : q # p => handler'[q] = handler[q]
  BY <1>1, <1>2 DEF Queue, Finish, Idle, QueueTyped, Writing
<1>4. /\ Append(s, v) \in Seq(Nat) /\ Len(Append(s, v)) = Len(s) + 1
      /\ Append(s, v)[Len(s) + 1] = v
      /\ \A i \in 1 .. Len(s) : Append(s, v)[i] = s[i]
  BY <1>1, <1>2, AppendProperties
<1>5. /\ DOMAIN timers' = 1 .. Len(s) + 1 /\ timers'[Len(s) + 1] = v
      /\ \A i \in DOMAIN s : timers'[i] = s[i]
      /\ DOMAIN s = 1 .. Len(s) /\ Len(s) \in Nat
  BY <1>1, <1>3, <1>4
<1>6. QueueTyped'
  BY <1>3, <1>4 DEF QueueTyped, Queue, Finish, Idle
<1>7. orderly => \A q \in Procs : ~ Writing(q)'
  BY <1>3 DEF Alone, Writing
<1>8. InOrder'
  <2> SUFFICES ASSUME orderly, ~ dropped PROVE InOrder'
    BY <1>3 DEF InOrder
  <2>1. v = written /\ OlderThan(v) /\ Ascending(s)
    BY <1>1, <1>2, <1>3 DEF InOrder
  <2>2. \A i \in DOMAIN s : /\ s[i] < v /\ db < s[i] /\ s[i] <= written
                            /\ \A w \in persisting : w < s[i]
    BY <1>1, <2>1 DEF InOrder, OlderThan
  <2>3. Ascending(timers)'
    <3> SUFFICES ASSUME NEW i \in 1 .. Len(s) + 1, NEW j \in 1 .. Len(s) + 1, i < j
                 PROVE  timers'[i] < timers'[j]
      BY <1>5 DEF Ascending
    <3>1. i \in DOMAIN s
      BY <1>5
    <3>2. CASE j = Len(s) + 1
      BY <1>5, <2>2, <3>1, <3>2
    <3>3. CASE j # Len(s) + 1
      <4>1. j \in DOMAIN s
        BY <1>5, <3>3
      <4> QED
        BY <1>5, <2>1, <3>1, <4>1 DEF Ascending
    <3> QED
      BY <3>2, <3>3
  <2>4. \A i \in DOMAIN timers' :
          db < timers'[i] /\ timers'[i] <= written /\ \A w \in persisting : w < timers'[i]
    <3> SUFFICES ASSUME NEW i \in 1 .. Len(s) + 1
                 PROVE  db < timers'[i] /\ timers'[i] <= written
                        /\ \A w \in persisting : w < timers'[i]
      BY <1>5
    <3>1. CASE i = Len(s) + 1
      BY <1>2, <1>5, <2>1, <3>1 DEF OlderThan
    <3>2. CASE i # Len(s) + 1
      <4>1. i \in DOMAIN s
        BY <1>5, <3>2
      <4> QED
        BY <1>5, <2>2, <4>1
    <3> QED
      BY <3>1, <3>2
  <2>5. Len(s) + 1 \in DOMAIN timers' /\ timers'[Len(s) + 1] = written
    BY <1>5, <2>1
  <2> QED
    BY <1>3, <1>7, <2>3, <2>4, <2>5 DEF InOrder
<1>9. Alone'
  BY <1>3, <1>7 DEF Alone
<1> QED
  BY <1>6, <1>8, <1>9

\* A timer fires, or a persister answers: the oldest write moves on.
LEMMA TimerStep ==
  ASSUME strategy = "behind", QueueTyped, Alone, InOrder,
         Fire \/ \E v \in persisting : Complete(v)
  PROVE  QueueTyped' /\ Alone' /\ InOrder'
<1>1. CASE Fire
  <2>1. PICK s \in Seq(Nat) : s = timers /\ s # << >>
    BY <1>1 DEF Fire, QueueTyped
  <2>2. /\ Head(s) \in Nat /\ Head(s) = s[1]
        /\ Tail(s) \in Seq(Nat) /\ Len(Tail(s)) = Len(s) - 1
        /\ \A i \in 1 .. Len(Tail(s)) : Tail(s)[i] = s[i + 1]
    BY <2>1, HeadTailProperties
  <2>3. /\ timers' = Tail(s) /\ persisting' = persisting \cup {s[1]}
        /\ UNCHANGED <<db, written, handler, dropped>>
        /\ orderly' = (orderly /\ persisting = {})
    BY <1>1, <2>1, <2>2 DEF Fire, store
  <2>4. /\ DOMAIN s = 1 .. Len(s) /\ Len(s) \in Nat \ {0} /\ 1 \in DOMAIN s
        /\ DOMAIN timers' = 1 .. Len(s) - 1
        /\ \A i \in DOMAIN timers' : i \in Nat /\ i + 1 \in DOMAIN s /\ timers'[i] = s[i + 1]
    BY <2>1, <2>2, <2>3
  <2>5. QueueTyped'
    BY <2>2, <2>3 DEF QueueTyped
  <2>6. Alone'
    BY <2>3 DEF Alone, Writing, At
  <2>7. InOrder'
    <3> SUFFICES ASSUME orderly, persisting = {}, ~ dropped PROVE InOrder'
      BY <2>3 DEF InOrder
    <3>1. persisting' = {s[1]}
      BY <2>3
    <3>2. db < s[1] /\ s[1] <= written
      BY <2>1, <2>4 DEF InOrder
    <3>3. Ascending(timers)'
      BY <2>1, <2>4 DEF InOrder, Ascending
    <3>4. \A i \in DOMAIN timers' : db < timers'[i] /\ timers'[i] <= written /\ s[1] < timers'[i]
      <4> SUFFICES ASSUME NEW i \in DOMAIN timers'
                   PROVE  db < timers'[i] /\ timers'[i] <= written /\ s[1] < timers'[i]
        OBVIOUS
      <4>1. i + 1 \in DOMAIN timers /\ 1 \in DOMAIN timers /\ 1 < i + 1
            /\ timers'[i] = timers[i + 1]
        BY <2>1, <2>4
      <4> QED
        BY <2>1, <4>1 DEF InOrder, Ascending
    <3>5. ASSUME NEW q \in Procs, Writing(q)
          PROVE  handler[q].value = written /\ OlderThan(written)'
      <4>1. handler[q].value = written /\ OlderThan(written)
        BY <3>5 DEF InOrder
      <4>2. s[1] < written /\ \A i \in DOMAIN timers' : timers'[i] < written
        BY <2>1, <2>4, <4>1 DEF OlderThan
      <4> QED
        BY <2>3, <3>1, <4>1, <4>2 DEF OlderThan
    <3>6. ASSUME \A q \in Procs : ~ Writing(q)
          PROVE  \/ db = written \/ written \in persisting'
                 \/ \E i \in DOMAIN timers' : timers'[i] = written
      <4>1. CASE db = written
        BY <4>1
      <4>2. ASSUME NEW i \in DOMAIN s, s[i] = written
            PROVE  written \in persisting' \/ \E k \in DOMAIN timers' : timers'[k] = written
        <5>1. CASE i = 1
          BY <3>1, <4>2, <5>1
        <5>2. CASE i # 1
          <6>1. i - 1 \in DOMAIN timers' /\ (i - 1) + 1 = i
            BY <2>4, <5>2
          <6>2. timers'[i - 1] = s[i]
            BY <2>4, <6>1
          <6> QED
            BY <4>2, <6>1, <6>2
        <5> QED
          BY <5>1, <5>2
      <4> QED
        BY <2>1, <3>6, <4>1, <4>2 DEF InOrder
    <3>7. \A q \in Procs : Writing(q)' <=> Writing(q)
      BY <2>3 DEF Writing
    <3>8. db <= written
      BY DEF InOrder
    <3> QED
      BY <2>3, <3>1, <3>2, <3>3, <3>4, <3>5, <3>6, <3>7, <3>8 DEF InOrder
  <2> QED
    BY <2>5, <2>6, <2>7
<1>2. ASSUME NEW v \in persisting, Complete(v) PROVE QueueTyped' /\ Alone' /\ InOrder'
  <2>1. /\ persisting' = persisting \ {v}
        /\ UNCHANGED <<written, handler, timers, orderly>>
        /\ ~ dropped' => db' = v /\ ~ dropped
        /\ db' \in Nat /\ dropped' \in BOOLEAN
    <3>1. v \in Nat
      BY DEF QueueTyped
    <3>2. (db' = v /\ dropped' = dropped) \/ (dropped' = TRUE /\ db' = db)
      BY <1>2 DEF Complete
    <3>3. persisting' = persisting \ {v} /\ UNCHANGED <<written, handler, timers, orderly>>
      BY <1>2 DEF Complete
    <3> QED
      BY <3>1, <3>2, <3>3 DEF QueueTyped
  <2>2. QueueTyped' /\ Alone'
    BY <2>1 DEF QueueTyped, Alone, Writing, At
  <2>3. InOrder'
    <3> SUFFICES ASSUME orderly, ~ dropped' PROVE InOrder'
      BY <2>1 DEF InOrder
    <3>1. persisting' = {} /\ db' = v /\ db < v /\ v <= written /\ ~ dropped
      BY <2>1 DEF InOrder
    <3>2. ASSUME OlderThan(written) PROVE OlderThan(written)'
      BY <2>1, <3>1, <3>2 DEF OlderThan
    <3>3. written \in persisting => written = v
      BY <3>1 DEF InOrder
    <3>4. db = written => FALSE
      BY <3>1 DEF QueueTyped
    <3>5. \A q \in Procs : Writing(q)' <=> Writing(q)
      BY <2>1 DEF Writing
    <3>6. Ascending(timers)'
      BY <2>1, <3>1 DEF InOrder, Ascending
    <3>7. \A i \in DOMAIN timers' : db' < timers'[i] /\ timers'[i] <= written
      BY <2>1, <3>1 DEF InOrder
    <3>8. \A q \in Procs : Writing(q)' => handler'[q].value = written' /\ OlderThan(written)'
      BY <2>1, <3>1, <3>2, <3>5 DEF InOrder
    <3>9. (\A q \in Procs : ~ Writing(q)') =>
            db' = written' \/ \E i \in DOMAIN timers' : timers'[i] = written'
      BY <2>1, <3>1, <3>3, <3>4, <3>5 DEF InOrder
    <3> QED
      BY <2>1, <3>1, <3>6, <3>7, <3>8, <3>9 DEF InOrder
  <2> QED
    BY <2>2, <2>3
<1> QED
  BY <1>1, <1>2

\* One step per action; Flush and Crash give writes up, after which only types are claimed.
LEMMA QueueInductive == QueueInv /\ [Next]_vars => QueueInv'
<1> SUFFICES ASSUME QueueInv, [Next]_vars, strategy' = "behind"
             PROVE  QueueTyped' /\ Alone' /\ InOrder'
  BY DEF QueueInv
<1>1. strategy' = strategy
  BY DEF Next, Step, Lookup, Set, Load, Fill, CacheSet, Persist, Del, Queue, Fire,
         Complete, Flush, Expire, Crash, vars
<1>2. QueueTyped /\ Alone /\ InOrder
  BY <1>1 DEF QueueInv
<1>3. ASSUME NEW p \in Procs, Lookup(p) \/ Set(p) \/ Step(p)
      PROVE  QueueTyped' /\ Alone' /\ InOrder'
  <2>1. ~ Persist(p) /\ ~ Del(p)
    BY <1>2 DEF Persist, Del, At, QueueTyped
  <2> QED
    BY <1>1, <1>2, <1>3, <2>1, RequestStep, QueueStep DEF Step
<1>4. CASE Fire \/ \E v \in persisting : Complete(v)
  BY <1>1, <1>2, <1>4, TimerStep
<1>5. CASE Expire \/ UNCHANGED vars
  <2>1. UNCHANGED <<db, written, handler, timers, persisting, orderly, dropped>>
    BY <1>5 DEF Expire, vars, queue
  <2> QED
    BY <1>2, <2>1 DEF QueueTyped, Alone, InOrder, Writing, At, Ascending, OlderThan
<1>6. CASE Flush
  <2>1. timers' \in Seq(Nat)
    BY <1>2, <1>6, ClearTimeoutKeeps DEF Flush, QueueTyped
  <2> QED
    BY <1>2, <1>6, <2>1 DEF Flush, store, QueueTyped, Alone, InOrder, Writing, At
<1>7. CASE Crash
  <2>1. \A p \in Procs : handler'[p].pc = "idle"
    BY <1>7 DEF Crash, Idle
  <2>2. QueueTyped'
    BY <1>2, <1>7 DEF Crash, store, QueueTyped, Idle
  <2> QED
    BY <1>7, <2>1, <2>2 DEF Crash, Alone, InOrder, Writing
<1> QED
  BY <1>3, <1>4, <1>5, <1>6, <1>7 DEF Next

\* At rest nothing is on its way, so the last write is stored.
LEMMA QueueAtRest ==
  ASSUME QueueInv, Quiescent, orderly, strategy = "behind", timers = <<>>, persisting = {},
         ~ dropped
  PROVE  db = written
<1>1. DOMAIN timers = {} /\ \A p \in Procs : ~ Writing(p)
  BY DEF Quiescent, At, Writing
<1> QED
  BY <1>1 DEF QueueInv, InOrder

\* For any number of requests and writes, and whatever fails: orderly requests of cache-aside
\* and write-through leave the key absent or equal to the database, whatever persisters
\* answer and whenever the key expires; and those of write-behind leave the last write in
\* the database once no timer is armed and no persister runs.
THEOREM CacheInSync == Spec => []InSyncAtRest
<1>1. StrategyInv /\ QueueInv => InSyncAtRest
  BY QueueAtRest
  DEF StrategyInv, InSyncAtRest, Synced, Reading, Quiescent, CacheCurrent, At
<1>2. QED
  BY <1>1, InitStrategy, StrategyInductive, InitQueue, QueueInductive, PTL DEF Spec

\* Overlaps and given-up writes apart, no write of write-behind replaces a newer one.
NewestStays ==
    [][strategy = "behind" /\ orderly' /\ ~ dropped' => db' >= db]_vars

\* For any number of writes, whatever is cancelled, flushed or crashes: a persister never
\* puts an older value in the place of a newer one.
THEOREM NewestIsKept == Spec => NewestStays
<1>1. ASSUME QueueInv, [Next]_vars
      PROVE  [strategy = "behind" /\ orderly' /\ ~ dropped' => db' >= db]_vars
  <2> SUFFICES ASSUME Next, strategy = "behind", orderly', ~ dropped' PROVE db' >= db
    BY <1>1
  <2>1. QueueTyped /\ InOrder
    BY <1>1 DEF QueueInv
  <2>0. db \in Nat /\ (UNCHANGED db => db' >= db)
    BY <2>1 DEF QueueTyped
  <2>2. ASSUME NEW p \in Procs, Lookup(p) \/ Set(p) \/ Step(p) PROVE db' >= db
    <3>1. ~ Persist(p)
      BY <2>1 DEF Persist, At, QueueTyped
    <3>2. UNCHANGED db
      BY <2>2, <3>1 DEF Step, Lookup, Set, Load, Fill, CacheSet, Del, Queue, store
    <3> QED
      BY <2>0, <3>2
  <2>3. ASSUME NEW v \in persisting, Complete(v) PROVE db' >= db
    BY <2>1, <2>3 DEF Complete, InOrder, QueueTyped
  <2>4. CASE Fire \/ Flush \/ Expire \/ Crash
    BY <2>0, <2>4 DEF Fire, Flush, Expire, Crash, store
  <2> QED
    BY <2>2, <2>3, <2>4 DEF Next
<1>2. QueueInv /\ [Next]_vars => [strategy = "behind" /\ orderly' /\ ~ dropped' => db' >= db]_vars
  BY <1>1
<1> QED
  BY <1>2, InitQueue, QueueInductive, PTL DEF Spec, NewestStays

(***************************************************************************)
(* The circuit breaker for any number of calls in flight, any thresholds   *)
(* and any times that keep the latest timer of a call below the circuit's  *)
(* rest.  The strengthening is NoneAdmittedWhileOpen: while the circuit is *)
(* open no call is younger than the last failure, so once it has rested    *)
(* every call of the time before has been recorded.                        *)
(***************************************************************************)

BreakerInv ==
    /\ BreakerTypeOK
    /\ ClosedBelowThreshold
    /\ HalfOpenBelowThreshold
    /\ OpenCanBeTried
    /\ OnlyTrialsJudge
    /\ NoneAdmittedWhileOpen

\* A rested circuit has no call in flight: each would be older than its timer allows.
LEMMA RestedIsQuiet ==
  ASSUME BreakerInv, state = "OPEN", Cooled
  PROVE  running = {}
<1> SUFFICES ASSUME NEW c \in running PROVE FALSE
  OBVIOUS
<1>1. age[c] >= since /\ since >= Timeout
  BY DEF BreakerInv, NoneAdmittedWhileOpen, Cooled
<1>2. age[c] \in 0 .. Latest /\ since \in 0 .. Timeout
  BY DEF BreakerInv, BreakerTypeOK, Cooled
<1>3. QED
  BY <1>1, <1>2, TimeAssumption

LEMMA IncType == \A n \in 0 .. MaxCount : Inc(n) \in 0 .. MaxCount
  BY ThresholdAssumption DEF Inc

LEMMA InitBreakerInv == BreakerInit => BreakerInv
  BY ThresholdAssumption, TimeAssumption
  DEF BreakerInit, BreakerInv, BreakerTypeOK, ClosedBelowThreshold, HalfOpenBelowThreshold,
      OpenCanBeTried, OnlyTrialsJudge, NoneAdmittedWhileOpen

\* Admission: a trial starts a period with itself as its only call.
LEMMA ExecuteBreakerInv ==
  ASSUME BreakerInv, NEW c \in Calls, Execute(c)
  PROVE  BreakerInv'
<1>1. CASE Admit(c)
  BY <1>1, TimeAssumption
  DEF Admit, Start, stats, BreakerInv, BreakerTypeOK, ClosedBelowThreshold,
      HalfOpenBelowThreshold, OpenCanBeTried, OnlyTrialsJudge,
      NoneAdmittedWhileOpen
<1>2. CASE Trial(c)
  <2>1. running = {}
    BY <1>2, RestedIsQuiet DEF Trial
  <2>2. QED
    BY <1>2, <2>1, TimeAssumption, ThresholdAssumption
    DEF Trial, Start, BreakerInv, BreakerTypeOK, ClosedBelowThreshold,
        HalfOpenBelowThreshold, OpenCanBeTried, OnlyTrialsJudge,
        NoneAdmittedWhileOpen
<1>3. QED
  BY <1>1, <1>2 DEF Execute

LEMMA SuccessBreakerInv ==
  ASSUME BreakerInv, NEW c \in Calls, Succeed(c)
  PROVE  BreakerInv'
<1>1. Inc(successes) \in 0 .. MaxCount
  BY IncType DEF BreakerInv, BreakerTypeOK
<1>2. CASE state = "HALF_OPEN" /\ Inc(successes) >= SuccessThreshold
  BY <1>2, ThresholdAssumption
  DEF Succeed, RecordSuccess, Stop, BreakerInv, BreakerTypeOK, ClosedBelowThreshold,
      HalfOpenBelowThreshold, OpenCanBeTried, OnlyTrialsJudge,
      NoneAdmittedWhileOpen
<1>3. CASE ~ (state = "HALF_OPEN" /\ Inc(successes) >= SuccessThreshold)
  BY <1>1, <1>3, ThresholdAssumption
  DEF Succeed, RecordSuccess, Stop, BreakerInv, BreakerTypeOK, ClosedBelowThreshold,
      HalfOpenBelowThreshold, OpenCanBeTried, OnlyTrialsJudge,
      NoneAdmittedWhileOpen
<1>4. QED
  BY <1>2, <1>3

\* A failure, by the call's own doing or by its timer.
LEMMA FailureBreakerInv ==
  ASSUME BreakerInv, NEW c \in Calls, c \in running, Stop(c), RecordFailure(c)
  PROVE  BreakerInv'
<1>1. Inc(failures) \in 0 .. MaxCount
  BY IncType DEF BreakerInv, BreakerTypeOK
<1>2. CASE state = "HALF_OPEN"
  BY <1>1, <1>2, ThresholdAssumption, TimeAssumption
  DEF RecordFailure, Stop, BreakerInv, BreakerTypeOK, ClosedBelowThreshold,
      HalfOpenBelowThreshold, OpenCanBeTried, OnlyTrialsJudge,
      NoneAdmittedWhileOpen
<1>3. CASE state # "HALF_OPEN"
  BY <1>1, <1>3, ThresholdAssumption, TimeAssumption
  DEF RecordFailure, Stop, BreakerInv, BreakerTypeOK, ClosedBelowThreshold,
      HalfOpenBelowThreshold, OpenCanBeTried, OnlyTrialsJudge,
      NoneAdmittedWhileOpen
<1>4. QED
  BY <1>2, <1>3

\* Time ages the calls in flight and the last failure alike.
LEMMA TickBreakerInv ==
  ASSUME BreakerInv, Tick
  PROVE  BreakerInv'
<1>1. BreakerTypeOK'
  BY TimeAssumption DEF Tick, BreakerInv, BreakerTypeOK
<1>2. NoneAdmittedWhileOpen'
  BY TimeAssumption DEF Tick, BreakerInv, BreakerTypeOK, NoneAdmittedWhileOpen, OpenCanBeTried
<1>3. OpenCanBeTried'
  BY TimeAssumption DEF Tick, BreakerInv, BreakerTypeOK, OpenCanBeTried
<1>4. ClosedBelowThreshold' /\ HalfOpenBelowThreshold' /\ OnlyTrialsJudge'
  BY DEF Tick, BreakerInv, ClosedBelowThreshold, HalfOpenBelowThreshold, OnlyTrialsJudge
<1>5. QED
  BY <1>1, <1>2, <1>3, <1>4 DEF BreakerInv

LEMMA ResetBreakerInv ==
  ASSUME BreakerInv, Reset
  PROVE  BreakerInv'
  BY ThresholdAssumption, TimeAssumption
  DEF Reset, BreakerInv, BreakerTypeOK, ClosedBelowThreshold, HalfOpenBelowThreshold,
      OpenCanBeTried, OnlyTrialsJudge, NoneAdmittedWhileOpen

LEMMA BreakerInvInductive == BreakerInv /\ [BreakerNext]_breakerVars => BreakerInv'
<1> SUFFICES ASSUME BreakerInv, [BreakerNext]_breakerVars PROVE BreakerInv'
  OBVIOUS
<1>1. ASSUME NEW c \in Calls, Execute(c) PROVE BreakerInv'
  BY <1>1, ExecuteBreakerInv
<1>2. ASSUME NEW c \in Calls, Outcome(c) PROVE BreakerInv'
  <2>1. CASE Succeed(c)
    BY <2>1, SuccessBreakerInv
  <2>2. CASE Fail(c)
    BY <2>2, FailureBreakerInv DEF Fail
  <2>3. CASE TimeOut(c)
    BY <2>3, FailureBreakerInv DEF TimeOut
  <2>4. QED
    BY <1>2, <2>1, <2>2, <2>3 DEF Outcome
<1>3. CASE Reset
  BY <1>3, ResetBreakerInv
<1>4. CASE Tick
  BY <1>4, TickBreakerInv
<1>5. CASE UNCHANGED breakerVars
  BY <1>5
  DEF breakerVars, stats, BreakerInv, BreakerTypeOK, ClosedBelowThreshold, HalfOpenBelowThreshold,
      OpenCanBeTried, OnlyTrialsJudge, NoneAdmittedWhileOpen
<1>6. QED
  BY <1>1, <1>2, <1>3, <1>4, <1>5 DEF BreakerNext

\* Every state of the breaker satisfies the inductive invariant.
THEOREM BreakerInvariant == BreakerSpec => []BreakerInv
<1>1. QED
  BY InitBreakerInv, BreakerInvInductive, PTL DEF BreakerSpec

\* The state of a circuit is well typed (CircuitStats).
THEOREM BreakerTypeCorrect == BreakerSpec => []BreakerTypeOK
<1>1. BreakerInv => BreakerTypeOK
  BY DEF BreakerInv
<1>2. QED
  BY <1>1, BreakerInvariant, PTL

\* A circuit with FailureThreshold failures in a row is never left closed.
THEOREM ClosedIsHealthy == BreakerSpec => []ClosedBelowThreshold
<1>1. BreakerInv => ClosedBelowThreshold
  BY DEF BreakerInv
<1>2. QED
  BY <1>1, BreakerInvariant, PTL

\* No success of an earlier period counts towards closing a half-open circuit.
THEOREM TrialsStartAfresh == BreakerSpec => []HalfOpenBelowThreshold
<1>1. BreakerInv => HalfOpenBelowThreshold
  BY DEF BreakerInv
<1>2. QED
  BY <1>1, BreakerInvariant, PTL

\* An open circuit always has the failure time that lets it be tried again.
THEOREM OpenIsNotForEver == BreakerSpec => []OpenCanBeTried
<1>1. BreakerInv => OpenCanBeTried
  BY DEF BreakerInv
<1>2. QED
  BY <1>1, BreakerInvariant, PTL

\* Only calls admitted in a half-open period can close or reopen the circuit in
\* it: a call of an earlier time never delivers its outcome there.
THEOREM StaleOutcomesDoNotJudge == BreakerSpec => []OnlyTrialsJudge
<1>1. BreakerInv => OnlyTrialsJudge
  BY DEF BreakerInv
<1>2. QED
  BY <1>1, BreakerInvariant, PTL

(***************************************************************************)
(* The two cache tiers, for any number of instances, requests and values.  *)
(***************************************************************************)

Changing == {"set", "keys", "del", "incr"}

CallType ==
    /\ call \in [Requests -> [pc : {"idle", "populate"} \cup Changing,
                              node : Nodes \cup {Absent}, value : 0 .. MaxValues,
                              ttl : Ttls \cup {0}, waited : 0 .. MaxDelay]]
    /\ \A r \in Requests :
          /\ ~ On(r, "idle") => call[r].node \in Nodes
          /\ call[r].pc \in {"populate", "set", "incr"} => call[r].value \in Values
          /\ On(r, "set") => call[r].ttl \in Ttls

LatestType == latest \in [value : Values \cup {Absent}, node : Nodes \cup {Absent}]

\* A value that Redis or a caller still has is not old, nor is one nobody has made.
HeldIsFresh == \A v \in Values : Held(v) => unheld[v] = 0

\* What a read is about to put into memory is no older than its wait.
AnswersFresh == \A r \in Requests : On(r, "populate") => unheld[call[r].value] <= call[r].waited

\* The age of an entry and the time it has left add up to no more than the bound.
AgeBudget ==
    \A n \in Nodes : memory[n] # Absent =>
        unheld[memory[n].value] + memory[n].left <= MemoryTtl + MaxDelay

AgeInv == TiersTypeOK /\ CallType /\ LatestType /\ HeldIsFresh /\ AnswersFresh /\ AgeBudget

LEMMA EntryOrAbsent ==
    ASSUME NEW v \in Values, NEW l \in (Nat \ {0}) \cup {NoTtl}
    PROVE  [value |-> v, left |-> l] # Absent
  BY TierAssumption DEF Entry

LEMMA ShorterTtl ==
    ASSUME NEW t \in Ttls
    PROVE  Shorter(t, MemoryTtl) \in 1 .. MemoryTtl
  BY TierAssumption DEF Shorter

LEMMA InitAge == TiersInit => AgeInv
<1> SUFFICES ASSUME TiersInit PROVE AgeInv
  OBVIOUS
<1> USE TierAssumption DEF TiersInit, Free, On
<1>1. TiersTypeOK
  <2>1. MemoryTtl + MaxDelay + 1 \in Nat /\ 0 \in 0 .. MaxValues
    OBVIOUS
  <2>2. 0 \in 0 .. Bound
    BY <2>1 DEF Bound
  <2> QED
    BY <2>1, <2>2 DEF TiersTypeOK
<1>2. CallType
  BY DEF CallType, Changing
<1>3. LatestType /\ HeldIsFresh /\ AnswersFresh /\ AgeBudget
  BY DEF LatestType, HeldIsFresh, AnswersFresh, AgeBudget, Values
<1> QED
  BY <1>1, <1>2, <1>3 DEF AgeInv

\* A request that lets go of its call; nothing else changes.
LEMMA ReleaseAge ==
    ASSUME AgeInv, NEW r \in Requests, Release(r),
           overlapped' \in BOOLEAN, UNCHANGED <<memory, redis, made, unheld, latest>>
    PROVE  AgeInv'
<1>1. CallType'
  BY TierAssumption DEF AgeInv, CallType, Release, Free, On, Changing
<1>2. TiersTypeOK' /\ LatestType' /\ AgeBudget'
  BY DEF AgeInv, TiersTypeOK, LatestType, AgeBudget
<1>3. HeldIsFresh' /\ AnswersFresh'
  BY DEF AgeInv, CallType, HeldIsFresh, AnswersFresh, Held, Release, Free, On
<1> QED
  BY <1>1, <1>2, <1>3 DEF AgeInv

LEMMA FailsAge ==
    ASSUME AgeInv, NEW r \in Requests, TierFails(r)
    PROVE  AgeInv'
  BY ReleaseAge DEF TierFails

LEMMA GetAge ==
    ASSUME AgeInv, NEW r \in Requests, NEW n \in Nodes, Get(r, n)
    PROVE  AgeInv'
<1> DEFINE v == redis.value
<1>1. v \in Values /\ Held(v)
  BY DEF Get, AgeInv, TiersTypeOK, Entry, Held
<1>2. unheld[v] = 0
  BY <1>1 DEF AgeInv, HeldIsFresh
<1>3. CallType'
  BY <1>1, TierAssumption DEF AgeInv, CallType, Get, Await, On, Changing, Values
<1>4. TiersTypeOK' /\ LatestType' /\ AgeBudget'
  BY DEF Get, AgeInv, TiersTypeOK, LatestType, AgeBudget
<1>5. HeldIsFresh'
  BY DEF Get, Await, AgeInv, CallType, HeldIsFresh, Held, On
<1>6. AnswersFresh'
  <2>1. call' = [call EXCEPT ![r] =
            [pc |-> "populate", node |-> n, value |-> redis.value, ttl |-> 0, waited |-> 0]]
    BY DEF Get, Await
  <2>2. unheld[redis.value] <= 0
    BY <1>2
  <2> QED
    BY <2>1, <2>2 DEF Get, AgeInv, CallType, AnswersFresh, On
<1> QED
  BY <1>3, <1>4, <1>5, <1>6 DEF AgeInv

LEMMA PopulateAge ==
    ASSUME AgeInv, NEW r \in Requests, Populate(r)
    PROVE  AgeInv'
<1>1. PICK n \in Nodes, v \in Values, w \in 0 .. MaxDelay :
          call[r].node = n /\ call[r].value = v /\ call[r].waited = w
  BY DEF Populate, AgeInv, CallType, On
<1>2. memory' = [memory EXCEPT ![n] = [value |-> v, left |-> MemoryTtl]]
  BY <1>1 DEF Populate
<1>3. unheld[v] <= w /\ unheld[v] \in Nat
  BY <1>1, TierAssumption DEF Populate, AgeInv, AnswersFresh, TiersTypeOK, Bound
<1>4. CallType'
  BY TierAssumption DEF Populate, AgeInv, CallType, Release, Free, On, Changing
<1>5. TiersTypeOK' /\ LatestType'
  <2>1. [value |-> v, left |-> MemoryTtl] \in [value : Values, left : 1 .. MemoryTtl]
    BY TierAssumption
  <2>2. memory' \in [Nodes -> [value : Values, left : 1 .. MemoryTtl] \cup {Absent}]
    BY <1>2, <2>1 DEF AgeInv, TiersTypeOK
  <2> QED
    BY <2>2 DEF Populate, AgeInv, TiersTypeOK, LatestType
<1>6. HeldIsFresh' /\ AnswersFresh'
  BY DEF Populate, AgeInv, CallType, HeldIsFresh, AnswersFresh, Held, Release, Free, On
<1>7. AgeBudget'
  <2> SUFFICES ASSUME NEW m \in Nodes, memory'[m] # Absent
               PROVE  unheld[memory'[m].value] + memory'[m].left <= MemoryTtl + MaxDelay
    BY DEF AgeBudget, Populate
  <2>1. CASE m = n
    <3>1. memory'[m] = [value |-> v, left |-> MemoryTtl]
      BY <2>1, <1>2 DEF AgeInv, TiersTypeOK
    <3> QED
      BY <3>1, <1>3, TierAssumption
  <2>2. CASE m # n
    <3>1. memory'[m] = memory[m]
      BY <2>2, <1>2 DEF AgeInv, TiersTypeOK
    <3> QED
      BY <3>1 DEF AgeInv, AgeBudget
  <2> QED
    BY <2>1, <2>2
<1> QED
  BY <1>4, <1>5, <1>6, <1>7 DEF AgeInv

LEMMA TiersSetAge ==
    ASSUME AgeInv, NEW r \in Requests, NEW n \in Nodes, NEW t \in Ttls, TiersSet(r, n, t)
    PROVE  AgeInv'
<1>1. made + 1 \in Values /\ made + 1 > made
  BY TierAssumption DEF TiersSet, AgeInv, TiersTypeOK, Values
<1>2. unheld[made + 1] = 0
  BY <1>1 DEF AgeInv, HeldIsFresh, Held
<1>3. PICK l \in 1 .. MemoryTtl : l = Shorter(t, MemoryTtl)
  BY ShorterTtl
<1>4. memory' = [memory EXCEPT ![n] = [value |-> made + 1, left |-> l]]
  BY <1>3 DEF TiersSet
<1>5. CallType'
  BY <1>1, TierAssumption DEF TiersSet, AgeInv, CallType, Await, On, Changing, Values
<1>6. TiersTypeOK' /\ LatestType'
  <2>1. [value |-> made + 1, left |-> l] \in [value : Values, left : 1 .. MemoryTtl]
    BY <1>1
  <2>2. made' \in 0 .. MaxValues
    BY <1>1 DEF TiersSet, Values
  <2> QED
    BY <1>1, <1>4, <2>1, <2>2 DEF TiersSet, Changes, AgeInv, TiersTypeOK, LatestType
<1>7. HeldIsFresh'
  <2> SUFFICES ASSUME NEW v \in Values, Held(v)' PROVE unheld[v] = 0
    BY DEF HeldIsFresh, TiersSet
  <2>1. CASE v = made + 1
    BY <2>1, <1>2
  <2>2. CASE v # made + 1
    <3>1. Held(v)
      BY <2>2, <1>1 DEF Held, TiersSet, Await, On, AgeInv, CallType, TiersTypeOK, Values
    <3> QED
      BY <3>1 DEF AgeInv, HeldIsFresh
  <2> QED
    BY <2>1, <2>2
<1>8. AnswersFresh'
  BY DEF TiersSet, Await, AgeInv, CallType, AnswersFresh, On
<1>9. AgeBudget'
  <2> SUFFICES ASSUME NEW m \in Nodes, memory'[m] # Absent
               PROVE  unheld[memory'[m].value] + memory'[m].left <= MemoryTtl + MaxDelay
    BY DEF AgeBudget, TiersSet
  <2>1. CASE m = n
    <3>1. memory'[m] = [value |-> made + 1, left |-> l]
      BY <2>1, <1>4 DEF AgeInv, TiersTypeOK
    <3> QED
      BY <3>1, <1>2, TierAssumption
  <2>2. CASE m # n
    <3>1. memory'[m] = memory[m]
      BY <2>2, <1>4 DEF AgeInv, TiersTypeOK
    <3> QED
      BY <3>1 DEF AgeInv, AgeBudget
  <2> QED
    BY <2>1, <2>2
<1> QED
  BY <1>5, <1>6, <1>7, <1>8, <1>9 DEF AgeInv

LEMMA TiersDelAge ==
    ASSUME AgeInv, NEW r \in Requests, NEW n \in Nodes, TiersDel(r, n)
    PROVE  AgeInv'
<1>1. PICK step \in {"del", "keys"} : Await(r, n, step, 0, 0)
  BY DEF TiersDel
<1>2. CallType'
  BY <1>1, TierAssumption DEF TiersDel, AgeInv, CallType, Await, On, Changing
<1>3. TiersTypeOK' /\ LatestType' /\ AgeBudget'
  BY DEF TiersDel, Changes, AgeInv, TiersTypeOK, LatestType, AgeBudget
<1>4. HeldIsFresh' /\ AnswersFresh'
  BY <1>1 DEF TiersDel, Await, AgeInv, CallType, HeldIsFresh, AnswersFresh, Held, On
<1> QED
  BY <1>2, <1>3, <1>4 DEF AgeInv

LEMMA IncrAge ==
    ASSUME AgeInv, NEW r \in Requests, NEW n \in Nodes, Incr(r, n)
    PROVE  AgeInv'
<1>1. made + 1 \in Values /\ made + 1 > made
  BY TierAssumption DEF Incr, AgeInv, TiersTypeOK, Values
<1>2. unheld[made + 1] = 0
  BY <1>1 DEF AgeInv, HeldIsFresh, Held
<1>3. CallType'
  BY <1>1, TierAssumption DEF Incr, AgeInv, CallType, Await, On, Changing, Values
<1>4. TiersTypeOK' /\ LatestType' /\ AgeBudget'
  <2>1. made' \in 0 .. MaxValues
    BY <1>1 DEF Incr, Values
  <2> QED
    BY <1>1, <2>1 DEF Incr, Changes, AgeInv, TiersTypeOK, LatestType, AgeBudget
<1>5. HeldIsFresh'
  <2> SUFFICES ASSUME NEW v \in Values, Held(v)' PROVE unheld[v] = 0
    BY DEF HeldIsFresh, Incr
  <2>1. CASE v = made + 1
    BY <2>1, <1>2
  <2>2. CASE v # made + 1
    <3>1. Held(v)
      BY <2>2, <1>1 DEF Held, Incr, Await, On, AgeInv, CallType, TiersTypeOK, Values
    <3> QED
      BY <3>1 DEF AgeInv, HeldIsFresh
  <2> QED
    BY <2>1, <2>2
<1>6. AnswersFresh'
  BY DEF Incr, Await, AgeInv, CallType, AnswersFresh, On
<1> QED
  BY <1>3, <1>4, <1>5, <1>6 DEF AgeInv

\* The answers of Redis to a change.
LEMMA RedisAge ==
    ASSUME AgeInv, NEW r \in Requests,
           RedisSet(r) \/ RedisKeys(r) \/ RedisDel(r) \/ RedisIncr(r)
    PROVE  AgeInv'
<1>1. CASE TierFails(r)
  BY <1>1, FailsAge
<1>2. CASE RedisKeys(r) /\ ~ TierFails(r)
  <2>1. CallType'
    BY <1>2, TierAssumption DEF RedisKeys, AgeInv, CallType, Free, On, Changing
  <2>2. TiersTypeOK' /\ LatestType' /\ AgeBudget'
    BY <1>2 DEF RedisKeys, AgeInv, TiersTypeOK, LatestType, AgeBudget
  <2>3. HeldIsFresh' /\ AnswersFresh'
    BY <1>2 DEF RedisKeys, AgeInv, CallType, HeldIsFresh, AnswersFresh, Held, Free, On
  <2> QED
    BY <2>1, <2>2, <2>3 DEF AgeInv
<1>3. CASE (RedisSet(r) \/ RedisDel(r) \/ RedisIncr(r)) /\ ~ TierFails(r)
  <2>1. /\ Release(r)
        /\ UNCHANGED <<memory, made, unheld, latest, overlapped>>
    BY <1>3 DEF RedisSet, RedisDel, RedisIncr
  <2>2. \/ redis' = Absent
        \/ \E v \in Values, l \in (Nat \ {0}) \cup {NoTtl} :
              redis' = [value |-> v, left |-> l] /\ Held(v)
    <3>1. CASE RedisSet(r)
      <4>1. redis' = [value |-> call[r].value, left |-> call[r].ttl]
        BY <3>1, <1>3 DEF RedisSet
      <4>2. Held(call[r].value) /\ call[r].value \in Values /\ call[r].ttl \in Nat \ {0}
        BY <3>1, TierAssumption DEF RedisSet, Held, AgeInv, CallType, On
      <4> QED
        BY <4>1, <4>2
    <3>2. CASE RedisIncr(r)
      <4>1. redis' = [value |-> call[r].value,
                      left |-> IF redis = Absent THEN NoTtl ELSE redis.left]
        BY <3>2, <1>3 DEF RedisIncr
      <4>2. Held(call[r].value) /\ call[r].value \in Values
        BY <3>2 DEF RedisIncr, Held, AgeInv, CallType, On
      <4>3. (IF redis = Absent THEN NoTtl ELSE redis.left) \in (Nat \ {0}) \cup {NoTtl}
        BY DEF AgeInv, TiersTypeOK, Entry
      <4> QED
        BY <4>1, <4>2, <4>3
    <3>3. CASE RedisDel(r)
      BY <3>3, <1>3 DEF RedisDel
    <3> QED
      BY <3>1, <3>2, <3>3, <1>3
  <2>3. CallType'
    BY <2>1, TierAssumption DEF AgeInv, CallType, Release, Free, On, Changing
  <2>4. TiersTypeOK' /\ LatestType' /\ AgeBudget'
    BY <2>1, <2>2 DEF AgeInv, TiersTypeOK, LatestType, AgeBudget, Entry
  <2>5. AnswersFresh'
    BY <2>1 DEF AgeInv, CallType, AnswersFresh, Release, Free, On
  <2>6. HeldIsFresh'
    <3> SUFFICES ASSUME NEW v \in Values, Held(v)' PROVE Held(v)
      BY <2>1 DEF AgeInv, HeldIsFresh
    <3>1. CASE redis' # Absent /\ redis'.value = v
      BY <3>1, <2>2
    <3>2. CASE ~ (redis' # Absent /\ redis'.value = v)
      BY <3>2, <2>1 DEF Held, Release, Free, AgeInv, CallType
    <3> QED
      BY <3>1, <3>2
  <2> QED
    BY <2>3, <2>4, <2>5, <2>6 DEF AgeInv
<1> QED
  BY <1>1, <1>2, <1>3

\* An entry's time to live shrinks; the entry, or what is left of it, keeps its value.
LEMMA OlderEntry ==
    ASSUME NEW e, e # Absent, NEW v \in Values, NEW l \in Nat \ {0},
           e = [value |-> v, left |-> l]
    PROVE  \/ Older(e) = Absent
           \/ l > 1 /\ Older(e) = [value |-> v, left |-> l - 1]
<1>1. e.left # NoTtl
  BY TierAssumption
<1> QED
  BY <1>1 DEF Older

LEMMA TimePassesAge ==
    ASSUME AgeInv, TimePasses
    PROVE  AgeInv'
<1>1. \A n \in Nodes :
         \/ memory'[n] = Absent
         \/ /\ memory[n] # Absent /\ memory'[n] # Absent
            /\ memory'[n] \in [value : Values, left : 1 .. MemoryTtl]
            /\ memory'[n].value = memory[n].value
            /\ memory'[n].left = memory[n].left - 1
  <2> TAKE n \in Nodes
  <2>1. memory'[n] = Older(memory[n])
    BY DEF TimePasses
  <2>2. CASE memory[n] = Absent
    BY <2>1, <2>2 DEF Older
  <2>3. CASE memory[n] # Absent
    <3>1. PICK v \in Values, l \in 1 .. MemoryTtl : memory[n] = [value |-> v, left |-> l]
      BY <2>3 DEF AgeInv, TiersTypeOK
    <3>2. \/ Older(memory[n]) = Absent
          \/ l > 1 /\ Older(memory[n]) = [value |-> v, left |-> l - 1]
      BY <2>3, <3>1, OlderEntry, TierAssumption
    <3>3. CASE l > 1 /\ Older(memory[n]) = [value |-> v, left |-> l - 1]
      <4>1. l - 1 \in 1 .. MemoryTtl /\ l - 1 \in (Nat \ {0}) \cup {NoTtl}
        BY <3>3, TierAssumption
      <4>2. [value |-> v, left |-> l - 1] # Absent
        BY <4>1, EntryOrAbsent
      <4> QED
        BY <2>1, <2>3, <3>1, <3>3, <4>1, <4>2
    <3> QED
      BY <2>1, <3>2, <3>3
  <2> QED
    BY <2>2, <2>3
<1>2. \/ redis' = Absent
      \/ redis # Absent /\ redis' \in Entry /\ redis'.value = redis.value
  <2>1. redis' = Older(redis)
    BY DEF TimePasses
  <2>2. CASE redis = Absent \/ redis.left = NoTtl
    BY <2>1, <2>2 DEF Older, AgeInv, TiersTypeOK
  <2>3. CASE redis # Absent /\ redis.left # NoTtl
    <3>1. PICK v \in Values, l \in Nat \ {0} : redis = [value |-> v, left |-> l]
      BY <2>3 DEF AgeInv, TiersTypeOK, Entry
    <3>2. \/ Older(redis) = Absent
          \/ l > 1 /\ Older(redis) = [value |-> v, left |-> l - 1]
      BY <2>3, <3>1, OlderEntry
    <3> QED
      BY <2>1, <2>3, <3>1, <3>2 DEF Entry
  <2> QED
    BY <2>2, <2>3
<1>3. \A v \in Values :
         /\ unheld'[v] = IF Held(v) THEN 0 ELSE Shorter(unheld[v] + 1, Bound)
         /\ unheld[v] \in 0 .. Bound
  BY DEF TimePasses, AgeInv, TiersTypeOK
<1>4. Bound \in Nat /\ Bound = MemoryTtl + MaxDelay + 1
  BY TierAssumption DEF Bound
<1>5. \A v \in Values : unheld'[v] \in 0 .. Bound /\ unheld'[v] <= unheld[v] + 1
  BY <1>3, <1>4 DEF Shorter
<1>6. CallType'
  BY TierAssumption DEF TimePasses, AgeInv, CallType, On, Changing
<1>7. TiersTypeOK' /\ LatestType'
  <2>1. memory' = [n \in Nodes |-> Older(memory[n])]
        /\ unheld' = [v \in Values |-> IF Held(v) THEN 0 ELSE Shorter(unheld[v] + 1, Bound)]
    BY DEF TimePasses
  <2>2. memory' \in [Nodes -> [value : Values, left : 1 .. MemoryTtl] \cup {Absent}]
    BY <1>1, <2>1
  <2>3. unheld' \in [Values -> 0 .. Bound]
    BY <1>5, <2>1
  <2> QED
    BY <1>2, <2>2, <2>3 DEF TimePasses, AgeInv, TiersTypeOK, LatestType
<1>8. HeldIsFresh'
  <2> SUFFICES ASSUME NEW v \in Values, Held(v)' PROVE Held(v)
    BY <1>3 DEF HeldIsFresh
  <2> QED
    BY <1>2 DEF Held, TimePasses, AgeInv, CallType, On
<1>9. AnswersFresh'
  <2> SUFFICES ASSUME NEW r \in Requests, On(r, "populate")'
               PROVE  unheld'[call'[r].value] <= call'[r].waited
    BY DEF AnswersFresh
  <2>1. /\ On(r, "populate") /\ call'[r].value = call[r].value
        /\ call'[r].waited = call[r].waited + 1
        /\ call[r].value \in Values /\ call[r].waited \in 0 .. MaxDelay
    BY DEF TimePasses, AgeInv, CallType, On
  <2>2. unheld[call[r].value] <= call[r].waited
    BY <2>1 DEF AgeInv, AnswersFresh
  <2> QED
    BY <2>1, <2>2, <1>3, <1>4, <1>5, TierAssumption
<1>10. AgeBudget'
  <2> SUFFICES ASSUME NEW n \in Nodes, memory'[n] # Absent
               PROVE  unheld'[memory'[n].value] + memory'[n].left <= MemoryTtl + MaxDelay
    BY DEF AgeBudget
  <2>1. PICK v \in Values, l \in 1 .. MemoryTtl :
            /\ memory[n] # Absent /\ memory[n].value = v /\ memory[n].left = l
            /\ memory'[n].value = v /\ memory'[n].left = l - 1
    BY <1>1 DEF AgeInv, TiersTypeOK
  <2>2. unheld[v] + l <= MemoryTtl + MaxDelay
    BY <2>1 DEF AgeInv, AgeBudget
  <2> QED
    BY <2>1, <2>2, <1>3, <1>4, <1>5, TierAssumption
<1> QED
  BY <1>6, <1>7, <1>8, <1>9, <1>10 DEF AgeInv

LEMMA AgeInductive == AgeInv /\ [TiersNext]_tierVars => AgeInv'
<1> SUFFICES ASSUME AgeInv, [TiersNext]_tierVars PROVE AgeInv'
  OBVIOUS
<1>1. ASSUME NEW r \in Requests, NEW n \in Nodes, Get(r, n) PROVE AgeInv'
  BY <1>1, GetAge
<1>2. ASSUME NEW r \in Requests, NEW n \in Nodes, TiersDel(r, n) PROVE AgeInv'
  BY <1>2, TiersDelAge
<1>3. ASSUME NEW r \in Requests, NEW n \in Nodes, Incr(r, n) PROVE AgeInv'
  BY <1>3, IncrAge
<1>4. ASSUME NEW r \in Requests, NEW n \in Nodes, NEW t \in Ttls, TiersSet(r, n, t) PROVE AgeInv'
  BY <1>4, TiersSetAge
<1>5. ASSUME NEW r \in Requests, Populate(r) PROVE AgeInv'
  BY <1>5, PopulateAge
<1>6. ASSUME NEW r \in Requests,
             RedisSet(r) \/ RedisKeys(r) \/ RedisDel(r) \/ RedisIncr(r)
      PROVE  AgeInv'
  BY <1>6, RedisAge
<1>7. CASE TimePasses
  BY <1>7, TimePassesAge
<1>8. CASE UNCHANGED tierVars
  BY <1>8 DEF tierVars, AgeInv, TiersTypeOK, CallType, LatestType, HeldIsFresh, AnswersFresh,
      AgeBudget, Held, On
<1> QED
  BY <1>1, <1>2, <1>3, <1>4, <1>5, <1>6, <1>7, <1>8 DEF TiersNext

LEMMA AgeHolds == TiersSpec => []AgeInv
  BY InitAge, AgeInductive, PTL DEF TiersSpec

\* The memory of every instance holds values with a time left within the memory's own
\* (setInMemory), Redis holds entries, and ages stay within their bound.
THEOREM TiersTypeCorrect == TiersSpec => []TiersTypeOK
<1>1. AgeInv => TiersTypeOK
  BY DEF AgeInv
<1> QED
  BY <1>1, AgeHolds, PTL

\* No instance serves from memory a value that was overwritten, deleted or expired longer
\* ago than the memory's own time to live and the delay of an answer of Redis: get and set
\* of the multi-tier cache, on any number of instances.
THEOREM StalenessIsBounded == TiersSpec => []StalenessBounded
<1>1. AgeInv => StalenessBounded
  <2> SUFFICES ASSUME AgeInv, NEW n \in Nodes, memory[n] # Absent
               PROVE  unheld[memory[n].value] < MemoryTtl + MaxDelay
    BY DEF StalenessBounded
  <2>1. PICK v \in Values, l \in 1 .. MemoryTtl : memory[n].value = v /\ memory[n].left = l
    BY DEF AgeInv, TiersTypeOK
  <2>2. unheld[v] + l <= MemoryTtl + MaxDelay /\ unheld[v] \in Nat
    BY <2>1, TierAssumption DEF AgeInv, AgeBudget, TiersTypeOK, Bound
  <2> QED
    BY <2>1, <2>2, TierAssumption
<1> QED
  BY <1>1, AgeHolds, PTL

(***************************************************************************)
(* An instance's own change.                                               *)
(*                                                                         *)
(* At rest the claim says nothing about a change half way.  OwnInPlace     *)
(* does: the memory of the instance already shows the change, and the      *)
(* request still carries to Redis what the change is to leave there; reads *)
(* only carry what Redis held after it.  Sole lets the step of a change    *)
(* consider no other request.                                              *)
(***************************************************************************)
Sole ==
    \A r \in Requests : call[r].pc \in Changing => \A q \in Requests \ {r} : On(q, "idle")

OwnInPlace ==
    latest.node # Absent =>
        /\ memory[latest.node] # Absent => memory[latest.node].value = latest.value
        /\ OnlyReads /\ redis # Absent => redis.value = latest.value
        /\ \A r \in Requests :
              /\ call[r].pc \in {"populate", "set", "incr"} => call[r].value = latest.value
              /\ call[r].pc \in {"del", "keys"} => latest.value = Absent

OwnInv ==
    ~ overlapped =>
        /\ Sole /\ OwnInPlace
        /\ ~ OnlyReads => latest.node # Absent

LEMMA InitOwn == TiersInit => OwnInv
  BY DEF TiersInit, OwnInv, Sole, OwnInPlace, OnlyReads, On, Free, Changing

\* A change begins only where no other request is under way, or the claim is void.
LEMMA BeginOwn ==
    ASSUME AgeInv, OwnInv, NEW r \in Requests, NEW n \in Nodes, NEW s \in Changing,
           NEW v \in Values \cup {Absent}, NEW c, NEW t, On(r, "idle"),
           Await(r, n, s, c, t), Changes(n, v), UNCHANGED redis,
           s \in {"set", "incr"} => c = v, s \in {"del", "keys"} => v = Absent,
           memory'[n] # Absent => memory'[n].value = v
    PROVE  OwnInv'
<1> SUFFICES ASSUME ~ overlapped' PROVE Sole' /\ OwnInPlace' /\ latest'.node # Absent
  BY DEF OwnInv
<1>1. AtRest /\ ~ overlapped
  BY DEF Changes
<1>2. latest'.node = n /\ latest'.value = v /\ n # Absent
  BY TierAssumption DEF Changes
<1>3. /\ call'[r].pc = s /\ call'[r].value = c
      /\ \A q \in Requests \ {r} : call'[q].pc = "idle"
  BY <1>1 DEF Await, AtRest, On, AgeInv, CallType
<1>4. Sole'
  BY <1>3 DEF Sole, On, Changing
<1>5. ~ OnlyReads'
  BY <1>3 DEF OnlyReads, Changing
<1>6. OwnInPlace'
  BY <1>2, <1>3, <1>5 DEF OwnInPlace, Changing
<1> QED
  BY <1>2, <1>4, <1>6

LEMMA ReadOwn ==
    ASSUME AgeInv, OwnInv, NEW r \in Requests, NEW n \in Nodes, Get(r, n) \/ Populate(r)
    PROVE  OwnInv'
<1> SUFFICES ASSUME ~ overlapped' PROVE OwnInv'
  BY DEF OwnInv
<1>1. CASE Get(r, n)
  <2>1. OnlyReads /\ ~ overlapped /\ redis # Absent
    BY <1>1 DEF Get
  <2>2. /\ call'[r].pc = "populate" /\ call'[r].value = redis.value
        /\ \A q \in Requests \ {r} : call'[q] = call[q]
    BY <1>1 DEF Get, Await, AgeInv, CallType
  <2>3. OnlyReads' /\ Sole'
    BY <2>1, <2>2 DEF OnlyReads, Sole, Changing
  <2>4. latest.node # Absent => redis.value = latest.value
    BY <2>1 DEF OwnInv, OwnInPlace
  <2>5. \A q \in Requests : latest.node # Absent =>
           /\ call'[q].pc \in {"populate", "set", "incr"} => call'[q].value = latest.value
           /\ call'[q].pc \in {"del", "keys"} => latest.value = Absent
    BY <2>1, <2>2, <2>4 DEF OwnInv, OwnInPlace
  <2>6. OwnInPlace'
    BY <1>1, <2>1, <2>4, <2>5 DEF Get, OwnInv, OwnInPlace
  <2> QED
    BY <2>3, <2>6 DEF OwnInv
<1>2. CASE Populate(r)
  <2>1. ~ overlapped /\ On(r, "populate")
    BY <1>2 DEF Populate
  <2>2. OnlyReads
    BY <2>1 DEF OwnInv, Sole, OnlyReads, On, AgeInv, CallType
  <2>3. /\ call'[r].pc = "idle" /\ \A q \in Requests \ {r} : call'[q] = call[q]
    BY <1>2 DEF Populate, Release, Free, AgeInv, CallType
  <2>4. OnlyReads' /\ Sole'
    BY <2>2, <2>3 DEF OnlyReads, Sole, Changing
  <2>5. latest.node # Absent => call[r].value = latest.value
    BY <2>1 DEF OwnInv, OwnInPlace, On
  <2>6. PICK m \in Nodes : m = call[r].node
    BY <2>1 DEF AgeInv, CallType, On
  <2>7. memory' = [memory EXCEPT ![m] = [value |-> call[r].value, left |-> MemoryTtl]]
    BY <1>2, <2>6 DEF Populate
  <2>8. latest.node # Absent /\ memory'[latest.node] # Absent
            => memory'[latest.node].value = latest.value
    BY <2>1, <2>5, <2>7 DEF OwnInv, OwnInPlace, AgeInv, LatestType, TiersTypeOK
  <2>9. OwnInPlace'
    BY <1>2, <2>1, <2>2, <2>3, <2>8 DEF Populate, OwnInv, OwnInPlace
  <2> QED
    BY <2>4, <2>9 DEF OwnInv
<1> QED
  BY <1>1, <1>2

LEMMA AnswerOwn ==
    ASSUME AgeInv, OwnInv, NEW r \in Requests,
           RedisSet(r) \/ RedisKeys(r) \/ RedisDel(r) \/ RedisIncr(r)
    PROVE  OwnInv'
<1> SUFFICES ASSUME ~ overlapped' PROVE OwnInv'
  BY DEF OwnInv
<1>1. ~ TierFails(r) /\ ~ overlapped
  BY DEF RedisSet, RedisKeys, RedisDel, RedisIncr, TierFails
<1>2. call[r].pc \in Changing
  BY DEF RedisSet, RedisKeys, RedisDel, RedisIncr, On, Changing
<1>3. (\A q \in Requests \ {r} : call[q].pc = "idle") /\ ~ OnlyReads
  BY <1>1, <1>2 DEF OwnInv, Sole, On, OnlyReads, Changing
<1>4. latest.node # Absent /\ memory' = memory /\ latest' = latest
  BY <1>1, <1>3 DEF OwnInv, RedisSet, RedisKeys, RedisDel, RedisIncr
<1>5. \A q \in Requests \ {r} : call'[q].pc = "idle"
  BY <1>1, <1>3 DEF RedisSet, RedisKeys, RedisDel, RedisIncr, Release, AgeInv, CallType
<1>6. \/ /\ call'[r].pc = "idle"
         /\ redis' # Absent => redis'.value = latest.value
      \/ call'[r].pc = "del" /\ latest.value = Absent
  <2>1. CASE RedisSet(r)
    BY <2>1, <1>1, <1>4 DEF RedisSet, Release, Free, On, OwnInv, OwnInPlace, AgeInv, CallType
  <2>2. CASE RedisKeys(r)
    BY <2>2, <1>1, <1>4 DEF RedisKeys, Free, On, OwnInv, OwnInPlace, AgeInv, CallType
  <2>3. CASE RedisDel(r)
    BY <2>3, <1>1 DEF RedisDel, Release, Free, AgeInv, CallType
  <2>4. CASE RedisIncr(r)
    BY <2>4, <1>1, <1>4 DEF RedisIncr, Release, Free, On, OwnInv, OwnInPlace, AgeInv, CallType
  <2> QED
    BY <2>1, <2>2, <2>3, <2>4
<1>7. Sole'
  BY <1>5 DEF Sole, On, Changing
<1>8. OwnInPlace'
  BY <1>1, <1>4, <1>5, <1>6 DEF OwnInv, OwnInPlace, OnlyReads
<1> QED
  BY <1>4, <1>7, <1>8 DEF OwnInv

LEMMA TimeOwn ==
    ASSUME AgeInv, OwnInv, TimePasses
    PROVE  OwnInv'
<1>1. \A e : Older(e) # Absent => e # Absent /\ Older(e).value = e.value
  <2> SUFFICES ASSUME NEW e, Older(e) # Absent PROVE e # Absent /\ Older(e).value = e.value
    OBVIOUS
  <2> QED
    BY DEF Older
<1>2. /\ \A n \in Nodes : memory'[n] = Older(memory[n])
      /\ redis' = Older(redis) /\ latest' = latest /\ overlapped' = overlapped
  BY DEF TimePasses
<1>3. \A q \in Requests : call'[q].pc = call[q].pc /\ call'[q].value = call[q].value
  BY DEF TimePasses, AgeInv, CallType, On
<1>4. Sole => Sole'
  BY <1>3 DEF Sole, On
<1>5. OnlyReads <=> OnlyReads'
  BY <1>3 DEF OnlyReads
<1>6. latest.node # Absent => latest.node \in Nodes
  BY DEF AgeInv, LatestType
<1>7. OwnInPlace => OwnInPlace'
  BY <1>1, <1>2, <1>3, <1>5, <1>6 DEF OwnInPlace
<1> QED
  BY <1>2, <1>4, <1>5, <1>7 DEF OwnInv

LEMMA OwnInductive == AgeInv /\ OwnInv /\ [TiersNext]_tierVars => OwnInv'
<1> SUFFICES ASSUME AgeInv, OwnInv, [TiersNext]_tierVars PROVE OwnInv'
  OBVIOUS
<1>1. ASSUME NEW r \in Requests, NEW n \in Nodes, NEW t \in Ttls, TiersSet(r, n, t) PROVE OwnInv'
  <2>1. made + 1 \in Values
    BY <1>1, TierAssumption DEF TiersSet, AgeInv, TiersTypeOK, Values
  <2>2. memory'[n] # Absent => memory'[n].value = made + 1
    BY <1>1 DEF TiersSet, AgeInv, TiersTypeOK
  <2>3. /\ On(r, "idle") /\ Await(r, n, "set", made + 1, t) /\ Changes(n, made + 1)
        /\ UNCHANGED redis
    BY <1>1 DEF TiersSet
  <2> QED
    BY <2>1, <2>2, <2>3, BeginOwn DEF Changing
<1>2. ASSUME NEW r \in Requests, NEW n \in Nodes, TiersDel(r, n) PROVE OwnInv'
  <2>1. PICK s \in {"del", "keys"} : Await(r, n, s, 0, 0)
    BY <1>2 DEF TiersDel
  <2>2. memory'[n] = Absent
    BY <1>2 DEF TiersDel, AgeInv, TiersTypeOK
  <2>3. On(r, "idle") /\ Changes(n, Absent) /\ UNCHANGED redis
    BY <1>2 DEF TiersDel
  <2> QED
    BY <2>1, <2>2, <2>3, BeginOwn DEF Changing
<1>3. ASSUME NEW r \in Requests, NEW n \in Nodes, Incr(r, n) PROVE OwnInv'
  <2>1. made + 1 \in Values
    BY <1>3, TierAssumption DEF Incr, AgeInv, TiersTypeOK, Values
  <2>2. memory'[n] = Absent
    BY <1>3 DEF Incr, AgeInv, TiersTypeOK
  <2>3. /\ On(r, "idle") /\ Await(r, n, "incr", made + 1, 0) /\ Changes(n, made + 1)
        /\ UNCHANGED redis
    BY <1>3 DEF Incr
  <2> QED
    BY <2>1, <2>2, <2>3, BeginOwn DEF Changing
<1>4. ASSUME NEW r \in Requests, NEW n \in Nodes, Get(r, n) PROVE OwnInv'
  BY <1>4, ReadOwn
<1>5. ASSUME NEW r \in Requests, Populate(r) PROVE OwnInv'
  <2>1. call[r].node \in Nodes
    BY <1>5 DEF Populate, AgeInv, CallType, On
  <2> QED
    BY <1>5, <2>1, ReadOwn
<1>6. ASSUME NEW r \in Requests,
             RedisSet(r) \/ RedisKeys(r) \/ RedisDel(r) \/ RedisIncr(r)
      PROVE  OwnInv'
  BY <1>6, AnswerOwn
<1>7. CASE TimePasses
  BY <1>7, TimeOwn
<1>8. CASE UNCHANGED tierVars
  BY <1>8 DEF tierVars, OwnInv, Sole, OwnInPlace, OnlyReads, On
<1> QED
  BY <1>1, <1>2, <1>3, <1>4, <1>5, <1>6, <1>7, <1>8 DEF TiersNext

\* An instance that has changed the key (set, del, incr) sees its change: once the change
\* is over neither its memory nor Redis answers with an older value, unless requests
\* overlapped it or a call failed.
THEOREM OwnChangeIsSeen == TiersSpec => []OwnChangeSeen
<1>1. AgeInv /\ OwnInv => OwnChangeSeen
  BY DEF OwnInv, OwnInPlace, OwnChangeSeen, AtRest, OnlyReads, On
<1> QED
  BY <1>1, InitOwn, OwnInductive, AgeHolds, PTL DEF TiersSpec

-----------------------------------------------------------------------------
(***************************************************************************)
(* Retries, for every configuration and every way to call an operation.    *)
(*                                                                         *)
(* The delays are powers of the multiplier up to a cap.  That the          *)
(* recursion Growth has a solution is proved by counting up: finite tables *)
(* of the powers exist and agree.  The rest is an invariant.               *)
(***************************************************************************)

LEMMA LeastNumber ==
  ASSUME NEW T \in SUBSET Nat, T # {}
  PROVE  \E x \in T : \A y \in T : x <= y
<1>1. IsWellFoundedOn(OpToRel(<, Nat), Nat)
  BY NatLessThanWellFounded
<1>2. \E x \in T : \A y \in T : ~ (<<y, x>> \in OpToRel(<, Nat))
  BY <1>1, WFMin
<1>3. PICK x \in T : \A y \in T : ~ (<<y, x>> \in OpToRel(<, Nat))
  BY <1>2
<1>4. x \in Nat /\ \A y \in T : y \in Nat /\ ~ (y < x)
  BY <1>3 DEF OpToRel
<1>5. \A y \in T : x <= y
  BY <1>4
<1> QED
  BY <1>5

LEMMA CountUp ==
  ASSUME NEW T \in SUBSET Nat, 0 \in T, \A n \in T : n + 1 \in T
  PROVE  T = Nat
<1> SUFFICES ASSUME Nat \ T # {} PROVE FALSE
  OBVIOUS
<1>1. PICK x \in Nat \ T : \A y \in Nat \ T : x <= y
  BY LeastNumber
<1>2. x - 1 \in Nat
  BY <1>1
<1>3. x - 1 \in T
  BY <1>1, <1>2
<1> QED
  BY <1>1, <1>2, <1>3

\* A table of the powers up to n.
Powers(n) ==
  {g \in [0 .. n -> Nat] : g[0] = 1 /\ \A i \in 1 .. n : g[i] = g[i - 1] * Multiplier}

LEMMA PowersExist == \A n \in Nat : Powers(n) # {}
<1> DEFINE T == {n \in Nat : Powers(n) # {}}
<1>1. 0 \in T
  <2>1. [i \in 0 .. 0 |-> 1] \in Powers(0)
    BY DEF Powers
  <2> QED
    BY <2>1
<1>2. ASSUME NEW n \in T PROVE n + 1 \in T
  <2>1. PICK g \in Powers(n) : TRUE
    BY <1>2
  <2> DEFINE h == [i \in 0 .. n + 1 |-> IF i = n + 1 THEN g[n] * Multiplier ELSE g[i]]
  <2>2. g[n] * Multiplier \in Nat
    BY <1>2, <2>1, RetryAssumption DEF Powers
  <2>3. h \in [0 .. n + 1 -> Nat] /\ h[0] = 1
    BY <1>2, <2>1, <2>2 DEF Powers
  <2>4. ASSUME NEW i \in 1 .. n + 1 PROVE h[i] = h[i - 1] * Multiplier
    <3>1. i \in 0 .. n + 1 /\ i - 1 \in 0 .. n /\ h[i - 1] = g[i - 1]
      BY <1>2
    <3>2. CASE i = n + 1
      BY <1>2, <3>1, <3>2
    <3>3. CASE i # n + 1
      <4>1. i \in 1 .. n /\ h[i] = g[i]
        BY <1>2, <3>3
      <4> QED
        BY <2>1, <3>1, <4>1 DEF Powers
    <3> QED
      BY <3>2, <3>3
  <2>5. h \in Powers(n + 1)
    BY <2>3, <2>4 DEF Powers
  <2> QED
    BY <1>2, <2>5
<1>3. T = Nat
  BY <1>1, <1>2, CountUp
<1> QED
  BY <1>3

LEMMA PowersAgree ==
  ASSUME NEW n \in Nat, NEW g \in Powers(n), NEW m \in Nat, NEW h \in Powers(m), n <= m
  PROVE  \A i \in 0 .. n : g[i] = h[i]
<1> DEFINE T == {i \in Nat : i <= n => g[i] = h[i]}
<1>1. 0 \in T
  BY DEF Powers
<1>2. ASSUME NEW i \in T PROVE i + 1 \in T
  <2> SUFFICES ASSUME i + 1 <= n PROVE g[i + 1] = h[i + 1]
    BY <1>2
  <2>1. i + 1 \in 1 .. n /\ i + 1 \in 1 .. m /\ (i + 1) - 1 = i /\ g[i] = h[i]
    BY <1>2
  <2> QED
    BY <2>1 DEF Powers
<1>3. T = Nat
  BY <1>1, <1>2, CountUp
<1> QED
  BY <1>3

\* The recursion has a solution, so Growth is what it says.
LEMMA GrowthRule ==
  /\ Growth[0] = 1
  /\ \A n \in Nat : Growth[n] \in Nat \ {0} /\ Growth[n + 1] = Growth[n] * Multiplier
<1> DEFINE f == [n \in Nat |-> (CHOOSE g \in Powers(n) : TRUE)[n]]
           Rec(e) == [n \in Nat |-> IF n = 0 THEN 1 ELSE e[n - 1] * Multiplier]
<1>1. ASSUME NEW n \in Nat PROVE \A g \in Powers(n) : f[n] = g[n]
  BY PowersAgree, PowersExist
<1> HIDE DEF f
<1>2. f[0] = 1
  <2>1. PICK g \in Powers(0) : TRUE
    BY PowersExist
  <2>2. g[0] = 1
    BY <2>1 DEF Powers
  <2> QED
    BY <1>1, <2>1, <2>2
<1>3. ASSUME NEW n \in Nat PROVE f[n + 1] = f[n] * Multiplier
  <2>1. PICK g \in Powers(n + 1) : TRUE
    BY PowersExist
  <2>2. PICK h \in Powers(n) : TRUE
    BY PowersExist
  <2>3. h[n] = g[n]
    BY <2>1, <2>2, PowersAgree
  <2>4. g[n + 1] = g[n] * Multiplier
    BY <2>1 DEF Powers
  <2> QED
    BY <1>1, <2>1, <2>2, <2>3, <2>4
<1>4. f = Rec(f)
  <2>1. DOMAIN f = Nat /\ f = [n \in Nat |-> f[n]]
    BY DEF f
  <2>2. ASSUME NEW n \in Nat PROVE f[n] = IF n = 0 THEN 1 ELSE f[n - 1] * Multiplier
    <3>1. CASE n = 0
      BY <1>2, <3>1
    <3>2. CASE n # 0
      <4>1. n - 1 \in Nat /\ (n - 1) + 1 = n
        BY <3>2
      <4>2. f[(n - 1) + 1] = f[n - 1] * Multiplier
        BY <1>3, <4>1
      <4> QED
        BY <3>2, <4>1, <4>2
    <3> QED
      BY <3>1, <3>2
  <2> QED
    BY <2>1, <2>2
<1>5. Growth = CHOOSE e : e = Rec(e)
  BY DEF Growth
<1>6. Growth = Rec(Growth)
  BY <1>4, <1>5
<1>7. Growth[0] = 1 /\ \A n \in Nat : Growth[n + 1] = Growth[n] * Multiplier
  BY <1>6
<1> DEFINE T == {n \in Nat : Growth[n] \in Nat \ {0}}
<1>8. T = Nat
  <2>1. 0 \in T
    BY <1>7
  <2>2. ASSUME NEW n \in T PROVE n + 1 \in T
    BY <1>7, RetryAssumption
  <2> QED
    BY <2>1, <2>2, CountUp
<1> QED
  BY <1>7, <1>8

LEMMA NextDelayGrows ==
  ASSUME NEW n \in Nat
  PROVE  Backoff(n + 1) \in Nat /\ NextDelay(Backoff(n + 1)) = Backoff(n + 2)
<1> DEFINE d == InitialDelay * Growth[n]
<1>1. d \in Nat
  BY GrowthRule, RetryAssumption
<1>2. InitialDelay * Growth[n + 1] = d * Multiplier
  <2>1. \A x, y, z \in Nat : x * (y * z) = (x * y) * z
    OBVIOUS
  <2>2. InitialDelay * (Growth[n] * Multiplier) = (InitialDelay * Growth[n]) * Multiplier
    BY <2>1, GrowthRule, RetryAssumption
  <2> QED
    BY <2>2, GrowthRule
<1>3. \A x, L, m \in Nat : m # 0 /\ L < x => L <= x * m /\ L <= L * m
  <2> SUFFICES ASSUME NEW x \in Nat, NEW L \in Nat, NEW m \in Nat, m # 0, L < x
               PROVE  L <= x * m /\ L <= L * m
    OBVIOUS
  <2>1. PICK k \in Nat : m = k + 1
    <3>1. m - 1 \in Nat /\ m = (m - 1) + 1
      OBVIOUS
    <3> QED
      BY <3>1
  <2>2. x * m = x * k + x /\ L * m = L * k + L /\ x * k \in Nat /\ L * k \in Nat
    BY <2>1
  <2> QED
    BY <2>2
<1> HIDE DEF d
<1>6. /\ Backoff(n + 1) = Smaller(d, LongestDelay)
      /\ Backoff(n + 2) = Smaller(d * Multiplier, LongestDelay)
  <2>1. (n + 1) - 1 = n /\ (n + 2) - 1 = n + 1
    OBVIOUS
  <2> QED
    BY <1>2, <2>1 DEF Backoff, d
<1>4. CASE d < LongestDelay
  BY <1>1, <1>4, <1>6, RetryAssumption DEF Smaller, NextDelay
<1>5. CASE ~ (d < LongestDelay)
  <2>1. LongestDelay <= d * Multiplier /\ LongestDelay <= LongestDelay * Multiplier
    <3>1. CASE d = LongestDelay
      BY <1>1, <1>3, <3>1, RetryAssumption
    <3>2. CASE LongestDelay < d
      BY <1>1, <1>3, <3>2, RetryAssumption
    <3> QED
      BY <1>1, <1>5, <3>1, <3>2, RetryAssumption
  <2>2. d * Multiplier \in Nat /\ LongestDelay * Multiplier \in Nat
    BY <1>1, RetryAssumption
  <2> QED
    BY <1>1, <1>5, <1>6, <2>1, <2>2, RetryAssumption DEF Smaller, NextDelay
<1> QED
  BY <1>4, <1>5

\* What the caller knows at each await.  An attempt that still runs beside the current one was
\* given up by its timer, and errors records that at its place.
RetryInv ==
  /\ attempt \in 1 .. MaxAttempts /\ unsettled \subseteq 1 .. attempt
  /\ errors \in Seq(Errors) /\ slept \in Seq(Nat)
  /\ pc = "attempt" => Len(errors) = attempt - 1 /\ attempt \in unsettled
  /\ pc = "delay" => /\ Len(errors) = attempt /\ attempt < AttemptsAllowed
                     /\ IsRetryableError(errors[attempt])
                     /\ attempt \in unsettled => errors[attempt] = "timeout"
  /\ pc = "fallback" => Len(errors) = attempt
  /\ pc \in {"attempt", "delay", "fallback"} => answer_ = "none"
  /\ pc = "answered" => Len(errors) \in {attempt - 1, attempt}
  /\ pc \in {"attempt", "delay", "fallback", "answered"}
  /\ Len(slept) = attempt - 1
  /\ delay = Backoff(attempt)
  /\ RetriesJustified

LEMMA CatchKeeps ==
  ASSUME RetryInv, pc = "attempt", NEW e \in Errors, Catch(e),
         unsettled' \subseteq unsettled, attempt \in unsettled' => e = "timeout",
         UNCHANGED <<service, attempt, delay, slept>>
  PROVE  RetryInv'
<1>1. /\ errors' \in Seq(Errors) /\ Len(errors') = attempt /\ errors'[attempt] = e
      /\ \A k \in 1 .. attempt - 1 : errors'[k] = errors[k]
  BY DEF RetryInv, Catch
<1>2. \A k \in 1 .. attempt - 1 : IsRetryableError(errors[k])'
  BY <1>1 DEF RetryInv, RetriesJustified, IsRetryableError
<1>3. \A a \in unsettled' : a # attempt => errors'[a] = "timeout"
  BY <1>1 DEF RetryInv, RetriesJustified
<1>4. AttemptsAllowed' = AttemptsAllowed
  BY DEF AttemptsAllowed
<1>5. CASE ~ IsRetryableError(e) \/ attempt = AttemptsAllowed
  <2>1. \/ FallsBackOn(e) /\ pc' = "fallback" /\ answer_' = answer_
        \/ pc' = "answered" /\ answer_' = "error"
    BY <1>5 DEF Catch, GiveUp, Answer
  <2>2. FallsBackOn(e) => FallsBackOn(errors[attempt])'
    BY <1>1 DEF FallsBackOn
  <2> QED
    BY <1>1, <1>2, <1>3, <1>4, <2>1, <2>2 DEF RetryInv, RetriesJustified
<1>6. CASE IsRetryableError(e) /\ attempt # AttemptsAllowed
  <2>1. pc' = "delay" /\ answer_' = answer_ /\ attempt < AttemptsAllowed
    BY <1>6, RetryAssumption DEF Catch, RetryInv, RetriesJustified, AttemptsAllowed
  <2>2. IsRetryableError(errors[attempt])'
    BY <1>1, <1>6 DEF IsRetryableError
  <2> QED
    BY <1>1, <1>2, <1>3, <1>4, <2>1, <2>2 DEF RetryInv, RetriesJustified
<1> QED
  BY <1>5, <1>6

LEMMA RetryKeeps == ASSUME RetryInv, Retry PROVE RetryInv'
<1>0. AttemptsAllowed' = AttemptsAllowed /\ AttemptsAllowed \in 1 .. MaxAttempts
  BY RetryAssumption DEF AttemptsAllowed, Retry
<1>1. /\ attempt' = attempt + 1 /\ attempt' \in 1 .. MaxAttempts /\ attempt \in Nat \ {0}
      /\ attempt' - 1 = attempt /\ attempt' <= AttemptsAllowed
  BY <1>0, RetryAssumption DEF RetryInv, Retry
<1>2. /\ delay \in Nat
      /\ delay' = Backoff(attempt)'
  <2>1. attempt - 1 \in Nat /\ (attempt - 1) + 1 = attempt /\ (attempt - 1) + 2 = attempt'
    BY <1>1
  <2> QED
    BY <1>1, <2>1, NextDelayGrows DEF RetryInv, Retry
<1>3. /\ slept' \in Seq(Nat) /\ Len(slept') = attempt /\ slept'[attempt] = delay
      /\ \A k \in 1 .. attempt - 1 : slept'[k] = slept[k]
  BY <1>1, <1>2 DEF RetryInv, Retry
<1>4. \A k \in DOMAIN slept' : slept'[k] = Backoff(k)
  <2>1. DOMAIN slept' = 1 .. attempt /\ DOMAIN slept = 1 .. attempt - 1
    BY <1>1, <1>3, LenProperties DEF RetryInv
  <2>2. \A k \in 1 .. attempt : k \in 1 .. attempt - 1 \/ k = attempt
    BY <1>1
  <2>3. delay = Backoff(attempt) /\ \A k \in DOMAIN slept : slept[k] = Backoff(k)
    BY DEF RetryInv, RetriesJustified
  <2> QED
    BY <1>3, <2>1, <2>2, <2>3
<1>5. \A k \in 1 .. attempt : IsRetryableError(errors[k])'
  BY <1>1 DEF RetryInv, Retry, RetriesJustified, IsRetryableError
<1>6. \A a \in unsettled' : a # attempt' => errors'[a] = "timeout"
  BY <1>1 DEF RetryInv, Retry, RetriesJustified
<1> QED
  BY <1>0, <1>1, <1>2, <1>3, <1>4, <1>5, <1>6 DEF RetryInv, Retry, RetriesJustified

LEMMA SettleKeeps ==
  ASSUME RetryInv, NEW a, NEW e \in {"none", "transient", "permanent"}, Settle(a, e)
  PROVE  RetryInv'
<1>1. /\ unsettled' = unsettled \ {a}
      /\ UNCHANGED <<service, attempt, delay, slept>>
  BY DEF Settle
<1>2. CASE a = attempt /\ pc = "attempt" /\ e # "none"
  <2>1. Catch(e) /\ e \in Errors
    BY <1>2 DEF Settle, Errors
  <2> QED
    BY <1>1, <1>2, <2>1, CatchKeeps
<1>3. CASE a = attempt /\ pc = "attempt" /\ e = "none"
  <2>1. pc' = "answered" /\ answer_' = "result" /\ errors' = errors
    BY <1>3 DEF Settle, Answer
  <2> QED
    BY <1>1, <1>3, <2>1 DEF RetryInv, RetriesJustified, IsRetryableError, FallsBackOn,
         AttemptsAllowed
<1>4. CASE ~ (a = attempt /\ pc = "attempt")
  <2>1. UNCHANGED <<pc, errors, answer_>>
    BY <1>4 DEF Settle
  <2> QED
    BY <1>1, <1>4, <2>1 DEF RetryInv, RetriesJustified, IsRetryableError, FallsBackOn,
         AttemptsAllowed
<1> QED
  BY <1>2, <1>3, <1>4

LEMMA BackoffStarts == Backoff(1) = InitialDelay
<1>1. Growth[1 - 1] = 1
  BY GrowthRule
<1> QED
  BY <1>1, RetryAssumption DEF Backoff, Smaller

LEMMA RetryInvariant == ResilienceSpec => []RetryInv
<1>1. ResilienceInit => RetryInv
  BY BackoffStarts, RetryAssumption DEF ResilienceInit, RetryInv, RetriesJustified, AttemptsAllowed
<1>2. RetryInv /\ [ResilienceNext]_resilienceVars => RetryInv'
  <2> SUFFICES ASSUME RetryInv, [ResilienceNext]_resilienceVars PROVE RetryInv'
    OBVIOUS
  <2>1. CASE TimerWins
    BY <2>1, CatchKeeps DEF TimerWins, Errors
  <2>2. CASE Fallback
    <3>1. /\ pc = "fallback" /\ pc' = "answered"
          /\ UNCHANGED <<service, attempt, unsettled, delay, slept, errors>>
      BY <2>2 DEF Fallback, Answer
    <3> QED
      BY <3>1 DEF RetryInv, RetriesJustified, IsRetryableError, FallsBackOn,
         AttemptsAllowed
  <2>3. CASE CallAgain
    <3>1. /\ pc' = "attempt" /\ attempt' = 1 /\ unsettled' = {1} /\ delay' = InitialDelay
          /\ slept' = << >> /\ errors' = << >> /\ answer_' = "none"
      BY <2>3 DEF CallAgain
    <3> QED
      BY <3>1, BackoffStarts, RetryAssumption DEF RetryInv, RetriesJustified, AttemptsAllowed
  <2>4. CASE UNCHANGED resilienceVars
    BY <2>4 DEF resilienceVars, RetryInv, RetriesJustified, IsRetryableError, FallsBackOn,
       AttemptsAllowed
  <2> QED
    BY <2>1, <2>2, <2>3, <2>4, SettleKeeps, RetryKeeps DEF ResilienceNext
<1> QED
  BY <1>1, <1>2, PTL DEF ResilienceSpec

\* Whatever the configuration and however an operation is called: it is tried again only after
\* an error worth it, after the delay the configuration gives, never more often than that
\* says, and beside an older attempt only if that has timed out; and the fallback stands in
\* only for an error it is meant for (retry.service.ts, timeout.service.ts).
THEOREM RetriesAreJustified == ResilienceSpec => []RetriesJustified
<1>1. RetryInv => RetriesJustified
  BY DEF RetryInv
<1> QED
  BY RetryInvariant, <1>1, PTL
=============================================================================
