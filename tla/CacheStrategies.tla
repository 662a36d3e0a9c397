--------------------------- MODULE CacheStrategies ---------------------------
(***************************************************************************)
(* The three strategies of core/cache/strategies for one key: cache-aside, *)
(* write-through and write-behind, over Redis and a database that the      *)
(* caller's loader and persister reach.  Every await is a step.            *)
(*                                                                         *)
(* A value is the number of the write that made it, so a greater value is  *)
(* a newer one.  The write-behind timers of one key have one delay: they   *)
(* fire in the order in which they were armed.                             *)
(***************************************************************************)
EXTENDS Naturals, Sequences, FiniteSets

CONSTANTS
    Procs,      \* requests in flight
    Strategies, \* those of "aside", "through", "behind" the run covers
    MaxWrites,  \* bound on the calls of set
    Faults,     \* which of "redis", "database", "flush", "crash" may happen
    None

VARIABLES
    strategy, \* the strategy in use; never changes
    cache,    \* the Redis key, None when absent
    db,       \* what the database holds
    written,  \* number of calls of set so far
    handler,  \* per request: its next await and the value it carries
    timers,   \* armed timers, in the order in which they fire
    pending,  \* writeQueue: the timer that may still be cancelled
    persisting, \* timers that have fired and await their persister
    orderly,  \* history: no write overlapped a request, and no persister another
    halfDone, \* history: a Redis call has failed, or a request has died
    dropped   \* history: a write was given up (database failure, flush, crash)

store == <<cache, db>>
queue == <<timers, pending, persisting>>
vars == <<strategy, cache, db, written, handler, timers, pending, persisting,
          orderly, halfDone, dropped>>

Versions == 0 .. MaxWrites
Idle == [pc |-> "idle", value |-> 0]
Handler == [pc : {"idle", "load", "fill", "cacheSet", "persist", "del", "queue"},
            value : Versions]

Init ==
    /\ strategy \in Strategies
    /\ cache = None /\ db = 0 /\ written = 0
    /\ handler = [p \in Procs |-> Idle]
    /\ timers = <<>> /\ pending = None /\ persisting = {}
    /\ orderly = TRUE /\ halfDone = FALSE /\ dropped = FALSE

-----------------------------------------------------------------------------
At(p, step) == handler[p].pc = step
Goto(p, step) == handler' = [handler EXCEPT ![p].pc = step]
Finish(p) == handler' = [handler EXCEPT ![p] = Idle]
Quiescent == \A p \in Procs : At(p, "idle")
Reading == \A p \in Procs : handler[p].pc \in {"idle", "load", "fill"}

\* A Redis call that fails.
RedisFails == "redis" \in Faults /\ halfDone' = TRUE
RedisWorks == UNCHANGED halfDone

-----------------------------------------------------------------------------
(* get: the same lookup, load and fill in all three strategies             *)

\* A hit returns at once; a Redis that fails answers null, like a miss.
Lookup(p) ==
    /\ At(p, "idle")
    /\ \/ cache = None /\ RedisWorks
       \/ RedisFails
    /\ handler' = [handler EXCEPT ![p] = [pc |-> "load", value |-> 0]]
    /\ orderly' = (orderly /\ Reading)
    /\ UNCHANGED <<strategy, store, written, queue, dropped>>

\* loader(): the database's value.  A loader that fails is called once more by
\* the catch block, whose outcome goes to the caller and not into the cache.
Load(p) ==
    /\ At(p, "load")
    /\ \/ handler' = [handler EXCEPT ![p] = [pc |-> "fill", value |-> db]]
       \/ "database" \in Faults /\ Finish(p)
    /\ UNCHANGED <<strategy, store, written, queue, orderly, halfDone, dropped>>

\* The value read is cached.  Cache-aside does not wait for this call and logs
\* its failure, the others load once more: neither touches the cache again.
Fill(p) ==
    /\ At(p, "fill")
    /\ \/ cache' = handler[p].value /\ RedisWorks
       \/ RedisFails /\ UNCHANGED cache
    /\ Finish(p)
    /\ UNCHANGED <<strategy, db, written, queue, orderly, dropped>>

-----------------------------------------------------------------------------
(* set                                                                     *)

\* A caller passes a new value: cache-aside starts with the database, the others
\* with the cache.
Set(p) ==
    /\ At(p, "idle") /\ written < MaxWrites
    /\ written' = written + 1
    /\ handler' = [handler EXCEPT ![p] =
          [pc |-> IF strategy = "aside" THEN "persist" ELSE "cacheSet",
           value |-> written + 1]]
    /\ orderly' = (orderly /\ Quiescent)
    /\ UNCHANGED <<strategy, store, queue, halfDone, dropped>>

\* redisService.set; when it throws, so does set.
CacheSet(p) ==
    /\ At(p, "cacheSet")
    /\ \/ /\ cache' = handler[p].value /\ RedisWorks
          /\ Goto(p, IF strategy = "through" THEN "persist" ELSE "queue")
          /\ UNCHANGED dropped
       \/ RedisFails /\ Finish(p) /\ dropped' = TRUE /\ UNCHANGED cache
    /\ UNCHANGED <<strategy, db, written, queue, orderly>>

\* Mutant: a failed persister leaves the cache alone.
PersistKeeping(p) ==
    /\ At(p, "persist")
    /\ \/ /\ db' = handler[p].value
          /\ IF strategy = "aside" THEN Goto(p, "del") ELSE Finish(p)
          /\ UNCHANGED dropped
       \/ "database" \in Faults /\ dropped' = TRUE /\ Finish(p) /\ UNCHANGED db
    /\ UNCHANGED <<strategy, cache, written, queue, orderly, halfDone>>

\* persister(value), awaited.  Cache-aside then removes the key; write-through
\* removes it when the persister has thrown.
Persist(p) ==
    /\ At(p, "persist")
    /\ \/ /\ db' = handler[p].value
          /\ IF strategy = "aside" THEN Goto(p, "del") ELSE Finish(p)
          /\ UNCHANGED dropped
       \/ /\ "database" \in Faults /\ dropped' = TRUE
          /\ IF strategy = "through" THEN Goto(p, "del") ELSE Finish(p)
          /\ UNCHANGED db
    /\ UNCHANGED <<strategy, cache, written, queue, orderly, halfDone>>

\* redisService.del; when it throws, so does set.
Del(p) ==
    /\ At(p, "del")
    /\ \/ cache' = None /\ RedisWorks
       \/ RedisFails /\ UNCHANGED cache
    /\ Finish(p)
    /\ UNCHANGED <<strategy, db, written, queue, orderly, dropped>>

-----------------------------------------------------------------------------
(* The write-behind queue                                                  *)

\* The timers once t is cleared, if it is still armed.
ClearTimeout(t) ==
    IF \E i \in DOMAIN timers : timers[i] = t
    THEN LET at == CHOOSE i \in DOMAIN timers : timers[i] = t IN
         [k \in 1 .. Len(timers) - 1 |-> timers[IF k < at THEN k ELSE k + 1]]
    ELSE timers

\* Mutant: the older timer is cancelled and no newer one armed.
QueueCancelling(p) ==
    /\ At(p, "queue")
    /\ timers' = IF pending = None THEN Append(timers, handler[p].value)
                 ELSE ClearTimeout(pending)
    /\ pending' = handler[p].value
    /\ Finish(p)
    /\ UNCHANGED <<strategy, store, written, persisting, orderly, halfDone, dropped>>

\* queueDatabaseWrite: the timer in the queue is cancelled, if it has not fired
\* yet, and the new one takes its place.
Queue(p) ==
    /\ At(p, "queue")
    /\ timers' = Append(ClearTimeout(pending), handler[p].value)
    /\ pending' = handler[p].value
    /\ Finish(p)
    /\ UNCHANGED <<strategy, store, written, persisting, orderly, halfDone, dropped>>

\* A timer fires and its callback awaits the persister.
Fire ==
    /\ timers # <<>>
    /\ timers' = Tail(timers)
    /\ persisting' = persisting \cup {Head(timers)}
    /\ orderly' = (orderly /\ persisting = {})
    /\ UNCHANGED <<strategy, store, written, handler, pending, halfDone, dropped>>

\* The persister answers.  Either way the key's entry leaves the queue, be it the
\* entry of this timer or of a newer one.
Complete(v) ==
    /\ v \in persisting
    /\ persisting' = persisting \ {v}
    /\ pending' = None
    /\ \/ db' = v /\ UNCHANGED dropped
       \/ "database" \in Faults /\ dropped' = TRUE /\ UNCHANGED db
    /\ UNCHANGED <<strategy, cache, written, handler, timers, orderly, halfDone>>

\* flush(): the timers in the queue are cancelled, their writes forgotten.
Flush ==
    /\ "flush" \in Faults /\ pending # None
    /\ timers' = ClearTimeout(pending)
    /\ pending' = None
    /\ dropped' = TRUE
    /\ UNCHANGED <<strategy, store, written, handler, persisting, orderly, halfDone>>

-----------------------------------------------------------------------------
(* The environment                                                         *)

\* The key's time to live runs out.
Expire ==
    /\ cache # None /\ cache' = None
    /\ UNCHANGED <<strategy, db, written, handler, queue, orderly, halfDone, dropped>>

\* The process dies with its requests, its timers and its queue.
Crash ==
    /\ "crash" \in Faults /\ ~ dropped
    /\ handler' = [p \in Procs |-> Idle]
    /\ timers' = <<>> /\ pending' = None /\ persisting' = {}
    /\ dropped' = TRUE /\ halfDone' = (halfDone \/ ~ Quiescent)
    /\ UNCHANGED <<strategy, store, written, orderly>>

Step(p) == Load(p) \/ Fill(p) \/ CacheSet(p) \/ Persist(p) \/ Del(p) \/ Queue(p)

Next ==
    \/ \E p \in Procs : Lookup(p) \/ Set(p) \/ Step(p)
    \/ Fire
    \/ \E v \in persisting : Complete(v)
    \/ Flush \/ Expire \/ Crash

Spec == Init /\ [][Next]_vars

\* Awaited calls return, timers fire.
FairSpec ==
    /\ Spec
    /\ \A p \in Procs : WF_vars(Step(p))
    /\ WF_vars(Fire)
    /\ \A v \in Versions : WF_vars(Complete(v))

-----------------------------------------------------------------------------
(* Correctness                                                             *)

Armed == {timers[i] : i \in DOMAIN timers}

\* The variables are well typed; a write has one timer, which fires once.
TypeOK ==
    /\ cache \in Versions \cup {None} /\ db \in Versions /\ written \in Versions
    /\ handler \in [Procs -> Handler]
    /\ Armed \subseteq Versions /\ Cardinality(Armed) = Len(timers)
    /\ pending \in Versions \cup {None} /\ persisting \subseteq Versions
    /\ Armed \cap persisting = {}

\* Between requests that did not overlap:
\*  - "Ensures cache and database are always in sync": unless a Redis call or a request was
\*    lost, the key is absent or holds what the database holds, whether or not persisters
\*    failed.  Cache-aside keeps the same.
\*  - Write-behind, once no timer is armed and no persister runs, has stored the last write,
\*    whichever timers were cancelled or forgotten, unless a write was given up.
InSyncAtRest ==
    Quiescent /\ orderly =>
        /\ strategy \in {"aside", "through"} /\ ~ halfDone => cache \in {None, db}
        /\ strategy = "behind" /\ timers = <<>> /\ persisting = {} /\ ~ dropped => db = written

\* The "eventual consistency" of write-behind: every queued write reaches the database,
\* itself or through a newer one that cancelled its timer, and no older one takes its
\* place again, unless a write is given up.
QueuedWritesStored ==
    \A v \in 1 .. MaxWrites : v \in Armed ~> [](db >= v \/ dropped \/ ~ orderly)
=============================================================================
