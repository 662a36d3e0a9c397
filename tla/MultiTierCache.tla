--------------------------- MODULE MultiTierCache ---------------------------
(***************************************************************************)
(* core/cache/multi-tier-cache.service.ts for one key: a map in the memory *)
(* of each server instance in front of the Redis they share.               *)
(*                                                                         *)
(* A value is the number of the call that made it.  Entries are kept with  *)
(* the time they have left; an expired entry of the memory map, which the  *)
(* next lookup or the cleanup timer deletes, is as good as none.           *)
(***************************************************************************)
EXTENDS Naturals

CONSTANTS
    Nodes,     \* server instances
    Requests,  \* requests in flight
    MemoryTtl, \* defaultMemoryTtl
    Ttls,      \* times to live callers pass
    MaxDelay,  \* how late the answer of Redis may be handled
    MaxValues, \* bound on the values made
    TierFaults, \* {"redis"} when Redis calls may fail
    Absent, NoTtl

VARIABLES
    memory,    \* per instance: its entry
    redis,     \* the entry of the shared Redis
    made,      \* number of values made so far
    call,      \* per request: its instance, its next step and what it carries
    unheld,    \* history, per value: time since Redis or its caller last had it
    latest,    \* history: what the last change left, by the node that made it
    overlapped \* history: a change overlapped another request, or a call failed

tierVars == <<memory, redis, made, call, unheld, latest, overlapped>>

Values == 1 .. MaxValues
Entry == [value : Values, left : (Nat \ {0}) \cup {NoTtl}]

ASSUME TierAssumption ==
    /\ MemoryTtl \in Nat \ {0} /\ Ttls \subseteq Nat \ {0}
    /\ MaxDelay \in Nat /\ MaxValues \in Nat
    /\ NoTtl \notin Nat
    /\ Absent \notin Nat \cup Nodes \cup Entry

\* Past this bound it no longer matters how old a value is.
Bound == MemoryTtl + MaxDelay + 1
Free == [pc |-> "idle", node |-> Absent, value |-> 0, ttl |-> 0, waited |-> 0]

TiersInit ==
    /\ memory = [n \in Nodes |-> Absent]
    /\ redis = Absent /\ made = 0
    /\ call = [r \in Requests |-> Free]
    /\ unheld = [v \in Values |-> 0]
    /\ latest = [value |-> Absent, node |-> Absent]
    /\ overlapped = FALSE

-----------------------------------------------------------------------------
On(r, step) == call[r].pc = step
Release(r) == call' = [call EXCEPT ![r] = Free]
AtRest == \A r \in Requests : On(r, "idle")
OnlyReads == \A r \in Requests : call[r].pc \in {"idle", "populate"}
Shorter(a, b) == IF a < b THEN a ELSE b

\* A request goes on with its Redis call on instance n.
Await(r, n, step, value, ttl) ==
    call' = [call EXCEPT ![r] =
        [pc |-> step, node |-> n, value |-> value, ttl |-> ttl, waited |-> 0]]

\* A change of the key begins on instance n.
Changes(n, value) ==
    /\ latest' = [value |-> value, node |-> n]
    /\ overlapped' = (overlapped \/ ~ AtRest)

TierFails(r) ==
    /\ "redis" \in TierFaults
    /\ overlapped' = TRUE
    /\ Release(r)
    /\ UNCHANGED <<memory, redis, made, unheld, latest>>

-----------------------------------------------------------------------------
\* get and mget after a miss in memory: Redis is asked; a failure answers null.
Get(r, n) ==
    /\ On(r, "idle") /\ memory[n] = Absent /\ redis # Absent
    /\ Await(r, n, "populate", redis.value, 0)
    /\ overlapped' = (overlapped \/ ~ OnlyReads)
    /\ UNCHANGED <<memory, redis, made, unheld, latest>>

\* Mutant: the entry is kept as long as the one in Redis.
PopulateLong(r) ==
    /\ On(r, "populate")
    /\ \E t \in Ttls : memory' = [memory EXCEPT ![call[r].node] = [value |-> call[r].value, left |-> t]]
    /\ Release(r)
    /\ UNCHANGED <<redis, made, unheld, latest, overlapped>>

\* What Redis answered is put into memory for the default time.
Populate(r) ==
    /\ On(r, "populate")
    /\ memory' = [memory EXCEPT ![call[r].node] = [value |-> call[r].value, left |-> MemoryTtl]]
    /\ Release(r)
    /\ UNCHANGED <<redis, made, unheld, latest, overlapped>>

\* set, mset and warmCache: memory first, for the shorter of the two times.
TiersSet(r, n, ttl) ==
    /\ On(r, "idle") /\ made < MaxValues
    /\ made' = made + 1
    /\ memory' = [memory EXCEPT ![n] = [value |-> made + 1, left |-> Shorter(ttl, MemoryTtl)]]
    /\ Await(r, n, "set", made + 1, ttl)
    /\ Changes(n, made + 1)
    /\ UNCHANGED <<redis, unheld>>

RedisSet(r) ==
    /\ On(r, "set")
    /\ \/ /\ redis' = [value |-> call[r].value, left |-> call[r].ttl]
          /\ Release(r)
          /\ UNCHANGED <<memory, made, unheld, latest, overlapped>>
       \/ TierFails(r)

\* Mutant: the instance's own entry is left to expire.
DelRedisOnly(r, n) ==
    /\ On(r, "idle")
    /\ \E step \in {"del", "keys"} : Await(r, n, step, 0, 0)
    /\ Changes(n, Absent)
    /\ UNCHANGED <<memory, redis, made, unheld>>

\* del, reset and delPattern (whose Redis part first asks for the KEYS).
TiersDel(r, n) ==
    /\ On(r, "idle")
    /\ memory' = [memory EXCEPT ![n] = Absent]
    /\ \E step \in {"del", "keys"} : Await(r, n, step, 0, 0)
    /\ Changes(n, Absent)
    /\ UNCHANGED <<redis, made, unheld>>

RedisKeys(r) ==
    /\ On(r, "keys")
    /\ \/ /\ call' = IF redis = Absent THEN [call EXCEPT ![r] = Free]
                     ELSE [call EXCEPT ![r].pc = "del"]
          /\ UNCHANGED <<memory, redis, made, unheld, latest, overlapped>>
       \/ TierFails(r)

RedisDel(r) ==
    /\ On(r, "del")
    /\ \/ /\ redis' = Absent
          /\ Release(r)
          /\ UNCHANGED <<memory, made, unheld, latest, overlapped>>
       \/ TierFails(r)

\* incr and decr: the memory entry goes, Redis counts.
Incr(r, n) ==
    /\ On(r, "idle") /\ made < MaxValues
    /\ made' = made + 1
    /\ memory' = [memory EXCEPT ![n] = Absent]
    /\ Await(r, n, "incr", made + 1, 0)
    /\ Changes(n, made + 1)
    /\ UNCHANGED <<redis, unheld>>

\* INCR keeps the time to live of a key and gives a new one none.
RedisIncr(r) ==
    /\ On(r, "incr")
    /\ \/ /\ redis' = [value |-> call[r].value,
                       left |-> IF redis = Absent THEN NoTtl ELSE redis.left]
          /\ Release(r)
          /\ UNCHANGED <<memory, made, unheld, latest, overlapped>>
       \/ TierFails(r)

-----------------------------------------------------------------------------
Older(entry) ==
    IF entry = Absent \/ (entry # Absent /\ entry.left = NoTtl) THEN entry
    ELSE IF entry.left = 1 THEN Absent
    ELSE [entry EXCEPT !.left = @ - 1]

\* Some caller or Redis still has the value.
Held(v) ==
    \/ redis # Absent /\ redis.value = v
    \/ v > made
    \/ \E r \in Requests : call[r].pc \in {"set", "incr"} /\ call[r].value = v

\* Time passes, at most MaxDelay of it between an answer of Redis and its handling.
TimePasses ==
    /\ \A r \in Requests : On(r, "populate") => call[r].waited < MaxDelay
    /\ memory' = [n \in Nodes |-> Older(memory[n])]
    /\ redis' = Older(redis)
    /\ unheld' = [v \in Values |-> IF Held(v) THEN 0 ELSE Shorter(unheld[v] + 1, Bound)]
    /\ call' = [r \in Requests |->
          IF On(r, "populate") THEN [call[r] EXCEPT !.waited = @ + 1] ELSE call[r]]
    /\ UNCHANGED <<made, latest, overlapped>>

TiersNext ==
    \/ \E r \in Requests :
          \/ \E n \in Nodes : \/ Get(r, n) \/ TiersDel(r, n) \/ Incr(r, n)
                              \/ \E ttl \in Ttls : TiersSet(r, n, ttl)
          \/ Populate(r) \/ RedisSet(r) \/ RedisKeys(r) \/ RedisDel(r) \/ RedisIncr(r)
    \/ TimePasses

TiersSpec == TiersInit /\ [][TiersNext]_tierVars

-----------------------------------------------------------------------------
(* Correctness                                                             *)

TiersTypeOK ==
    /\ memory \in [Nodes -> [value : Values, left : 1 .. MemoryTtl] \cup {Absent}]
    /\ redis \in Entry \cup {Absent}
    /\ made \in 0 .. MaxValues /\ overlapped \in BOOLEAN
    /\ unheld \in [Values -> 0 .. Bound]

\* No instance serves from memory a value that was overwritten, deleted or expired
\* longer ago than the memory's own time to live and the delay of an answer, in
\* whatever order requests on all instances overlap, fail or expire.
StalenessBounded ==
    \A n \in Nodes : memory[n] # Absent => unheld[memory[n].value] < MemoryTtl + MaxDelay

\* An instance that has changed the key sees its change: neither its memory nor Redis
\* answers with an older value, unless requests overlapped or a call failed.
OwnChangeSeen ==
    AtRest /\ ~ overlapped /\ latest.node # Absent =>
        /\ memory[latest.node] # Absent => memory[latest.node].value = latest.value
        /\ redis # Absent => redis.value = latest.value
=============================================================================
