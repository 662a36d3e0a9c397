------------------------------ MODULE JobQueue ------------------------------
(***************************************************************************)
(* One job queue and the dead letters of its failed jobs: core/queue/bull. *)
(* service.ts and the processors that extend base.processor.ts.            *)
(*                                                                         *)
(* Bull, an external library, keeps the queues in Redis.  It takes a job   *)
(* up again after a failure until its attempts are used, and once after    *)
(* its worker has lost it; it tells the processor of every failure.  The   *)
(* dead-letter queue has no processor: its jobs stay where they are.       *)
(***************************************************************************)
EXTENDS Naturals

CONSTANTS
    Work,     \* what there is to do: the data of jobs
    Jobs,     \* job ids of the queue: numbers, which Bull counts up
    Letters,  \* job ids of the dead-letter queue likewise
    Retriers, \* operator requests in flight that retry a dead letter
    Attempts  \* attempts of a job, 3 in the code

VARIABLES
    job,     \* per id: the job of that id, once it was added
    letter,  \* per id of the dead-letter queue likewise
    wired,   \* whether setBullService was called; never changes
    moving,  \* jobs whose onJobFailed awaits the dead-letter queue
    retry,   \* per request: the dead letter it is about
    runs,      \* history: how often each piece of work was done, up to twice
    accepted,  \* history: work that addJob has taken on
    discarded, \* history: work of which an operator removed the last safe copy
    disturbed, \* history: work that may be done again, for the reasons given below
    byHand     \* history: work whose failed job an operator has retried

queueHistory == <<runs, accepted, discarded, disturbed, byHand>>
queueVars == <<job, letter, wired, moving, retry, queueHistory>>

Live == {"waiting", "active", "delayed", "failed"}
Unused == [state |-> "unused"]
NewJob(w) == [state |-> "waiting", work |-> w, made |-> 0, stalls |-> 0, ran |-> FALSE]
Quiet == [pc |-> "idle"]

QueueInit ==
    /\ job = [j \in Jobs |-> Unused] /\ letter = [d \in Letters |-> Unused]
    /\ wired \in BOOLEAN /\ moving = {}
    /\ retry = [r \in Retriers |-> Quiet]
    /\ runs = [w \in Work |-> 0]
    /\ accepted = {} /\ discarded = {} /\ disturbed = {} /\ byHand = {}

\* The next id of a queue.
Fresh(i, q) == q[i] = Unused /\ \A k \in DOMAIN q : k < i => q[k] # Unused
Is(j, s) == job[j].state = s
Becomes(j, s) == job' = [job EXCEPT ![j].state = s]
\* What is left of a job that Bull has removed.
Remains(j) == [state |-> "gone", work |-> job[j].work]

-----------------------------------------------------------------------------
(* Adding and processing                                                   *)

\* addJob, addJobWithPriority and each job of addBulk.
AddJob(w, j) ==
    /\ w \notin accepted /\ Fresh(j, job)
    /\ job' = [job EXCEPT ![j] = NewJob(w)]
    /\ accepted' = accepted \cup {w}
    /\ UNCHANGED <<letter, wired, moving, retry, runs, discarded, disturbed, byHand>>

\* Bull hands a job to the processor.
Take(j) ==
    /\ Is(j, "waiting")
    /\ Becomes(j, "active")
    /\ UNCHANGED <<letter, wired, moving, retry, queueHistory>>

\* The part of the process function that has an effect.
Perform(j) ==
    /\ Is(j, "active") /\ ~ job[j].ran
    /\ job' = [job EXCEPT ![j].ran = TRUE]
    /\ runs' = [runs EXCEPT ![job[j].work] = IF @ < 2 THEN @ + 1 ELSE @]
    /\ UNCHANGED <<letter, wired, moving, retry, accepted, discarded, disturbed, byHand>>

\* handleJob returns; removeOnComplete.
Complete(j) ==
    /\ Is(j, "active") /\ job[j].ran
    /\ job' = [job EXCEPT ![j] = Remains(j)]
    /\ UNCHANGED <<letter, wired, moving, retry, queueHistory>>

\* onJobFailed: "Move to dead letter queue if all retries exhausted".
Exhausted(n) == n >= Attempts

OnJobFailed(j, n) == moving' = IF Exhausted(n) /\ wired THEN moving \cup {j} ELSE moving

\* handleJob throws: Bull counts the attempt, and puts the job off or lets it fail for
\* good (removeOnFail is false).  What was done before the error is done again.
Fail(j) ==
    LET n == job[j].made + 1 IN
    /\ Is(j, "active")
    /\ job' = [job EXCEPT ![j].state = IF n >= Attempts THEN "failed" ELSE "delayed",
                          ![j].made = n, ![j].ran = FALSE]
    /\ OnJobFailed(j, n)
    /\ disturbed' = IF job[j].ran THEN disturbed \cup {job[j].work} ELSE disturbed
    /\ UNCHANGED <<letter, wired, retry, runs, accepted, discarded, byHand>>

\* The worker has lost the job: it is taken up again once; then it fails, and no attempt
\* is counted.
Stall(j) ==
    /\ Is(j, "active")
    /\ IF job[j].stalls = 0
       THEN /\ job' = [job EXCEPT ![j].state = "waiting", ![j].stalls = 1, ![j].ran = FALSE]
            /\ UNCHANGED moving
       ELSE /\ job' = [job EXCEPT ![j].state = "failed", ![j].ran = FALSE]
            /\ OnJobFailed(j, job[j].made)
    /\ disturbed' = disturbed \cup {job[j].work}
    /\ UNCHANGED <<letter, wired, retry, runs, accepted, discarded, byHand>>

\* moveToDeadLetterQueue; the failed job stays.
MoveToDeadLetterQueue(j, d) ==
    /\ j \in moving /\ Fresh(d, letter)
    /\ letter' = [letter EXCEPT ![d] = [state |-> "dead", work |-> job[j].work, job |-> j]]
    /\ moving' = moving \ {j}
    /\ UNCHANGED <<job, wired, retry, queueHistory>>

\* The dead-letter queue refuses, which is logged and forgotten, or the server stops.
FailToMove(j) ==
    /\ j \in moving
    /\ moving' = moving \ {j}
    /\ UNCHANGED <<job, letter, wired, retry, queueHistory>>

-----------------------------------------------------------------------------
(* Retrying dead letters                                                   *)

Dead(d) == letter[d].state = "dead"
RetryBecomes(r, t) == retry' = [retry EXCEPT ![r] = t]
About(d) == {r \in Retriers : retry[r].pc # "idle" /\ retry[r].letter = d}
\* A dead letter that nobody is about to remove.
Safe(d) == Dead(d) /\ \A r \in About(d) : retry[r].pc # "remove"

\* Mutant: the dead letter is removed before the job is added.
BeginRetryRemoving(r, d) ==
    /\ retry[r] = Quiet /\ Dead(d)
    /\ RetryBecomes(r, [pc |-> "add", letter |-> d])
    /\ letter' = [letter EXCEPT ![d].state = "gone"]
    /\ UNCHANGED <<job, wired, moving, queueHistory>>

\* retryFromDeadLetterQueue finds the dead letter.
BeginRetry(r, d) ==
    /\ retry[r] = Quiet /\ Dead(d)
    /\ RetryBecomes(r, [pc |-> "add", letter |-> d])
    /\ disturbed' = IF About(d) = {} THEN disturbed ELSE disturbed \cup {letter[d].work}
    /\ UNCHANGED <<job, letter, wired, moving, runs, accepted, discarded, byHand>>

\* "Re-add the job to the original queue".
AddBack(r, j) ==
    /\ retry[r].pc = "add" /\ Fresh(j, job)
    /\ job' = [job EXCEPT ![j] = NewJob(letter[retry[r].letter].work)]
    /\ RetryBecomes(r, [pc |-> "remove", letter |-> retry[r].letter])
    /\ UNCHANGED <<letter, wired, moving, queueHistory>>

\* Mutant: the dead letter is not removed.
RemoveLetterNot(r) ==
    /\ retry[r].pc = "remove"
    /\ RetryBecomes(r, Quiet)
    /\ UNCHANGED <<job, letter, wired, moving, queueHistory>>

\* "Remove from dead letter queue", whether another request has removed it or not.
RemoveLetter(r) ==
    /\ retry[r].pc = "remove"
    /\ letter' = [letter EXCEPT ![retry[r].letter].state = "gone"]
    /\ RetryBecomes(r, Quiet)
    /\ UNCHANGED <<job, wired, moving, queueHistory>>

\* A Redis call fails, or the server stops: a job that was added stays.
AbortRetry(r) ==
    /\ retry[r].pc # "idle"
    /\ RetryBecomes(r, Quiet)
    /\ disturbed' = IF retry[r].pc = "remove" THEN disturbed \cup {letter[retry[r].letter].work}
                    ELSE disturbed
    /\ UNCHANGED <<job, letter, wired, moving, runs, accepted, discarded, byHand>>

-----------------------------------------------------------------------------
(* Other operations of BullService                                         *)

\* promoteJob, as when the backoff is over.
Promote(j) ==
    /\ Is(j, "delayed") /\ Becomes(j, "waiting")
    /\ UNCHANGED <<letter, wired, moving, retry, queueHistory>>

\* retryJob, once a job in a run: the attempts it has made go on counting.
RetryJob(j) ==
    /\ Is(j, "failed") /\ job[j].work \notin byHand
    /\ Becomes(j, "waiting")
    /\ byHand' = byHand \cup {job[j].work}
    /\ UNCHANGED <<letter, wired, moving, retry, runs, accepted, discarded, disturbed>>

RemoveAll(S) ==
    /\ job' = [j \in Jobs |-> IF j \in S THEN Remains(j) ELSE job[j]]
    /\ discarded' = discarded \cup {w \in {job[j].work : j \in S} :
                                       ~ \E d \in Letters : Safe(d) /\ letter[d].work = w}
    /\ UNCHANGED <<letter, wired, moving, retry, runs, accepted, disturbed, byHand>>

InStates(T) == {j \in Jobs : job[j].state \in T}

\* Bull refuses to remove a job a worker has locked.
RemoveJob(j) == j \in InStates({"waiting", "delayed", "failed"}) /\ RemoveAll({j})

EmptyQueue == RemoveAll(InStates({"waiting", "delayed"}))

CleanFailedJobs == RemoveAll(InStates({"failed"}))

QueueNext ==
    \/ \E j \in Jobs :
          \/ \E w \in Work : AddJob(w, j)
          \/ Take(j) \/ Perform(j) \/ Complete(j) \/ Fail(j) \/ Stall(j)
          \/ \E d \in Letters : MoveToDeadLetterQueue(j, d)
          \/ FailToMove(j) \/ Promote(j) \/ RetryJob(j) \/ RemoveJob(j)
    \/ \E r \in Retriers :
          \/ \E d \in Letters : BeginRetry(r, d)
          \/ \E j \in Jobs : AddBack(r, j)
          \/ RemoveLetter(r) \/ AbortRetry(r)
    \/ EmptyQueue \/ CleanFailedJobs

QueueSpec == QueueInit /\ [][QueueNext]_queueVars

-----------------------------------------------------------------------------
(* Correctness                                                             *)

Job ==
    [state : Live, work : Work, made : Nat, stalls : {0, 1}, ran : BOOLEAN]
    \cup [state : {"gone"}, work : Work]

\* Everything is well typed, and nothing refers to an id that was never given out.
QueueTypeOK ==
    /\ job \in [Jobs -> {Unused} \cup Job]
    /\ letter \in [Letters -> {Unused} \cup [state : {"dead", "gone"}, work : Work, job : Jobs]]
    /\ retry \in [Retriers -> {Quiet} \cup [pc : {"add", "remove"}, letter : Letters]]
    /\ \A r \in Retriers : retry[r] # Quiet => letter[retry[r].letter] # Unused
    /\ \A d \in Letters : letter[d] # Unused =>
          job[letter[d].job] # Unused /\ job[letter[d].job].work = letter[d].work
    /\ wired \in BOOLEAN /\ moving \subseteq Jobs
    /\ runs \in [Work -> 0 .. 2]
    /\ accepted \subseteq Work /\ discarded \subseteq Work
    /\ disturbed \subseteq Work /\ byHand \subseteq Work

\* Work that was taken on is done, or held by a job or a dead letter, or an operator has
\* thrown it away: nothing is lost on the way to the dead letters and back.
NothingLost ==
    \A w \in accepted :
        \/ runs[w] > 0 \/ w \in discarded
        \/ \E j \in InStates(Live) : job[j].work = w
        \/ \E d \in Letters : Safe(d) /\ letter[d].work = w

\* A job is not among the dead letters while it is still going to be tried, unless an
\* operator has retried it on top.
NotDeadAndAlive ==
    \A d \in Letters :
        Dead(d) => \/ letter[d].work \in byHand
                   \/ job[letter[d].job].state \in {"failed", "gone"}

\* Work is done once, through all attempts, dead letters and their retry, unless it
\* failed after it was done, its worker lost it, two requests retried one dead letter,
\* such a request died half way, or an operator has retried the job on top.
DoneOnce == \A w \in Work : runs[w] <= 1 \/ w \in disturbed \cup byHand
=============================================================================
