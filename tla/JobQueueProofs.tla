--------------------------- MODULE JobQueueProofs ---------------------------
(***************************************************************************)
(* Nothing is lost, nothing dead is still to be tried, and work that is    *)
(* not disturbed is done once, for any number of jobs, dead letters and    *)
(* requests.                                                               *)
(***************************************************************************)
EXTENDS JobQueue, TLAPS

\* What an attempt and a failure under way know.
Known ==
    /\ \A j \in Jobs : job[j].state \in Live => (job[j].ran => runs[job[j].work] > 0)
    /\ \A j \in moving :
          /\ job[j] # Unused
          /\ job[j].work \in byHand \/ job[j].state \in {"failed", "gone"}

IInv == QueueTypeOK /\ Known /\ NothingLost /\ NotDeadAndAlive

\* At the start there is nothing.
LEMMA InitOK == QueueInit => IInv
  BY DEF QueueInit, IInv, QueueTypeOK, Known, NothingLost, NotDeadAndAlive, Live, Dead, Unused,
         Quiet

\* A job in one of the four live states has all its fields.
LEMMA LiveJobs ==
    ASSUME QueueTypeOK, NEW j \in Jobs, job[j].state \in Live
    PROVE  /\ job[j] \in [state : Live, work : Work, made : Nat, stalls : {0, 1}, ran : BOOLEAN]
           /\ job[j] # Unused
  BY DEF QueueTypeOK, Job, Live, Unused

\* An id that has been given out stands for some work.
LEMMA JobsHaveWork ==
    ASSUME QueueTypeOK, NEW j \in Jobs, job[j] # Unused
    PROVE  job[j] \in Job /\ job[j].work \in Work
  BY DEF QueueTypeOK, Job

\* A job that is replaced by one for the same work, or an unused id that is taken, keeps
\* the tables well typed.
LEMMA JobsStayTyped ==
    ASSUME QueueTypeOK, job' \in [Jobs -> {Unused} \cup Job],
           \A j \in Jobs : job[j] # Unused => job'[j] # Unused /\ job'[j].work = job[j].work,
           letter' = letter, retry' = retry, wired' = wired, moving' \subseteq Jobs,
           runs' \in [Work -> 0 .. 2], accepted' \subseteq Work, discarded' \subseteq Work,
           disturbed' \subseteq Work, byHand' \subseteq Work
    PROVE  QueueTypeOK'
  BY DEF QueueTypeOK, Job

\* Every step keeps the types.
LEMMA TypeStep == QueueTypeOK /\ Known /\ [QueueNext]_queueVars => QueueTypeOK'
<1> SUFFICES ASSUME QueueTypeOK, Known, [QueueNext]_queueVars PROVE QueueTypeOK'
  OBVIOUS
<1>1. ASSUME NEW w \in Work, NEW j \in Jobs, AddJob(w, j) PROVE QueueTypeOK'
  <2>1. NewJob(w) \in Job
    BY DEF NewJob, Job, Live
  <2>2. NewJob(w) # Unused /\ job[j] = Unused
    BY <1>1 DEF NewJob, Unused, AddJob, Fresh
  <2>3. job' \in [Jobs -> {Unused} \cup Job]
    BY <1>1, <2>1 DEF AddJob, QueueTypeOK
  <2>4. \A i \in Jobs : job[i] # Unused => job'[i] # Unused /\ job'[i].work = job[i].work
    BY <1>1, <2>2 DEF AddJob, QueueTypeOK
  <2> QED BY <1>1, <2>3, <2>4, JobsStayTyped DEF AddJob, QueueTypeOK
<1>2. ASSUME NEW j \in Jobs, Take(j) PROVE QueueTypeOK'
  <2> USE LiveJobs DEF Is, Live
  <2>1. job' \in [Jobs -> {Unused} \cup Job]
    <3>1. [job[j] EXCEPT !.state = "active"] \in Job
      BY <1>2 DEF Take, Job
    <3> QED BY <1>2, <3>1 DEF Take, QueueTypeOK, Becomes
  <2>2. \A i \in Jobs : job[i] # Unused => job'[i] # Unused /\ job'[i].work = job[i].work
    BY <1>2 DEF Take, QueueTypeOK, Unused, Becomes
  <2> QED BY <1>2, <2>1, <2>2, JobsStayTyped DEF Take, QueueTypeOK, queueHistory
<1>3. ASSUME NEW j \in Jobs, Perform(j) PROVE QueueTypeOK'
  <2> USE LiveJobs DEF Is, Live
  <2>1. job' \in [Jobs -> {Unused} \cup Job]
    <3>1. [job[j] EXCEPT !.ran = TRUE] \in Job
      BY <1>3 DEF Perform, Job
    <3> QED BY <1>3, <3>1 DEF Perform, QueueTypeOK
  <2>2. \A i \in Jobs : job[i] # Unused => job'[i] # Unused /\ job'[i].work = job[i].work
    BY <1>3 DEF Perform, QueueTypeOK, Unused
  <2>3. runs' \in [Work -> 0 .. 2]
    BY <1>3 DEF Perform, QueueTypeOK
  <2> QED BY <1>3, <2>1, <2>2, <2>3, JobsStayTyped DEF Perform, QueueTypeOK
<1>4. ASSUME NEW j \in Jobs, Complete(j) PROVE QueueTypeOK'
  <2> USE LiveJobs DEF Is, Live
  <2>1. job' \in [Jobs -> {Unused} \cup Job]
    BY <1>4 DEF Complete, QueueTypeOK, Job, Remains
  <2>2. \A i \in Jobs : job[i] # Unused => job'[i] # Unused /\ job'[i].work = job[i].work
    BY <1>4 DEF Complete, QueueTypeOK, Unused, Remains
  <2> QED BY <1>4, <2>1, <2>2, JobsStayTyped DEF Complete, QueueTypeOK, queueHistory
<1>5. ASSUME NEW j \in Jobs, Fail(j) PROVE QueueTypeOK'
  <2> USE LiveJobs DEF Is, Live
  <2>1. job' \in [Jobs -> {Unused} \cup Job]
    BY <1>5 DEF Fail, QueueTypeOK, Job
  <2>2. \A i \in Jobs : job[i] # Unused => job'[i] # Unused /\ job'[i].work = job[i].work
    BY <1>5 DEF Fail, QueueTypeOK, Unused
  <2>3. moving' \subseteq Jobs /\ disturbed' \subseteq Work
    BY <1>5 DEF Fail, OnJobFailed, QueueTypeOK
  <2> QED BY <1>5, <2>1, <2>2, <2>3, JobsStayTyped DEF Fail, QueueTypeOK
<1>6. ASSUME NEW j \in Jobs, Stall(j) PROVE QueueTypeOK'
  <2> USE LiveJobs DEF Is, Live
  <2>1. job' \in [Jobs -> {Unused} \cup Job]
    BY <1>6 DEF Stall, QueueTypeOK, Job
  <2>2. \A i \in Jobs : job[i] # Unused => job'[i] # Unused /\ job'[i].work = job[i].work
    BY <1>6 DEF Stall, QueueTypeOK, Unused
  <2>3. moving' \subseteq Jobs /\ disturbed' \subseteq Work
    BY <1>6 DEF Stall, OnJobFailed, QueueTypeOK
  <2> QED BY <1>6, <2>1, <2>2, <2>3, JobsStayTyped DEF Stall, QueueTypeOK
<1>7. ASSUME NEW j \in Jobs, NEW d \in Letters, MoveToDeadLetterQueue(j, d)
      PROVE QueueTypeOK'
  <2>1. job[j] # Unused /\ job[j].work \in Work
    BY <1>7, JobsHaveWork DEF MoveToDeadLetterQueue, Known
  <2> QED BY <1>7, <2>1 DEF MoveToDeadLetterQueue, Fresh, QueueTypeOK, Unused, queueHistory
<1>8. ASSUME NEW j \in Jobs, FailToMove(j) PROVE QueueTypeOK'
  BY <1>8 DEF FailToMove, QueueTypeOK, queueHistory
<1>9. ASSUME NEW j \in Jobs, Promote(j) PROVE QueueTypeOK'
  <2> USE LiveJobs DEF Is, Live
  <2>1. job' \in [Jobs -> {Unused} \cup Job]
    <3>1. [job[j] EXCEPT !.state = "waiting"] \in Job
      BY <1>9 DEF Promote, Job
    <3> QED BY <1>9, <3>1 DEF Promote, QueueTypeOK, Becomes
  <2>2. \A i \in Jobs : job[i] # Unused => job'[i] # Unused /\ job'[i].work = job[i].work
    BY <1>9 DEF Promote, QueueTypeOK, Unused, Becomes
  <2> QED BY <1>9, <2>1, <2>2, JobsStayTyped DEF Promote, QueueTypeOK, queueHistory
<1>10. ASSUME NEW j \in Jobs, RetryJob(j) PROVE QueueTypeOK'
  <2> USE LiveJobs DEF Is, Live
  <2>1. job' \in [Jobs -> {Unused} \cup Job]
    <3>1. [job[j] EXCEPT !.state = "waiting"] \in Job
      BY <1>10 DEF RetryJob, Job
    <3> QED BY <1>10, <3>1 DEF RetryJob, QueueTypeOK, Becomes
  <2>2. \A i \in Jobs : job[i] # Unused => job'[i] # Unused /\ job'[i].work = job[i].work
    BY <1>10 DEF RetryJob, QueueTypeOK, Unused, Becomes
  <2>3. byHand' \subseteq Work
    BY <1>10 DEF RetryJob, QueueTypeOK
  <2> QED BY <1>10, <2>1, <2>2, <2>3, JobsStayTyped DEF RetryJob, QueueTypeOK
<1>11. ASSUME NEW T \in SUBSET Live, NEW S \in SUBSET InStates(T), RemoveAll(S)
       PROVE  QueueTypeOK'
  <2>1. \A j \in S : job[j] # Unused /\ job[j].state \in Live /\ j \in Jobs
    BY <1>11, LiveJobs DEF InStates
  <2>2. \A j \in S : Remains(j) \in Job /\ Remains(j) # Unused /\ Remains(j).work = job[j].work
    BY <2>1, JobsHaveWork DEF Remains, Job, Unused
  <2>3. job' \in [Jobs -> {Unused} \cup Job]
    BY <1>11, <2>2 DEF RemoveAll, QueueTypeOK
  <2>4. \A i \in Jobs : job[i] # Unused => job'[i] # Unused /\ job'[i].work = job[i].work
    BY <1>11, <2>2 DEF RemoveAll
  <2>5. discarded' \subseteq Work
    BY <1>11, <2>1, JobsHaveWork DEF RemoveAll, QueueTypeOK
  <2> QED BY <1>11, <2>3, <2>4, <2>5, JobsStayTyped DEF RemoveAll, QueueTypeOK
<1>12. ASSUME NEW r \in Retriers, NEW d \in Letters, BeginRetry(r, d) PROVE QueueTypeOK'
  BY <1>12 DEF BeginRetry, Dead, RetryBecomes, QueueTypeOK, Unused, Quiet
<1>13. ASSUME NEW r \in Retriers, NEW j \in Jobs, AddBack(r, j) PROVE QueueTypeOK'
  <2> DEFINE d == retry[r].letter
  <2>1. d \in Letters /\ letter[d] # Unused /\ retry[r] = [pc |-> "add", letter |-> d]
    BY <1>13 DEF AddBack, QueueTypeOK, Quiet
  <2>2. letter[d].work \in Work
    BY <2>1 DEF QueueTypeOK
  <2>3. NewJob(letter[d].work) \in Job /\ NewJob(letter[d].work) # Unused
    BY <2>2 DEF NewJob, Job, Live, Unused
  <2>4. job' \in [Jobs -> {Unused} \cup Job]
    BY <1>13, <2>3 DEF AddBack, QueueTypeOK
  <2>5. \A i \in Jobs : job[i] # Unused => job'[i] # Unused /\ job'[i].work = job[i].work
    BY <1>13, <2>3 DEF AddBack, QueueTypeOK, Fresh
  <2>6. retry' = [retry EXCEPT ![r] = [pc |-> "remove", letter |-> d]]
    BY <1>13, <2>1 DEF AddBack, RetryBecomes
  <2>7. UNCHANGED <<letter, wired, moving, queueHistory>>
    BY <1>13 DEF AddBack
  <2>8. \A s \in Retriers : retry'[s] # Quiet => letter'[retry'[s].letter] # Unused
    BY <2>1, <2>6, <2>7 DEF QueueTypeOK
  <2>9. retry' \in [Retriers -> {Quiet} \cup [pc : {"add", "remove"}, letter : Letters]]
    BY <2>1, <2>6 DEF QueueTypeOK
  <2>10. \A e \in Letters : letter'[e] # Unused =>
           job'[letter'[e].job] # Unused /\ job'[letter'[e].job].work = letter'[e].work
    BY <2>5, <2>7 DEF QueueTypeOK
  <2> HIDE DEF d
  <2> QED BY <2>4, <2>7, <2>8, <2>9, <2>10 DEF QueueTypeOK, queueHistory
<1>14. ASSUME NEW r \in Retriers, RemoveLetter(r) PROVE QueueTypeOK'
  BY <1>14 DEF RemoveLetter, RetryBecomes, QueueTypeOK, Unused, Quiet, queueHistory
<1>15. ASSUME NEW r \in Retriers, AbortRetry(r) PROVE QueueTypeOK'
  BY <1>15 DEF AbortRetry, RetryBecomes, QueueTypeOK, Unused, Quiet
<1>16. ASSUME UNCHANGED queueVars PROVE QueueTypeOK'
  BY <1>16 DEF queueVars, queueHistory, QueueTypeOK
<1>17. ASSUME NEW j \in Jobs, RemoveJob(j) PROVE QueueTypeOK'
  BY <1>11, <1>17 DEF RemoveJob, Live
<1>18. ASSUME EmptyQueue \/ CleanFailedJobs PROVE QueueTypeOK'
  BY <1>11, <1>18 DEF EmptyQueue, CleanFailedJobs, Live
<1> QED
  BY <1>1, <1>2, <1>3, <1>4, <1>5, <1>6, <1>7, <1>8, <1>9, <1>10, <1>12, <1>13, <1>14, <1>15,
     <1>16, <1>17, <1>18 DEF QueueNext

-----------------------------------------------------------------------------
(* Known and NotDeadAndAlive                                               *)

\* A job that is not going to be tried, unless an operator has retried it.
Rests(j) == job[j].work \in byHand \/ job[j].state \in {"failed", "gone"}

\* A job keeps its work, and one that rests goes on resting.
LEMMA RestStep ==
    ASSUME QueueTypeOK, [QueueNext]_queueVars, NEW i \in Jobs, job[i] # Unused
    PROVE  job'[i] # Unused /\ job'[i].work = job[i].work /\ (Rests(i) => Rests(i)')
<1> USE DEF Rests
<1>0. job[i] \in Job /\ job[i].work \in Work /\ job[i].state \in Live \cup {"gone"}
  BY JobsHaveWork DEF Job
<1> DEFINE Goal == job'[i] # Unused /\ job'[i].work = job[i].work /\ (Rests(i) => Rests(i)')
<1>1. ASSUME UNCHANGED <<job, byHand>> PROVE Goal
  BY <1>1
<1>2. ASSUME NEW w \in Work, NEW j \in Jobs, AddJob(w, j) PROVE Goal
  BY <1>2 DEF AddJob, Fresh, QueueTypeOK
<1>3. ASSUME NEW j \in Jobs, Take(j) \/ Promote(j) PROVE Goal
  BY <1>3, LiveJobs DEF Take, Promote, Becomes, Is, Live, QueueTypeOK, Unused, queueHistory
<1>4. ASSUME NEW j \in Jobs, Perform(j) PROVE Goal
  BY <1>4, LiveJobs DEF Perform, Is, Live, QueueTypeOK, Unused
<1>5. ASSUME NEW j \in Jobs, Complete(j) PROVE Goal
  BY <1>5, LiveJobs DEF Complete, Remains, Is, Live, QueueTypeOK, Unused, queueHistory
<1>6. ASSUME NEW j \in Jobs, Fail(j) PROVE Goal
  BY <1>6, LiveJobs DEF Fail, Is, Live, QueueTypeOK, Unused
<1>7. ASSUME NEW j \in Jobs, Stall(j) PROVE Goal
  BY <1>7, LiveJobs DEF Stall, Is, Live, QueueTypeOK, Unused
<1>8. ASSUME NEW j \in Jobs, RetryJob(j) PROVE Goal
  BY <1>8, LiveJobs DEF RetryJob, Becomes, Is, Live, QueueTypeOK, Unused
<1>9. ASSUME NEW S \in SUBSET Jobs, RemoveAll(S) PROVE Goal
  BY <1>9 DEF RemoveAll, Remains, Unused
<1>10. ASSUME NEW r \in Retriers, NEW j \in Jobs, AddBack(r, j) PROVE Goal
  BY <1>10 DEF AddBack, Fresh, QueueTypeOK, queueHistory
<1>11. ASSUME NEW j \in Jobs, NEW d \in Letters, MoveToDeadLetterQueue(j, d) PROVE Goal
  BY <1>1, <1>11 DEF MoveToDeadLetterQueue, queueHistory
<1>12. ASSUME NEW j \in Jobs, FailToMove(j) PROVE Goal
  BY <1>1, <1>12 DEF FailToMove, queueHistory
<1>13. ASSUME NEW r \in Retriers, NEW d \in Letters, BeginRetry(r, d) PROVE Goal
  BY <1>1, <1>13 DEF BeginRetry
<1>14. ASSUME NEW r \in Retriers, RemoveLetter(r) \/ AbortRetry(r) PROVE Goal
  BY <1>1, <1>14 DEF RemoveLetter, AbortRetry, queueHistory
<1>15. ASSUME UNCHANGED queueVars PROVE Goal
  BY <1>1, <1>15 DEF queueVars, queueHistory
<1>16. ASSUME NEW j \in Jobs, RemoveJob(j) PROVE Goal
  BY <1>9, <1>16 DEF RemoveJob
<1>17. ASSUME EmptyQueue \/ CleanFailedJobs PROVE Goal
  BY <1>9, <1>17 DEF EmptyQueue, CleanFailedJobs, InStates
<1> HIDE DEF Goal
<1>18. Goal
  BY <1>2, <1>3, <1>4, <1>5, <1>6, <1>7, <1>8, <1>10, <1>11, <1>12, <1>13, <1>14, <1>15, <1>16,
     <1>17 DEF QueueNext
<1> QED BY <1>18 DEF Goal

\* Only a job whose attempts are used, and which therefore has failed, is moved.
LEMMA MovingStep ==
    ASSUME QueueTypeOK, Known, [QueueNext]_queueVars, NEW i \in moving', i \notin moving
    PROVE  job'[i] # Unused /\ job'[i].state = "failed"
<1>1. ASSUME NEW j \in Jobs, Fail(j) PROVE i = j /\ job'[i].state = "failed" /\ job'[i] # Unused
  BY <1>1, LiveJobs DEF Fail, OnJobFailed, Exhausted, Is, Live, QueueTypeOK, Unused
<1>2. ASSUME NEW j \in Jobs, Stall(j) PROVE i = j /\ job'[i].state = "failed" /\ job'[i] # Unused
  BY <1>2, LiveJobs DEF Stall, OnJobFailed, Is, Live, QueueTypeOK, Unused
<1> QED
  BY <1>1, <1>2 DEF QueueNext, AddJob, Take, Perform, Complete, MoveToDeadLetterQueue, FailToMove,
     Promote, RetryJob, RemoveJob, RemoveAll, EmptyQueue, CleanFailedJobs, BeginRetry, AddBack,
     RemoveLetter, AbortRetry, queueVars

\* An attempt that has had its effect has counted it.
LEMMA RanStep ==
    ASSUME QueueTypeOK, Known, [QueueNext]_queueVars, NEW i \in Jobs,
           job'[i].state \in Live, job'[i].ran
    PROVE  runs'[job'[i].work] > 0
<1> DEFINE Goal == runs'[job'[i].work] > 0
<1> DEFINE Same == job'[i] = job[i] /\ runs' = runs
<1>1. ASSUME Same PROVE Goal
  BY <1>1 DEF Known
<1>2. ASSUME NEW w \in Work, NEW j \in Jobs, AddJob(w, j) PROVE Goal
  BY <1>1, <1>2 DEF AddJob, NewJob, QueueTypeOK
<1>3. ASSUME NEW j \in Jobs, Take(j) \/ Promote(j) \/ RetryJob(j) PROVE Goal
  <2>0. job[j].state \in Live /\ runs' = runs /\ \E s \in Live : Becomes(j, s)
    BY <1>3 DEF Take, Promote, RetryJob, Is, Live, queueHistory
  <2>1. PICK s \in Live : Becomes(j, s)
    BY <2>0
  <2>2. CASE i = j
    <3>1. job'[i].ran = job[i].ran /\ job'[i].work = job[i].work
      BY <2>0, <2>1, <2>2, LiveJobs DEF Becomes, QueueTypeOK
    <3> QED BY <2>0, <2>2, <3>1 DEF Known
  <2>3. CASE i # j
    BY <1>1, <2>0, <2>1, <2>3 DEF Becomes, QueueTypeOK
  <2> QED BY <2>2, <2>3
<1>4. ASSUME NEW j \in Jobs, Perform(j) PROVE Goal
  <2>1. job[j].work \in Work /\ job[i].work = job'[i].work /\ (i # j => job'[i] = job[i])
    BY <1>4, LiveJobs DEF Perform, Is, Live, QueueTypeOK
  <2>2. \A w \in Work : runs[w] \in 0 .. 2
    BY DEF QueueTypeOK
  <2>3. runs'[job[j].work] > 0 /\ \A w \in Work : runs[w] > 0 => runs'[w] > 0
    BY <1>4, <2>1, <2>2 DEF Perform, QueueTypeOK
  <2>4. CASE i # j
    <3>1. job[i] # Unused
      BY <2>1, <2>4 DEF Unused, Live
    <3>2. runs[job[i].work] > 0 /\ job[i].work \in Work
      BY <2>1, <2>4, <3>1, JobsHaveWork DEF Known
    <3> QED BY <2>1, <2>3, <3>2
  <2> QED BY <2>1, <2>3, <2>4
<1>5. ASSUME NEW j \in Jobs, Complete(j) PROVE Goal
  BY <1>1, <1>5 DEF Complete, Remains, Live, QueueTypeOK, queueHistory
<1>6. ASSUME NEW j \in Jobs, Fail(j) PROVE Goal
  BY <1>1, <1>6, LiveJobs DEF Fail, Is, Live, QueueTypeOK
<1>7. ASSUME NEW j \in Jobs, Stall(j) PROVE Goal
  BY <1>1, <1>7, LiveJobs DEF Stall, Is, Live, QueueTypeOK
<1>8. ASSUME NEW S \in SUBSET Jobs, RemoveAll(S) PROVE Goal
  <2>1. i \notin S
    BY <1>8 DEF RemoveAll, Remains, Live
  <2> QED BY <1>1, <1>8, <2>1 DEF RemoveAll
<1>9. ASSUME NEW r \in Retriers, NEW j \in Jobs, AddBack(r, j) PROVE Goal
  BY <1>1, <1>9 DEF AddBack, NewJob, QueueTypeOK, queueHistory
<1>10. ASSUME NEW j \in Jobs, NEW d \in Letters, MoveToDeadLetterQueue(j, d) PROVE Goal
  BY <1>1, <1>10 DEF MoveToDeadLetterQueue, queueHistory
<1>11. ASSUME NEW j \in Jobs, FailToMove(j) PROVE Goal
  BY <1>1, <1>11 DEF FailToMove, queueHistory
<1>12. ASSUME NEW r \in Retriers, NEW d \in Letters, BeginRetry(r, d) PROVE Goal
  BY <1>1, <1>12 DEF BeginRetry
<1>13. ASSUME NEW r \in Retriers, RemoveLetter(r) \/ AbortRetry(r) PROVE Goal
  BY <1>1, <1>13 DEF RemoveLetter, AbortRetry, queueHistory
<1>14. ASSUME UNCHANGED queueVars PROVE Goal
  BY <1>1, <1>14 DEF queueVars, queueHistory
<1>15. ASSUME NEW j \in Jobs, RemoveJob(j) PROVE Goal
  BY <1>8, <1>15 DEF RemoveJob
<1>16. ASSUME EmptyQueue \/ CleanFailedJobs PROVE Goal
  BY <1>8, <1>16 DEF EmptyQueue, CleanFailedJobs, InStates
<1> HIDE DEF Goal
<1>17. Goal
  BY <1>2, <1>3, <1>4, <1>5, <1>6, <1>7, <1>9, <1>10, <1>11, <1>12, <1>13, <1>14, <1>15,
     <1>16 DEF QueueNext
<1> QED BY <1>17 DEF Goal

LEMMA KnownStep == QueueTypeOK /\ Known /\ [QueueNext]_queueVars => Known'
<1> SUFFICES ASSUME QueueTypeOK, Known, [QueueNext]_queueVars PROVE Known'
  OBVIOUS
<1>1. ASSUME NEW i \in moving' PROVE job'[i] # Unused /\ Rests(i)'
  <2>1. CASE i \in moving
    BY <2>1, RestStep DEF Known, QueueTypeOK, Rests
  <2>2. CASE i \notin moving
    BY <2>2, MovingStep DEF Rests
  <2> QED BY <2>1, <2>2
<1>2. \A i \in Jobs : job'[i].state \in Live => (job'[i].ran => runs'[job'[i].work] > 0)
  BY RanStep
<1> QED BY <1>1, <1>2 DEF Known, Rests, Is

\* A letter comes from a job that rests, and keeps its job.
LEMMA DeadStep ==
    QueueTypeOK /\ Known /\ NotDeadAndAlive /\ [QueueNext]_queueVars => NotDeadAndAlive'
<1> SUFFICES ASSUME QueueTypeOK, Known, NotDeadAndAlive, [QueueNext]_queueVars,
                    NEW e \in Letters, Dead(e)'
             PROVE  letter'[e].work \in byHand' \/ job'[letter'[e].job].state \in {"failed", "gone"}
  BY DEF NotDeadAndAlive
<1>1. CASE letter'[e] = letter[e]
  <2>1. Dead(e) /\ letter[e] # Unused /\ letter[e].job \in Jobs
    BY <1>1 DEF Dead, Unused, QueueTypeOK
  <2>2. job[letter[e].job] # Unused /\ job[letter[e].job].work = letter[e].work
    BY <2>1 DEF QueueTypeOK
  <2>3. Rests(letter[e].job)
    BY <2>1, <2>2 DEF NotDeadAndAlive, Rests
  <2>4. Rests(letter[e].job)' /\ job'[letter[e].job].work = letter[e].work
    BY <1>1, <2>1, <2>2, <2>3, RestStep DEF Rests
  <2> QED BY <1>1, <2>4 DEF Rests
<1>2. CASE letter'[e] # letter[e]
  <2>1. ASSUME NEW j \in Jobs, NEW d \in Letters, MoveToDeadLetterQueue(j, d)
        PROVE  letter'[e].work \in byHand' \/ job'[letter'[e].job].state \in {"failed", "gone"}
    <3>1. e = d /\ letter'[e] = [state |-> "dead", work |-> job[j].work, job |-> j]
      BY <1>2, <2>1 DEF MoveToDeadLetterQueue, QueueTypeOK
    <3> QED BY <2>1, <3>1 DEF MoveToDeadLetterQueue, Known, queueHistory
  <2>2. ASSUME NEW r \in Retriers, RemoveLetter(r) PROVE FALSE
    <3>1. retry[r] # Quiet /\ retry[r].letter \in Letters /\ letter[retry[r].letter] # Unused
      BY <2>2 DEF RemoveLetter, Quiet, QueueTypeOK
    <3>2. e = retry[r].letter
      BY <1>2, <2>2 DEF RemoveLetter, QueueTypeOK
    <3>3. letter[e] \in [state : {"dead", "gone"}, work : Work, job : Jobs]
      BY <3>1, <3>2 DEF QueueTypeOK
    <3>4. letter'[e].state = "gone"
      BY <2>2, <3>2, <3>3 DEF RemoveLetter, QueueTypeOK
    <3> QED BY <3>4 DEF Dead
  <2> QED
    BY <1>2, <2>1, <2>2 DEF QueueNext, AddJob, Take, Perform, Complete, Fail, Stall, FailToMove,
       Promote, RetryJob, RemoveJob, RemoveAll, EmptyQueue, CleanFailedJobs, BeginRetry, AddBack,
       AbortRetry, queueVars, queueHistory
<1> QED BY <1>1, <1>2

-----------------------------------------------------------------------------
(* NothingLost                                                             *)

\* One piece of work is done, thrown away or held.
Covered(w) ==
    \/ runs[w] > 0 \/ w \in discarded
    \/ \E j \in InStates(Live) : job[j].work = w
    \/ \E d \in Letters : Safe(d) /\ letter[d].work = w

\* It is enough to look at the live jobs and the safe letters there were.
LEMMA LostStep ==
    ASSUME QueueTypeOK, NothingLost, accepted' = accepted,
           \A w \in Work : runs[w] > 0 => runs'[w] > 0, discarded \subseteq discarded',
           \A w \in Work : \A j \in InStates(Live) : job[j].work = w => Covered(w)',
           \A w \in Work : \A d \in Letters : Safe(d) /\ letter[d].work = w => Covered(w)'
    PROVE  NothingLost'
<1> SUFFICES ASSUME NEW w \in accepted PROVE Covered(w)'
  BY DEF NothingLost, Covered
<1>1. w \in Work
  BY DEF QueueTypeOK
<1>2. CASE runs[w] > 0
  BY <1>1, <1>2 DEF Covered
<1>3. CASE w \in discarded
  BY <1>3 DEF Covered
<1>4. CASE \E j \in InStates(Live) : job[j].work = w
  <2> PICK j \in InStates(Live) : job[j].work = w
    BY <1>4
  <2> QED BY <1>1
<1>5. CASE \E d \in Letters : Safe(d) /\ letter[d].work = w
  <2> PICK d \in Letters : Safe(d) /\ letter[d].work = w
    BY <1>5
  <2> QED BY <1>1
<1> QED BY <1>2, <1>3, <1>4, <1>5 DEF NothingLost

\* Steps that only move jobs about: live jobs stay live, and no letter becomes unsafe.
LEMMA QuietStep ==
    ASSUME QueueTypeOK, NothingLost, accepted' = accepted,
           \A w \in Work : runs[w] > 0 => runs'[w] > 0, discarded \subseteq discarded',
           \A j \in Jobs : job[j].state \in Live =>
              job'[j].state \in Live /\ job'[j].work = job[j].work,
           \A d \in Letters : Safe(d) => Safe(d)' /\ letter'[d].work = letter[d].work
    PROVE  NothingLost'
<1>1. \A w \in Work : \A j \in InStates(Live) : job[j].work = w => Covered(w)'
  BY DEF Covered, InStates
<1>2. \A w \in Work : \A d \in Letters : Safe(d) /\ letter[d].work = w => Covered(w)'
  BY DEF Covered
<1> QED BY <1>1, <1>2, LostStep

\* Letters are as safe as before when neither they nor the requests change.
LEMMA SameLetters ==
    ASSUME UNCHANGED <<letter, retry>>, NEW d \in Letters, Safe(d)
    PROVE  Safe(d)' /\ letter'[d].work = letter[d].work
  BY DEF Safe, Dead, About

\* A piece of work is not lost in any step.
LEMMA HeldStep == QueueTypeOK /\ Known /\ NothingLost /\ [QueueNext]_queueVars => NothingLost'
<1> SUFFICES ASSUME QueueTypeOK, Known, NothingLost, [QueueNext]_queueVars PROVE NothingLost'
  OBVIOUS
<1>1. ASSUME NEW w \in Work, NEW j \in Jobs, AddJob(w, j) PROVE NothingLost'
  <2> SUFFICES ASSUME NEW v \in accepted' PROVE Covered(v)'
    BY DEF NothingLost, Covered
  <2>1. CASE v = w
    <3>1. job'[j].state \in Live /\ job'[j].work = w
      BY <1>1 DEF AddJob, NewJob, Live, QueueTypeOK
    <3> QED BY <2>1, <3>1 DEF Covered, InStates
  <2>2. CASE v # w
    <3>1. Covered(v)
      BY <1>1, <2>2 DEF AddJob, NothingLost, Covered
    <3>2. ASSUME NEW i \in InStates(Live), job[i].work = v PROVE Covered(v)'
      BY <1>1, <3>2 DEF AddJob, Fresh, Live, Unused, InStates, Covered, QueueTypeOK
    <3>3. ASSUME NEW d \in Letters, Safe(d), letter[d].work = v PROVE Covered(v)'
      <4>1. UNCHANGED <<letter, retry>>
        BY <1>1 DEF AddJob
      <4> QED BY <3>3, <4>1, SameLetters DEF Covered
    <3>4. runs' = runs /\ discarded' = discarded
      BY <1>1 DEF AddJob
    <3> QED BY <3>1, <3>2, <3>3, <3>4 DEF Covered
  <2> QED BY <2>1, <2>2
<1>2. ASSUME NEW j \in Jobs, Take(j) \/ Promote(j) \/ RetryJob(j) PROVE NothingLost'
  <2>1. \E s \in Live : Becomes(j, s)
    BY <1>2 DEF Take, Promote, RetryJob, Live
  <2>2. \A i \in Jobs : job[i].state \in Live => job'[i].state \in Live /\ job'[i].work = job[i].work
    BY <2>1, LiveJobs DEF Becomes, QueueTypeOK
  <2>3. UNCHANGED <<letter, retry, runs, accepted, discarded>>
    BY <1>2 DEF Take, Promote, RetryJob, queueHistory
  <2> QED BY <2>2, <2>3, SameLetters, QuietStep
<1>3. ASSUME NEW j \in Jobs, Perform(j) PROVE NothingLost'
  <2>1. \A i \in Jobs : job[i].state \in Live => job'[i].state \in Live /\ job'[i].work = job[i].work
    BY <1>3, LiveJobs DEF Perform, QueueTypeOK
  <2>2. \A w \in Work : runs[w] \in 0 .. 2
    BY DEF QueueTypeOK
  <2>3. \A w \in Work : runs[w] > 0 => runs'[w] > 0
    BY <1>3, <2>2 DEF Perform, QueueTypeOK
  <2>4. UNCHANGED <<letter, retry, accepted, discarded>>
    BY <1>3 DEF Perform
  <2> QED BY <2>1, <2>3, <2>4, SameLetters, QuietStep
<1>4. ASSUME NEW j \in Jobs, Fail(j) \/ Stall(j) PROVE NothingLost'
  <2>1. CASE Fail(j)
    <3>1. \A i \in Jobs : job[i].state \in Live => job'[i].state \in Live /\ job'[i].work = job[i].work
      BY <2>1, LiveJobs DEF Fail, Live, QueueTypeOK
    <3>2. UNCHANGED <<letter, retry, runs, accepted, discarded>>
      BY <2>1 DEF Fail
    <3> QED BY <3>1, <3>2, SameLetters, QuietStep
  <2>2. CASE Stall(j)
    <3>1. \A i \in Jobs : job[i].state \in Live => job'[i].state \in Live /\ job'[i].work = job[i].work
      BY <2>2, LiveJobs DEF Stall, Live, QueueTypeOK
    <3>2. UNCHANGED <<letter, retry, runs, accepted, discarded>>
      BY <2>2 DEF Stall
    <3> QED BY <3>1, <3>2, SameLetters, QuietStep
  <2> QED BY <1>4, <2>1, <2>2
<1>5. ASSUME NEW j \in Jobs, Complete(j) PROVE NothingLost'
  <2>1. runs[job[j].work] > 0
    BY <1>5 DEF Complete, Is, Live, Known
  <2>2. UNCHANGED <<letter, retry, runs, accepted, discarded>>
    BY <1>5 DEF Complete, queueHistory
  <2>3. ASSUME NEW w \in Work, NEW i \in InStates(Live), job[i].work = w PROVE Covered(w)'
    <3>1. CASE i = j
      BY <2>1, <2>2, <2>3, <3>1 DEF Covered
    <3>2. CASE i # j
      BY <1>5, <2>3, <3>2 DEF Complete, Covered, InStates, QueueTypeOK
    <3> QED BY <3>1, <3>2
  <2>4. \A w \in Work : \A d \in Letters : Safe(d) /\ letter[d].work = w => Covered(w)'
    BY <2>2, SameLetters DEF Covered
  <2> QED BY <2>2, <2>3, <2>4, LostStep
<1>6. ASSUME NEW S \in SUBSET Jobs, RemoveAll(S) PROVE NothingLost'
  <2>1. UNCHANGED <<letter, retry, runs, accepted>>
    BY <1>6 DEF RemoveAll
  <2>2. \A w \in Work : \A d \in Letters : Safe(d) /\ letter[d].work = w => Covered(w)'
    BY <2>1, SameLetters DEF Covered
  <2>3. ASSUME NEW w \in Work, NEW i \in InStates(Live), job[i].work = w PROVE Covered(w)'
    <3>1. CASE i \notin S
      BY <1>6, <2>3, <3>1 DEF RemoveAll, Covered, InStates
    <3>2. CASE i \in S
      <4>1. CASE \E d \in Letters : Safe(d) /\ letter[d].work = w
        BY <2>2, <4>1
      <4>2. CASE ~ \E d \in Letters : Safe(d) /\ letter[d].work = w
        BY <1>6, <2>3, <3>2, <4>2 DEF RemoveAll, Covered
      <4> QED BY <4>1, <4>2
    <3> QED BY <3>1, <3>2
  <2>4. discarded \subseteq discarded'
    BY <1>6 DEF RemoveAll
  <2> QED BY <2>1, <2>2, <2>3, <2>4, LostStep
<1>7. ASSUME NEW j \in Jobs, NEW d \in Letters, MoveToDeadLetterQueue(j, d) PROVE NothingLost'
  <2>1. \A e \in Letters : Safe(e) => Safe(e)' /\ letter'[e].work = letter[e].work
    BY <1>7 DEF MoveToDeadLetterQueue, Fresh, Safe, Dead, About, Unused, QueueTypeOK
  <2> QED BY <1>7, <2>1, QuietStep DEF MoveToDeadLetterQueue, queueHistory
<1>8. ASSUME UNCHANGED <<job, letter, retry, runs, accepted, discarded>> PROVE NothingLost'
  BY <1>8, SameLetters, QuietStep
<1>9. ASSUME NEW j \in Jobs, FailToMove(j) PROVE NothingLost'
  BY <1>8, <1>9 DEF FailToMove, queueHistory
<1>10. ASSUME NEW r \in Retriers, NEW d \in Letters, BeginRetry(r, d) PROVE NothingLost'
  <2>1. \A e \in Letters : Safe(e) => Safe(e)' /\ letter'[e].work = letter[e].work
    BY <1>10 DEF BeginRetry, RetryBecomes, Safe, Dead, About, QueueTypeOK
  <2> QED BY <1>10, <2>1, QuietStep DEF BeginRetry
<1>11. ASSUME NEW r \in Retriers, AbortRetry(r) PROVE NothingLost'
  <2>1. \A e \in Letters : Safe(e) => Safe(e)' /\ letter'[e].work = letter[e].work
    BY <1>11 DEF AbortRetry, RetryBecomes, Safe, Dead, About, Quiet, QueueTypeOK
  <2> QED BY <1>11, <2>1, QuietStep DEF AbortRetry
<1>12. ASSUME NEW r \in Retriers, RemoveLetter(r) PROVE NothingLost'
  <2>1. r \in About(retry[r].letter) /\ ~ Safe(retry[r].letter)
    BY <1>12 DEF RemoveLetter, About, Safe
  <2>2. \A e \in Letters : Safe(e) => Safe(e)' /\ letter'[e].work = letter[e].work
    BY <1>12, <2>1 DEF RemoveLetter, RetryBecomes, Safe, Dead, About, Quiet, QueueTypeOK
  <2> QED BY <1>12, <2>2, QuietStep DEF RemoveLetter, queueHistory
<1>13. ASSUME NEW r \in Retriers, NEW j \in Jobs, AddBack(r, j) PROVE NothingLost'
  <2> DEFINE d == retry[r].letter
  <2>1. UNCHANGED <<letter, runs, accepted, discarded>>
    BY <1>13 DEF AddBack, queueHistory
  <2>2. \A w \in Work : \A i \in InStates(Live) : job[i].work = w => Covered(w)'
    BY <1>13 DEF AddBack, Fresh, Unused, Live, InStates, Covered, QueueTypeOK
  <2>3. ASSUME NEW w \in Work, letter[d].work = w PROVE Covered(w)'
    <3>1. job'[j].state \in Live /\ job'[j].work = letter[d].work
      BY <1>13 DEF AddBack, NewJob, Live, QueueTypeOK
    <3> QED BY <2>1, <2>3, <3>1 DEF Covered, InStates
  <2>4. ASSUME NEW w \in Work, NEW e \in Letters, Safe(e), e # d, letter[e].work = w
        PROVE  Covered(w)'
    <3>1. About(e)' = About(e) /\ \A q \in About(e) : retry'[q] = retry[q]
      BY <1>13, <2>4 DEF AddBack, RetryBecomes, About, QueueTypeOK
    <3>2. Safe(e)'
      BY <2>1, <2>4, <3>1 DEF Safe, Dead
    <3> QED BY <2>1, <2>4, <3>2 DEF Covered
  <2> HIDE DEF d
  <2> QED BY <2>1, <2>2, <2>3, <2>4, LostStep
<1>14. ASSUME NEW j \in Jobs, RemoveJob(j) PROVE NothingLost'
  BY <1>6, <1>14 DEF RemoveJob
<1>15. ASSUME EmptyQueue \/ CleanFailedJobs PROVE NothingLost'
  BY <1>6, <1>15 DEF EmptyQueue, CleanFailedJobs, InStates
<1>16. ASSUME UNCHANGED queueVars PROVE NothingLost'
  BY <1>8, <1>16 DEF queueVars, queueHistory
<1> QED
  BY <1>1, <1>2, <1>3, <1>4, <1>5, <1>7, <1>9, <1>10, <1>11, <1>12, <1>13, <1>14, <1>15, <1>16
     DEF QueueNext

-----------------------------------------------------------------------------

\* The four conjuncts hold in every reachable state.
THEOREM Invariance == QueueSpec => []IInv
<1>1. IInv /\ [QueueNext]_queueVars => IInv'
  BY TypeStep, KnownStep, HeldStep, DeadStep DEF IInv
<1> QED BY <1>1, InitOK, PTL DEF QueueSpec

\* Work that addJob accepted is done, held by a job or a dead letter, or was removed by an
\* operator, whatever fails on its way through the dead letters.
THEOREM NothingIsLost == QueueSpec => []NothingLost
<1>1. IInv => NothingLost
  BY DEF IInv
<1> QED BY <1>1, Invariance, PTL

\* What is among the dead letters is not tried any more, unless an operator retried its job.
THEOREM DeadAreNotTried == QueueSpec => []NotDeadAndAlive
<1>1. IInv => NotDeadAndAlive
  BY DEF IInv
<1> QED BY <1>1, Invariance, PTL

(***************************************************************************)
(* Work is done once.  Until it is done, work that nobody has disturbed is *)
(* in one place only: a job still to be tried, a failed job on its way to  *)
(* the dead letters, or a dead letter that has not been added back.        *)
(***************************************************************************)

Open(j) == job[j].state \in {"waiting", "active", "delayed"} /\ ~ job[j].ran

Places(w) ==
    {<<"job", j>> : j \in {k \in Jobs : Open(k) /\ job[k].work = w}}
    \cup {<<"move", j>> : j \in {k \in moving : job[k].work = w}}
    \cup {<<"letter", d>> : d \in {e \in Letters : Safe(e) /\ letter[e].work = w}}

AtMostOne(S) == \A s, t \in S : s = t

Retrying(r, w) == retry[r].pc # "idle" /\ letter[retry[r].letter].work = w

\* The requests that retry dead letters for w: each has a letter of its own.
RetriesApart(w) ==
    /\ \A r \in Retriers : Retrying(r, w) => Dead(retry[r].letter)
    /\ \A r, q \in Retriers :
         Retrying(r, w) /\ Retrying(q, w) /\ retry[r].letter = retry[q].letter => r = q

InOnePlace(w) ==
    /\ AtMostOne(Places(w))
    /\ runs[w] <= 1 /\ (runs[w] = 1 => Places(w) = {})
    /\ RetriesApart(w)

\* Work that nobody has added has no job, and has not been done.
Added ==
    /\ \A j \in Jobs : job[j] # Unused => job[j].work \in accepted
    /\ \A w \in Work : runs[w] > 0 => w \in accepted

Undisturbed(w) == w \notin disturbed \cup byHand

OnceInv == Added /\ \A w \in Work : Undisturbed(w) => InOnePlace(w)

LEMMA InitOnce == QueueInit => OnceInv
<1> SUFFICES ASSUME QueueInit PROVE OnceInv
  OBVIOUS
<1>1. Added
  BY DEF QueueInit, Added
<1>2. ASSUME NEW w \in Work PROVE InOnePlace(w)
  <2>1. Places(w) = {}
    BY DEF QueueInit, Places, Open, Safe, Dead, Unused
  <2> QED
    BY <2>1 DEF QueueInit, InOnePlace, AtMostOne, RetriesApart, Retrying, Quiet
<1> QED
  BY <1>1, <1>2 DEF OnceInv

\* Where the places of w are.
LEMMA PlacesOf ==
  ASSUME NEW w
  PROVE  /\ \A x \in Places(w) :
              \/ \E j \in Jobs : x = <<"job", j>> /\ Open(j) /\ job[j].work = w
              \/ \E j \in moving : x = <<"move", j>> /\ job[j].work = w
              \/ \E d \in Letters : x = <<"letter", d>> /\ Safe(d) /\ letter[d].work = w
         /\ \A j \in Jobs : Open(j) /\ job[j].work = w => <<"job", j>> \in Places(w)
         /\ \A j \in moving : job[j].work = w => <<"move", j>> \in Places(w)
         /\ \A d \in Letters : Safe(d) /\ letter[d].work = w => <<"letter", d>> \in Places(w)
  BY DEF Places

\* Dead letters and retries of w that stay as they are.
LEMMA ApartKept ==
  ASSUME NEW w, RetriesApart(w), UNCHANGED <<letter, retry>>
  PROVE  RetriesApart(w)' /\ \A d \in Letters : Safe(d)' <=> Safe(d)
  BY DEF RetriesApart, Retrying, Dead, Safe, About

\* A step that takes nothing up anew for w.
LEMMA Shrink ==
  ASSUME NEW w, InOnePlace(w), UNCHANGED <<letter, retry>>, runs'[w] = runs[w],
         \A j \in Jobs : Open(j)' /\ job'[j].work = w => Open(j) /\ job[j].work = w,
         \A j \in moving' : job'[j].work = w => j \in moving /\ job[j].work = w
  PROVE  InOnePlace(w)'
<1>1. RetriesApart(w)' /\ \A d \in Letters : Safe(d)' <=> Safe(d)
  BY ApartKept DEF InOnePlace
<1>2. Places(w)' \subseteq Places(w)
  BY <1>1 DEF Places
<1> QED
  BY <1>1, <1>2 DEF InOnePlace, AtMostOne

\* A step that moves w from one place to another.
LEMMA Jump ==
  ASSUME NEW w \in Work, QueueTypeOK, InOnePlace(w), NEW x \in Places(w), NEW y,
         Places(w)' \subseteq (Places(w) \ {x}) \cup {y},
         runs'[w] = runs[w], RetriesApart(w)'
  PROVE  InOnePlace(w)'
<1>1. runs[w] \in 0 .. 2
  BY DEF QueueTypeOK
<1>2. Places(w)' \subseteq {y}
  BY DEF InOnePlace, AtMostOne
<1> QED
  BY <1>1, <1>2 DEF InOnePlace, AtMostOne

LEMMA AddedStep == IInv /\ Added /\ [QueueNext]_queueVars => Added'
<1> SUFFICES ASSUME IInv, Added, [QueueNext]_queueVars PROVE Added'
  OBVIOUS
<1>0. QueueTypeOK
  BY DEF IInv
<1>1. accepted \subseteq accepted'
  BY DEF QueueNext, AddJob, Take, Perform, Complete, Fail, Stall, MoveToDeadLetterQueue, FailToMove,
     Promote, RetryJob, RemoveJob, RemoveAll, EmptyQueue, CleanFailedJobs, BeginRetry, AddBack,
     RemoveLetter, AbortRetry, queueVars, queueHistory
<1>2. ASSUME NEW w \in Work, runs'[w] > 0 PROVE w \in accepted'
  <2>1. CASE runs'[w] = runs[w]
    BY <1>1, <1>2, <2>1 DEF Added
  <2>2. ASSUME NEW j \in Jobs, Perform(j) PROVE w \in accepted'
    <3>1. job[j] # Unused /\ job[j].work \in accepted
      BY <1>0, <2>2, LiveJobs DEF Perform, Is, Live, Added
    <3>2. w = job[j].work \/ runs'[w] = runs[w]
      BY <1>0, <2>2 DEF Perform, QueueTypeOK
    <3> QED
      BY <1>1, <2>1, <3>1, <3>2
  <2>3. runs' = runs \/ \E j \in Jobs : Perform(j)
    BY DEF QueueNext, AddJob, Take, Complete, Fail, Stall, MoveToDeadLetterQueue, FailToMove,
       Promote, RetryJob, RemoveJob, RemoveAll, EmptyQueue, CleanFailedJobs, BeginRetry, AddBack,
       RemoveLetter, AbortRetry, queueVars, queueHistory
  <2> QED
    BY <2>1, <2>2, <2>3
<1>3. ASSUME NEW i \in Jobs, job'[i] # Unused PROVE job'[i].work \in accepted'
  <2>1. CASE job[i] # Unused
    BY <1>0, <1>1, <2>1, RestStep DEF Added
  <2>2. CASE job[i] = Unused /\ ~ (\E w \in Work, j \in Jobs : AddJob(w, j))
                             /\ ~ (\E r \in Retriers, j \in Jobs : AddBack(r, j))
    <3>0. job[i].state \notin Live
      BY <2>2 DEF Unused, Live
    <3>1. ASSUME NEW j \in Jobs, Take(j) \/ Perform(j) \/ Complete(j) \/ Fail(j) \/ Stall(j)
                                 \/ Promote(j) \/ RetryJob(j)
          PROVE  job'[i] = job[i]
      BY <1>0, <3>0, <3>1
      DEF Take, Perform, Complete, Fail, Stall, Promote, RetryJob, Is, Becomes, Live, QueueTypeOK
    <3>2. ASSUME NEW S \in SUBSET InStates(Live), RemoveAll(S) PROVE job'[i] = job[i]
      BY <3>0, <3>2 DEF RemoveAll, InStates
    <3>3. ASSUME \E j \in Jobs : RemoveJob(j) PROVE job'[i] = job[i]
      BY <3>2, <3>3 DEF RemoveJob, InStates, Live
    <3>4. ASSUME EmptyQueue \/ CleanFailedJobs PROVE job'[i] = job[i]
      BY <3>2, <3>4 DEF EmptyQueue, CleanFailedJobs, InStates, Live
    <3>5. job'[i] = job[i]
      BY <2>2, <3>1, <3>3, <3>4 DEF QueueNext, MoveToDeadLetterQueue, FailToMove, BeginRetry,
         RemoveLetter, AbortRetry, queueVars, queueHistory
    <3> QED
      BY <1>3, <2>2, <3>5
  <2>3. ASSUME NEW w \in Work, NEW j \in Jobs, AddJob(w, j), job[i] = Unused
        PROVE  job'[i].work \in accepted'
    BY <1>0, <1>3, <2>3 DEF AddJob, NewJob, QueueTypeOK
  <2>4. ASSUME NEW r \in Retriers, NEW j \in Jobs, AddBack(r, j), job[i] = Unused
        PROVE  job'[i].work \in accepted'
    <3>1. retry[r].letter \in Letters /\ letter[retry[r].letter] # Unused
      BY <1>0, <2>4 DEF AddBack, QueueTypeOK, Quiet
    <3>2. letter[retry[r].letter].work \in accepted
      BY <1>0, <3>1 DEF QueueTypeOK, Added
    <3>3. i = j
      BY <1>0, <1>3, <2>4 DEF AddBack, QueueTypeOK
    <3> QED
      BY <1>0, <1>1, <2>4, <3>2, <3>3 DEF AddBack, NewJob, QueueTypeOK
  <2> QED
    BY <2>1, <2>2, <2>3, <2>4
<1> QED
  BY <1>2, <1>3 DEF Added

\* A step at one job that is not about w, or does not open it.
LEMMA JobStep ==
  ASSUME NEW w, QueueTypeOK, InOnePlace(w), UNCHANGED <<letter, retry>>, runs'[w] = runs[w],
         NEW j \in Jobs, \A i \in Jobs : i # j => job'[i] = job[i], job'[j].work = job[j].work,
         job[j].work = w => (Open(j)' => Open(j)) /\ moving' = moving,
         moving' \subseteq moving \cup {j}
  PROVE  InOnePlace(w)'
<1>1. \A i \in Jobs : Open(i)' /\ job'[i].work = w => Open(i) /\ job[i].work = w
  BY DEF Open
<1>2. \A i \in moving' : job'[i].work = w => i \in moving /\ job[i].work = w
  BY DEF QueueTypeOK
<1> QED
  BY <1>1, <1>2, Shrink

\* Work that has just been added was nowhere.
LEMMA Nowhere ==
  ASSUME IInv, Added, NEW w \in Work, w \notin accepted
  PROVE  /\ Places(w) = {} /\ runs[w] = 0
         /\ \A r \in Retriers : ~ Retrying(r, w)
<1>0. QueueTypeOK /\ Known
  BY DEF IInv
<1>1. \A j \in Jobs : job[j] # Unused => job[j].work # w
  BY DEF Added
<1>2. \A d \in Letters : letter[d] # Unused => letter[d].work # w
  BY <1>0, <1>1 DEF QueueTypeOK
<1>3. \A j \in Jobs : Open(j) => job[j] # Unused
  BY DEF Open, Unused
<1>4. \A d \in Letters : Safe(d) => letter[d] # Unused
  BY DEF Safe, Dead, Unused
<1>5. Places(w) = {}
  BY <1>0, <1>1, <1>2, <1>3, <1>4 DEF Places, Known, QueueTypeOK
<1>6. runs[w] = 0
  BY <1>0 DEF QueueTypeOK, Added
<1>7. \A r \in Retriers : ~ Retrying(r, w)
  BY <1>0, <1>2 DEF QueueTypeOK, Retrying, Quiet
<1> QED
  BY <1>5, <1>6, <1>7

LEMMA PlaceStep ==
  ASSUME IInv, Added, QueueTypeOK', [QueueNext]_queueVars,
         NEW w \in Work, InOnePlace(w), Undisturbed(w)'
  PROVE  InOnePlace(w)'
<1>0. QueueTypeOK /\ Known /\ runs[w] \in 0 .. 2
  BY DEF IInv, QueueTypeOK
<1>1. ASSUME NEW v \in Work, NEW j \in Jobs, AddJob(v, j) PROVE InOnePlace(w)'
  <2>1. /\ UNCHANGED <<letter, retry, runs, moving>> /\ job[j] = Unused
        /\ job' = [job EXCEPT ![j] = NewJob(v)] /\ v \notin accepted
    BY <1>1 DEF AddJob, Fresh
  <2>2. RetriesApart(w)' /\ \A d \in Letters : Safe(d)' <=> Safe(d)
    BY <2>1, ApartKept DEF InOnePlace
  <2>3. j \notin moving
    BY <1>0, <2>1 DEF Known
  <2>4. Places(w)' \subseteq Places(w) \cup (IF v = w THEN {<<"job", j>>} ELSE {})
    BY <1>0, <2>1, <2>2, <2>3 DEF Places, Open, NewJob, QueueTypeOK
  <2>5. CASE v = w
    <3>1. Places(w) = {} /\ runs[w] = 0
      BY <2>1, <2>5, Nowhere
    <3> QED
      BY <2>1, <2>2, <2>4, <2>5, <3>1 DEF InOnePlace, AtMostOne
  <2>6. CASE v # w
    BY <2>1, <2>2, <2>4, <2>6 DEF InOnePlace, AtMostOne
  <2> QED
    BY <2>5, <2>6
<1>2. ASSUME NEW j \in Jobs, Take(j) \/ Promote(j) PROVE InOnePlace(w)'
  <2>1. /\ UNCHANGED <<letter, retry, runs, moving>>
        /\ job[j].state \in {"waiting", "delayed"} /\ \E s \in Live : Becomes(j, s)
    BY <1>2 DEF Take, Promote, Is, Live, queueHistory
  <2>2. /\ \A i \in Jobs : i # j => job'[i] = job[i]
        /\ job'[j].work = job[j].work /\ job'[j].ran = job[j].ran
    BY <1>0, <2>1, LiveJobs DEF Becomes, QueueTypeOK, Live
  <2> QED
    BY <1>0, <2>1, <2>2, JobStep DEF Open
<1>3. ASSUME NEW j \in Jobs, Perform(j) PROVE InOnePlace(w)'
  <2>1. /\ UNCHANGED <<letter, retry, moving>> /\ Is(j, "active") /\ ~ job[j].ran
        /\ \A i \in Jobs : i # j => job'[i] = job[i]
        /\ job'[j].work = job[j].work /\ job'[j].ran
        /\ runs' = [runs EXCEPT ![job[j].work] = IF @ < 2 THEN @ + 1 ELSE @]
    BY <1>0, <1>3, LiveJobs DEF Perform, Is, Live, QueueTypeOK
  <2>2. CASE job[j].work # w
    BY <1>0, <2>1, <2>2, JobStep DEF QueueTypeOK
  <2>3. CASE job[j].work = w
    <3>1. <<"job", j>> \in Places(w)
      BY <2>1, <2>3, PlacesOf DEF Open, Is
    <3>2. RetriesApart(w)' /\ \A d \in Letters : Safe(d)' <=> Safe(d)
      BY <2>1, ApartKept DEF InOnePlace
    <3>3. Places(w)' \subseteq Places(w) \ {<<"job", j>>}
      BY <1>0, <2>1, <3>2 DEF Places, Open, QueueTypeOK
    <3>4. Places(w)' = {}
      BY <3>1, <3>3 DEF InOnePlace, AtMostOne
    <3>5. runs[w] = 0
      BY <1>0, <3>1 DEF InOnePlace
    <3>6. runs'[w] = 1
      BY <1>0, <2>1, <2>3, <3>5 DEF QueueTypeOK
    <3> QED
      BY <3>2, <3>4, <3>6 DEF InOnePlace, AtMostOne
  <2> QED
    BY <2>2, <2>3
<1>4. ASSUME NEW j \in Jobs, Complete(j) PROVE InOnePlace(w)'
  <2>1. /\ UNCHANGED <<letter, retry, runs, moving>>
        /\ \A i \in Jobs : i # j => job'[i] = job[i]
        /\ job'[j].work = job[j].work /\ ~ Open(j)'
    BY <1>0, <1>4 DEF Complete, Remains, Open, QueueTypeOK, queueHistory
  <2> QED
    BY <1>0, <2>1, JobStep
<1>5. ASSUME NEW j \in Jobs, Fail(j) PROVE InOnePlace(w)'
  <2> DEFINE n == job[j].made + 1
  <2>1. /\ UNCHANGED <<letter, retry, runs>> /\ Is(j, "active")
        /\ \A i \in Jobs : i # j => job'[i] = job[i]
        /\ job'[j].work = job[j].work
        /\ job'[j].state = IF n >= Attempts THEN "failed" ELSE "delayed"
        /\ moving' = IF n >= Attempts /\ wired THEN moving \cup {j} ELSE moving
        /\ job[j].ran => job[j].work \in disturbed'
    BY <1>0, <1>5, LiveJobs DEF Fail, OnJobFailed, Exhausted, Is, Live, QueueTypeOK
  <2>2. CASE job[j].work # w
    BY <1>0, <2>1, <2>2, JobStep
  <2>3. CASE job[j].work = w
    <3>1. ~ job[j].ran /\ Open(j)
      BY <2>1, <2>3 DEF Undisturbed, Open, Is
    <3>2. CASE moving' = moving
      BY <1>0, <2>1, <3>1, <3>2, JobStep
    <3>3. CASE moving' = moving \cup {j} /\ n >= Attempts
      <4>1. <<"job", j>> \in Places(w)
        BY <2>3, <3>1, PlacesOf
      <4>2. RetriesApart(w)' /\ \A d \in Letters : Safe(d)' <=> Safe(d)
        BY <2>1, ApartKept DEF InOnePlace
      <4>3. ~ Open(j)'
        BY <2>1, <3>3 DEF Open
      <4>4. Places(w)' \subseteq (Places(w) \ {<<"job", j>>}) \cup {<<"move", j>>}
        BY <1>0, <2>1, <3>3, <4>2, <4>3 DEF Places, Open, QueueTypeOK
      <4> QED
        BY <1>0, <2>1, <4>1, <4>2, <4>4, Jump
    <3> QED
      BY <2>1, <3>2, <3>3
  <2> QED
    BY <2>2, <2>3
<1>6. ASSUME NEW j \in Jobs, Stall(j) PROVE InOnePlace(w)'
  <2>1. /\ UNCHANGED <<letter, retry, runs>>
        /\ \A i \in Jobs : i # j => job'[i] = job[i]
        /\ job'[j].work = job[j].work /\ moving' \subseteq moving \cup {j}
        /\ job[j].work \in disturbed'
    BY <1>0, <1>6, LiveJobs DEF Stall, OnJobFailed, Is, Live, QueueTypeOK
  <2>2. job[j].work # w
    BY <2>1 DEF Undisturbed
  <2> QED
    BY <1>0, <2>1, <2>2, JobStep
<1>7. ASSUME NEW j \in Jobs, NEW d \in Letters, MoveToDeadLetterQueue(j, d)
      PROVE  InOnePlace(w)'
  <2>1. /\ UNCHANGED <<job, retry, runs>> /\ j \in moving /\ moving' = moving \ {j}
        /\ letter[d] = Unused
        /\ letter' = [letter EXCEPT ![d] = [state |-> "dead", work |-> job[j].work, job |-> j]]
    BY <1>7 DEF MoveToDeadLetterQueue, Fresh, queueHistory
  <2>2. \A r \in Retriers : retry[r].pc # "idle" => retry[r].letter # d /\ retry[r].letter \in Letters
    BY <1>0, <2>1 DEF QueueTypeOK, Quiet
  <2>3. RetriesApart(w)'
    BY <1>0, <2>1, <2>2 DEF InOnePlace, RetriesApart, Retrying, Dead, QueueTypeOK
  <2>4. \A e \in Letters : e # d => (Safe(e)' <=> Safe(e)) /\ letter'[e] = letter[e]
    BY <1>0, <2>1 DEF Safe, Dead, About, QueueTypeOK
  <2>5. CASE job[j].work = w
    <3>1. <<"move", j>> \in Places(w)
      BY <2>1, <2>5, PlacesOf
    <3>2. Places(w)' \subseteq (Places(w) \ {<<"move", j>>}) \cup {<<"letter", d>>}
      BY <2>1, <2>4 DEF Places, Open
    <3> QED
      BY <1>0, <2>1, <2>3, <3>1, <3>2, Jump
  <2>6. CASE job[j].work # w
    <3>1. letter'[d].work # w
      BY <1>0, <2>1, <2>6 DEF QueueTypeOK
    <3>2. Places(w)' \subseteq Places(w)
      BY <2>1, <2>4, <3>1 DEF Places, Open
    <3> QED
      BY <2>1, <2>3, <3>2 DEF InOnePlace, AtMostOne
  <2> QED
    BY <2>5, <2>6
<1>8. ASSUME NEW j \in Jobs, FailToMove(j) PROVE InOnePlace(w)'
  BY <1>8, Shrink DEF FailToMove, Open, queueHistory
<1>9. ASSUME NEW j \in Jobs, RetryJob(j) PROVE InOnePlace(w)'
  <2>1. /\ UNCHANGED <<letter, retry, runs, moving>>
        /\ job[j].work \in byHand' /\ Is(j, "failed") /\ Becomes(j, "waiting")
    BY <1>9 DEF RetryJob
  <2>2. /\ \A i \in Jobs : i # j => job'[i] = job[i]
        /\ job'[j].work = job[j].work
    BY <1>0, <2>1, LiveJobs DEF Becomes, QueueTypeOK, Live, Is
  <2>3. job[j].work # w
    BY <2>1 DEF Undisturbed
  <2> QED
    BY <1>0, <2>1, <2>2, <2>3, JobStep
<1>10. ASSUME NEW S \in SUBSET Jobs, RemoveAll(S) PROVE InOnePlace(w)'
  <2>1. /\ UNCHANGED <<letter, retry, runs, moving>>
        /\ \A i \in Jobs : job'[i].work = job[i].work /\ (Open(i)' => Open(i))
    BY <1>10 DEF RemoveAll, Remains, Open
  <2> QED
    BY <1>0, <2>1, Shrink DEF QueueTypeOK
<1>11. ASSUME NEW r \in Retriers, NEW d \in Letters, BeginRetry(r, d) PROVE InOnePlace(w)'
  <2>1. /\ UNCHANGED <<job, letter, moving, runs>> /\ retry[r] = Quiet /\ Dead(d)
        /\ retry' = [retry EXCEPT ![r] = [pc |-> "add", letter |-> d]]
        /\ About(d) = {} \/ letter[d].work # w
    BY <1>11 DEF BeginRetry, RetryBecomes, Undisturbed
  <2>2. \A e \in Letters : Safe(e)' => Safe(e)
    BY <1>0, <2>1 DEF Safe, Dead, About, QueueTypeOK, Quiet
  <2>3. Places(w)' \subseteq Places(w)
    BY <2>1, <2>2 DEF Places, Open
  <2>4. RetriesApart(w)'
    BY <1>0, <2>1 DEF InOnePlace, RetriesApart, Retrying, Dead, About, QueueTypeOK
  <2> QED
    BY <2>1, <2>3, <2>4 DEF InOnePlace, AtMostOne
<1>12. ASSUME NEW r \in Retriers, NEW j \in Jobs, AddBack(r, j) PROVE InOnePlace(w)'
  <2>0. retry[r].letter \in Letters
    BY <1>0, <1>12 DEF AddBack, RemoveLetter, QueueTypeOK, Quiet
  <2>2. PICK d \in Letters : retry[r].letter = d
    BY <2>0
  <2>1. /\ UNCHANGED <<letter, moving, runs>> /\ retry[r].pc = "add" /\ job[j] = Unused
        /\ d \in Letters /\ retry' = [retry EXCEPT ![r] = [pc |-> "remove", letter |-> d]]
        /\ job' = [job EXCEPT ![j] = NewJob(letter[d].work)]
    BY <1>0, <1>12, <2>2 DEF AddBack, Fresh, RetryBecomes, QueueTypeOK, Quiet, queueHistory
  <2>3. RetriesApart(w)'
    BY <1>0, <2>1, <2>2 DEF InOnePlace, RetriesApart, Retrying, Dead, QueueTypeOK
  <2>4. ~ Safe(d)' /\ \A e \in Letters : e # d => (Safe(e)' <=> Safe(e))
    <3>1. /\ \A q \in Retriers : q # r => retry'[q] = retry[q]
          /\ retry'[r].pc = "remove" /\ retry'[r].letter = d
      BY <1>0, <2>1 DEF QueueTypeOK
    <3>2. ~ Safe(d)'
      BY <3>1 DEF Safe, About
    <3>3. ASSUME NEW e \in Letters, e # d
          PROVE  About(e)' = About(e) /\ \A q \in About(e) : retry'[q] = retry[q]
      BY <2>2, <3>1, <3>3 DEF About
    <3> QED
      BY <2>1, <3>2, <3>3 DEF Safe, Dead
  <2>5. j \notin moving
    BY <1>0, <2>1 DEF Known
  <2>6. /\ \A i \in Jobs : i # j => job'[i] = job[i]
        /\ \A e \in Letters : Safe(e)' => e # d /\ Safe(e)
    BY <1>0, <2>1, <2>4 DEF QueueTypeOK
  <2>7. CASE letter[d].work = w
    <3>1. Safe(d)
      BY <1>0, <2>1, <2>2, <2>7 DEF InOnePlace, RetriesApart, Retrying, Safe, About
    <3>2. <<"letter", d>> \in Places(w)
      BY <2>1, <2>7, <3>1, PlacesOf
    <3>3. Places(w)' \subseteq (Places(w) \ {<<"letter", d>>}) \cup {<<"job", j>>}
      BY <1>0, <2>1, <2>4, <2>5, <2>6 DEF Places, Open, QueueTypeOK
    <3> QED
      BY <1>0, <2>1, <2>3, <3>2, <3>3, Jump
  <2>8. CASE letter[d].work # w
    <3>1. job'[j].work # w
      BY <1>0, <2>1, <2>8 DEF NewJob, QueueTypeOK
    <3>2. Places(w)' \subseteq Places(w)
      BY <1>0, <2>1, <2>4, <2>5, <2>6, <3>1 DEF Places, Open, QueueTypeOK
    <3> QED
      BY <2>1, <2>3, <3>2 DEF InOnePlace, AtMostOne
  <2> QED
    BY <2>7, <2>8
<1>13. ASSUME NEW r \in Retriers, RemoveLetter(r) PROVE InOnePlace(w)'
  <2>0. retry[r].letter \in Letters
    BY <1>0, <1>13 DEF AddBack, RemoveLetter, QueueTypeOK, Quiet
  <2>2. PICK d \in Letters : retry[r].letter = d
    BY <2>0
  <2>1. /\ UNCHANGED <<job, moving, runs>> /\ retry[r].pc = "remove"
        /\ d \in Letters /\ letter[d] # Unused
        /\ retry' = [retry EXCEPT ![r] = Quiet]
        /\ letter' = [letter EXCEPT ![d].state = "gone"]
    BY <1>0, <1>13, <2>2 DEF RemoveLetter, RetryBecomes, QueueTypeOK, Quiet, queueHistory
  <2>3. /\ letter'[d].work = letter[d].work /\ letter'[d].state = "gone"
        /\ \A e \in Letters : e # d => letter'[e] = letter[e]
    BY <1>0, <2>1 DEF QueueTypeOK
  <2>4. /\ \A q \in Retriers : q # r => retry'[q] = retry[q]
        /\ retry'[r].pc = "idle"
    BY <1>0, <2>1 DEF QueueTypeOK, Quiet
  <2>5. RetriesApart(w)'
    <3>1. ASSUME NEW q \in Retriers, Retrying(q, w)' PROVE q # r /\ Retrying(q, w) /\ Dead(retry[q].letter)'
      <4>1. q # r /\ retry'[q] = retry[q] /\ retry[q].pc # "idle" /\ retry[q].letter \in Letters
        BY <1>0, <2>4, <3>1 DEF Retrying, QueueTypeOK, Quiet
      <4>2. Retrying(q, w)
        BY <2>3, <3>1, <4>1 DEF Retrying
      <4>3. retry[q].letter # d
        BY <2>1, <2>2, <4>1, <4>2 DEF InOnePlace, RetriesApart, Retrying
      <4> QED
        BY <2>3, <4>1, <4>2, <4>3 DEF InOnePlace, RetriesApart, Dead
    <3> QED
      BY <2>4, <3>1 DEF InOnePlace, RetriesApart
  <2>6. ~ Safe(d)' /\ \A e \in Letters : e # d => (Safe(e)' <=> Safe(e))
    <3>1. ASSUME NEW e \in Letters, e # d
          PROVE  About(e)' = About(e) /\ \A q \in About(e) : retry'[q] = retry[q]
      BY <2>1, <2>2, <2>4, <3>1 DEF About
    <3>2. ~ Safe(d)'
      BY <2>3 DEF Safe, Dead
    <3> QED
      BY <2>3, <3>1, <3>2 DEF Safe, Dead
  <2>7. Places(w)' \subseteq Places(w)
    <3>1. \A e \in Letters : Safe(e)' => Safe(e) /\ letter'[e].work = letter[e].work
      BY <2>3, <2>6
    <3> QED
      BY <2>1, <3>1 DEF Places, Open
  <2> QED
    BY <2>1, <2>5, <2>7 DEF InOnePlace, AtMostOne
<1>14. ASSUME NEW r \in Retriers, AbortRetry(r) PROVE InOnePlace(w)'
  <2> DEFINE d == retry[r].letter
  <2>1. /\ UNCHANGED <<job, letter, moving, runs>>
        /\ retry' = [retry EXCEPT ![r] = Quiet]
        /\ retry[r].pc = "remove" => letter[d].work # w
    BY <1>14 DEF AbortRetry, RetryBecomes, Undisturbed
  <2>2. /\ \A q \in Retriers : q # r => retry'[q] = retry[q]
        /\ retry'[r].pc = "idle"
    BY <1>0, <2>1 DEF QueueTypeOK, Quiet
  <2>3. RetriesApart(w)'
    BY <2>1, <2>2 DEF InOnePlace, RetriesApart, Retrying, Dead
  <2>4. \A e \in Letters : letter[e].work = w /\ Safe(e)' => Safe(e)
    BY <2>1, <2>2 DEF Safe, Dead, About
  <2>5. Places(w)' \subseteq Places(w)
    BY <2>1, <2>4 DEF Places, Open
  <2> QED
    BY <2>1, <2>3, <2>5 DEF InOnePlace, AtMostOne
<1>15. CASE UNCHANGED queueVars
  BY <1>15, Shrink DEF queueVars, queueHistory, Open
<1>16. ASSUME NEW j \in Jobs, RemoveJob(j) PROVE InOnePlace(w)'
  BY <1>10, <1>16 DEF RemoveJob
<1>17. ASSUME EmptyQueue \/ CleanFailedJobs PROVE InOnePlace(w)'
  BY <1>10, <1>17 DEF EmptyQueue, CleanFailedJobs, InStates
<1> QED
  BY <1>1, <1>2, <1>3, <1>4, <1>5, <1>6, <1>7, <1>8, <1>9, <1>11, <1>12, <1>13, <1>14, <1>15, <1>16,
     <1>17 DEF QueueNext

\* What has been disturbed stays so.
LEMMA DisturbedGrows == [QueueNext]_queueVars => \A w : Undisturbed(w)' => Undisturbed(w)
  BY DEF QueueNext, AddJob, Take, Perform, Complete, Fail, Stall, MoveToDeadLetterQueue, FailToMove,
     Promote, RetryJob, RemoveJob, RemoveAll, EmptyQueue, CleanFailedJobs, BeginRetry, AddBack,
     RemoveLetter, AbortRetry, queueVars, queueHistory, Undisturbed

\* Whatever fails, is retried or removed, work is done once, but for the disturbances that
\* the code cannot tell from a failure.
THEOREM DoneOnlyOnce == QueueSpec => []DoneOnce
<1>1. IInv /\ IInv' /\ OnceInv /\ [QueueNext]_queueVars => OnceInv'
  BY AddedStep, PlaceStep, DisturbedGrows DEF OnceInv, IInv
<1>2. OnceInv => DoneOnce
  BY DEF OnceInv, InOnePlace, DoneOnce, Undisturbed
<1> QED
  BY <1>1, <1>2, InitOnce, Invariance, PTL DEF QueueSpec
=============================================================================
