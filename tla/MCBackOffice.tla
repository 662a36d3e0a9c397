---------------------------- MODULE MCBackOffice ----------------------------
(***************************************************************************)
(* The staff of an organization, the password of one of its accounts, and  *)
(* a job queue.  They write different tables and columns, and are looked   *)
(* at one at a time.                                                       *)
(***************************************************************************)
EXTENDS Staff, JobQueue, PasswordHistory, TLC

VARIABLE area

\* What a behaviour does not look at starts in one way only.
MCInit ==
    /\ area \in {"staff", "password", "jobs"}
    /\ Init /\ PwInit /\ QueueInit
    /\ area = "password" \/ (hasProfile /\ current = CHOOSE w \in Passwords : TRUE)
    /\ area = "jobs" \/ wired

MCNext ==
    /\ UNCHANGED area
    /\ \/ area = "staff" /\ Next /\ UNCHANGED <<pwVars, queueVars>>
       \/ area = "password" /\ PwNext /\ UNCHANGED <<vars, queueVars>>
       \/ area = "jobs" /\ QueueNext /\ UNCHANGED <<vars, pwVars>>

MCSpec == MCInit /\ [][MCNext]_<<area, vars, pwVars, queueVars>>

\* Units are interchangeable, and so are requests: the three areas use the same ones.
Symmetry == Permutations(Procs) \cup Permutations(Branches)
=============================================================================
