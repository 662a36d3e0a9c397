--------------------------- MODULE PasswordHistory ---------------------------
(***************************************************************************)
(* changePassword of modules/user/user.service.ts for one account, and the *)
(* history of old passwords it keeps in the metadata of the staff profile. *)
(*                                                                         *)
(* A password stands for its hash: bcrypt tells equal ones from others.    *)
(* The sessions the transaction revokes are the business of SessionTokens. *)
(***************************************************************************)
EXTENDS Naturals, Sequences, SequencesExt

CONSTANTS
    Requests,  \* requests in flight
    Passwords, \* those strong enough to be accepted
    MaxChanges \* bound on the changes that are committed

VARIABLES
    hasProfile, \* users made by createManager or createWorker have a staff profile;
                \* the owner registerOwner makes has none
    current,    \* passwordHash
    kept,       \* metadata.passwordHistory, the newest first
    change,     \* per request: its next await and what it has read
    past,       \* history: every earlier password, the newest first
    overlapping \* history: two changes have overlapped

pwVars == <<hasProfile, current, kept, change, past, overlapping>>

Rested(p) == [pc |-> "idle", hash |-> p, new |-> p]
Depth == 3
NewestOf(s) == SubSeq(s, 1, IF Len(s) < Depth THEN Len(s) ELSE Depth)

PwInit ==
    /\ hasProfile \in BOOLEAN /\ current \in Passwords
    /\ kept = <<>> /\ past = <<>>
    /\ change = [r \in Requests |-> Rested(current)]
    /\ overlapping = FALSE

Ends(r) == change' = [change EXCEPT ![r] = Rested(change[r].hash)]

\* The user is read and the password given compared with its hash; any other
\* password, and a new one that is too weak, are refused.
BeginChange(r, given, new) ==
    /\ change[r].pc = "idle" /\ Len(past) < MaxChanges
    /\ given = current
    /\ change' = [change EXCEPT ![r] = [pc |-> "reuse", hash |-> current, new |-> new]]
    /\ overlapping' = (overlapping \/ \E o \in Requests : change[o].pc # "idle")
    /\ UNCHANGED <<hasProfile, current, kept, past>>

\* Mutant: only the current password is compared.
ReusedCurrent(new) == new = current

\* The new password is the current one or one of those kept.
Reused(new) == new = current \/ new \in Range(kept)

\* checkPasswordReuse reads hash and history once more and compares.
CheckReuse(r) ==
    /\ change[r].pc = "reuse"
    /\ IF Reused(change[r].new) THEN Ends(r)
       ELSE change' = [change EXCEPT ![r].pc = "commit"]
    /\ UNCHANGED <<hasProfile, current, kept, past, overlapping>>

\* Mutant: the new hash is put into the history instead of the old one.
RememberNew(r) == NewestOf(<<change[r].new>> \o kept)

\* unshift and slice: the hash read at the start goes to the front.
Remember(r) == NewestOf(<<change[r].hash>> \o kept)

\* The transaction.  Updating a staff profile that does not exist throws, and the
\* transaction is rolled back.
Commit(r) ==
    /\ change[r].pc = "commit" /\ Len(past) < MaxChanges
    /\ IF hasProfile
       THEN /\ kept' = Remember(r)
            /\ current' = change[r].new
            /\ past' = <<current>> \o past
       ELSE UNCHANGED <<kept, current, past>>
    /\ Ends(r)
    /\ UNCHANGED <<hasProfile, overlapping>>

PwNext ==
    \E r \in Requests :
        \/ \E given \in Passwords, new \in Passwords : BeginChange(r, given, new)
        \/ CheckReuse(r) \/ Commit(r)

PwSpec == PwInit /\ [][PwNext]_pwVars

-----------------------------------------------------------------------------
(* Correctness                                                             *)

\* "Prevent password reuse (last 3 passwords)": no password returns before three
\* others have been used, as long as changes do not overlap.
NoRecentReuse ==
    ~ overlapping => current \notin Range(NewestOf(past))

\* Every hash in the history was once the password, whatever overlaps, and changes
\* that do not overlap leave exactly the last three there.
HistoryIsGenuine ==
    /\ Range(kept) \subseteq Range(past)
    /\ ~ overlapping => kept = NewestOf(past)
=============================================================================
