------------------------ MODULE PasswordHistoryProofs ------------------------
(***************************************************************************)
(* The reuse of passwords, for any number of overlapping changes, any      *)
(* passwords and any number of changes.                                    *)
(***************************************************************************)
EXTENDS PasswordHistory, SequenceTheorems, TLAPS

-----------------------------------------------------------------------------
(* The newest entries of a sequence                                        *)

LEMMA NewestProperties ==
  ASSUME NEW s \in Seq(Passwords)
  PROVE  /\ NewestOf(s) \in Seq(Passwords)
         /\ Len(NewestOf(s)) = IF Len(s) < Depth THEN Len(s) ELSE Depth
         /\ \A i \in 1 .. Len(NewestOf(s)) : NewestOf(s)[i] = s[i]
         /\ Range(NewestOf(s)) \subseteq Range(s)
<1> DEFINE n == IF Len(s) < Depth THEN Len(s) ELSE Depth
<1>1. n \in Nat /\ n <= Len(s) /\ \A i \in 1 .. n : s[i] \in Passwords
  BY ElementOfSeq DEF Depth
<1>2. /\ NewestOf(s) \in Seq(Passwords) /\ Len(NewestOf(s)) = n
      /\ \A i \in 1 .. n : NewestOf(s)[i] = s[i]
  <2>1. 1 \in Int /\ n \in Int
    BY <1>1
  <2> HIDE DEF n
  <2>2. /\ SubSeq(s, 1, n) \in Seq(Passwords)
        /\ Len(SubSeq(s, 1, n)) = IF 1 <= n THEN n - 1 + 1 ELSE 0
        /\ \A i \in 1 .. n - 1 + 1 : SubSeq(s, 1, n)[i] = s[1 + i - 1]
    BY <1>1, <2>1, SubSeqProperties
  <2>3. NewestOf(s) = SubSeq(s, 1, n)
    BY DEF NewestOf, n
  <2> QED
    BY <1>1, <2>2, <2>3
<1>3. Range(NewestOf(s)) \subseteq Range(s)
  BY <1>1, <1>2 DEF Range
<1> QED
  BY <1>2, <1>3

LEMMA PrefixedBy ==
  ASSUME NEW x \in Passwords, NEW s \in Seq(Passwords)
  PROVE  /\ <<x>> \o s \in Seq(Passwords) /\ Len(<<x>> \o s) = Len(s) + 1
         /\ \A i \in 1 .. Len(s) + 1 : (<<x>> \o s)[i] = IF i = 1 THEN x ELSE s[i - 1]
         /\ Range(<<x>> \o s) = {x} \cup Range(s)
<1>1. <<x>> \in Seq(Passwords) /\ Len(<<x>>) = 1 /\ <<x>>[1] = x
  OBVIOUS
<1>2. /\ <<x>> \o s \in Seq(Passwords) /\ Len(<<x>> \o s) = 1 + Len(s)
      /\ \A i \in 1 .. 1 + Len(s) : (<<x>> \o s)[i] = IF i <= 1 THEN <<x>>[i] ELSE s[i - 1]
  BY <1>1, ConcatProperties
<1>3. \A i \in 1 .. Len(s) + 1 : (<<x>> \o s)[i] = IF i = 1 THEN x ELSE s[i - 1]
  BY <1>1, <1>2
<1>4. DOMAIN (<<x>> \o s) = 1 .. Len(s) + 1 /\ DOMAIN s = 1 .. Len(s)
  BY <1>2
<1>5. Range(<<x>> \o s) \subseteq {x} \cup Range(s)
  BY <1>3, <1>4 DEF Range
<1>6. ASSUME NEW y \in {x} \cup Range(s) PROVE y \in Range(<<x>> \o s)
  <2>1. CASE y = x
    BY <1>3, <1>4, <2>1 DEF Range
  <2>2. CASE y \in Range(s)
    <3>1. PICK i \in 1 .. Len(s) : y = s[i]
      BY <1>4, <2>2 DEF Range
    <3>2. i + 1 \in 1 .. Len(s) + 1 /\ (<<x>> \o s)[i + 1] = y
      BY <1>3, <3>1
    <3> QED
      BY <1>4, <3>2 DEF Range
  <2> QED
    BY <1>6, <2>1, <2>2
<1> QED
  BY <1>2, <1>3, <1>5, <1>6

\* Remembering one more in a shortened history is as good as in the whole one.
LEMMA NewestOfNewest ==
  ASSUME NEW x \in Passwords, NEW s \in Seq(Passwords)
  PROVE  NewestOf(<<x>> \o NewestOf(s)) = NewestOf(<<x>> \o s)
<1>1. /\ NewestOf(s) \in Seq(Passwords)
      /\ Len(NewestOf(s)) = IF Len(s) < Depth THEN Len(s) ELSE Depth
      /\ \A i \in 1 .. Len(NewestOf(s)) : NewestOf(s)[i] = s[i]
  BY NewestProperties
<1> DEFINE a == <<x>> \o NewestOf(s)
           b == <<x>> \o s
<1>2. /\ a \in Seq(Passwords) /\ Len(a) = Len(NewestOf(s)) + 1
      /\ \A i \in 1 .. Len(a) : a[i] = IF i = 1 THEN x ELSE NewestOf(s)[i - 1]
  BY <1>1, PrefixedBy
<1>3. /\ b \in Seq(Passwords) /\ Len(b) = Len(s) + 1
      /\ \A i \in 1 .. Len(b) : b[i] = IF i = 1 THEN x ELSE s[i - 1]
  BY PrefixedBy
<1> HIDE DEF a, b
<1>4. /\ NewestOf(a) \in Seq(Passwords) /\ NewestOf(b) \in Seq(Passwords)
      /\ Len(NewestOf(a)) = IF Len(a) < Depth THEN Len(a) ELSE Depth
      /\ Len(NewestOf(b)) = IF Len(b) < Depth THEN Len(b) ELSE Depth
      /\ \A i \in 1 .. Len(NewestOf(a)) : NewestOf(a)[i] = a[i]
      /\ \A i \in 1 .. Len(NewestOf(b)) : NewestOf(b)[i] = b[i]
  BY <1>2, <1>3, NewestProperties
<1>5. Len(s) \in Nat /\ Depth = 3
  BY DEF Depth
<1>6. Len(NewestOf(a)) = Len(NewestOf(b))
  BY <1>1, <1>2, <1>3, <1>4, <1>5
<1>7. ASSUME NEW i \in 1 .. Len(NewestOf(a)) PROVE NewestOf(a)[i] = NewestOf(b)[i]
  <2>1. i \in 1 .. Len(a) /\ i \in 1 .. Len(b) /\ i <= Depth
    BY <1>1, <1>2, <1>3, <1>4, <1>5, <1>6
  <2>2. i # 1 => i - 1 \in 1 .. Len(NewestOf(s))
    BY <1>1, <1>2, <1>5, <2>1
  <2>3. a[i] = b[i]
    BY <1>1, <1>2, <1>3, <2>1, <2>2
  <2> QED
    BY <1>4, <1>6, <2>3
<1>8. NewestOf(a) = NewestOf(b)
  BY <1>4, <1>6, <1>7, SeqEqual
<1> QED
  BY <1>8 DEF a, b

-----------------------------------------------------------------------------
(* The invariant                                                           *)

Change == [pc : {"idle", "reuse", "commit"}, hash : Passwords, new : Passwords]

PwTypeOK ==
    /\ hasProfile \in BOOLEAN /\ current \in Passwords
    /\ kept \in Seq(Passwords) /\ past \in Seq(Passwords)
    /\ change \in [Requests -> Change] /\ overlapping \in BOOLEAN

Changing(r) == change[r].pc # "idle"

\* The hash a change has read was once the password.
HashesKnown == \A r \in Requests : Changing(r) => change[r].hash \in {current} \cup Range(past)

\* A change that is alone has read what is still there.
Undisturbed ==
    ~ overlapping =>
        /\ \A r, q \in Requests : Changing(r) /\ Changing(q) => r = q
        /\ \A r \in Requests : Changing(r) => change[r].hash = current
        /\ \A r \in Requests : change[r].pc = "commit" => ~ Reused(change[r].new)

PwInv == PwTypeOK /\ HashesKnown /\ Undisturbed /\ HistoryIsGenuine /\ NoRecentReuse

LEMMA InitPwInv == PwInit => PwInv
<1> SUFFICES ASSUME PwInit PROVE PwInv
  OBVIOUS
<1>1. <<>> \in Seq(Passwords) /\ Len(<<>>) = 0 /\ Range(<<>>) = {}
  BY DEF Range
<1>2. PwTypeOK
  BY <1>1 DEF PwInit, PwTypeOK, Change, Rested
<1>3. HashesKnown /\ Undisturbed
  BY DEF PwInit, HashesKnown, Undisturbed, Changing, Rested
<1>4. NewestOf(<<>>) = SubSeq(<<>>, 1, 0)
  BY <1>1 DEF NewestOf, Depth
<1>5. NewestOf(<<>>) = <<>> /\ Range(NewestOf(<<>>)) = {}
  <2>1. SubSeq(<<>>, 1, 0) = <<>>
    BY SubSeqEmpty
  <2> QED
    BY <1>1, <1>4, <2>1
<1>6. HistoryIsGenuine /\ NoRecentReuse
  BY <1>1, <1>5 DEF PwInit, HistoryIsGenuine, NoRecentReuse
<1> QED
  BY <1>2, <1>3, <1>6 DEF PwInv

\* A step that leaves the account alone.
LEMMA AccountUntouched ==
  ASSUME PwInv, UNCHANGED <<hasProfile, current, kept, past>>,
         change' \in [Requests -> Change], overlapping' \in BOOLEAN, HashesKnown', Undisturbed',
         ~ overlapping' => ~ overlapping
  PROVE  PwInv'
  BY DEF PwInv, PwTypeOK, HistoryIsGenuine, NoRecentReuse

LEMMA PwInvInductive == PwInv /\ [PwNext]_pwVars => PwInv'
<1> SUFFICES ASSUME PwInv, [PwNext]_pwVars PROVE PwInv'
  OBVIOUS
<1>0. PwTypeOK /\ HashesKnown /\ Undisturbed /\ HistoryIsGenuine /\ NoRecentReuse
  BY DEF PwInv
<1>1. ASSUME NEW r \in Requests, NEW given \in Passwords, NEW new \in Passwords,
             BeginChange(r, given, new)
      PROVE  PwInv'
  <2>1. /\ UNCHANGED <<hasProfile, current, kept, past>> /\ ~ Changing(r)
        /\ change' = [change EXCEPT ![r] = [pc |-> "reuse", hash |-> current, new |-> new]]
        /\ overlapping' = (overlapping \/ \E o \in Requests : Changing(o))
    BY <1>1 DEF BeginChange, Changing
  <2>2. change' \in [Requests -> Change] /\ overlapping' \in BOOLEAN
    BY <1>0, <2>1 DEF PwTypeOK, Change
  <2>3. HashesKnown'
    BY <1>0, <2>1 DEF PwTypeOK, HashesKnown, Changing
  <2>4. Undisturbed'
    BY <1>0, <2>1 DEF PwTypeOK, Undisturbed, Changing, Reused
  <2> QED
    BY <2>1, <2>2, <2>3, <2>4, AccountUntouched
<1>2. ASSUME NEW r \in Requests, CheckReuse(r) PROVE PwInv'
  <2>1. UNCHANGED <<hasProfile, current, kept, past, overlapping>> /\ Changing(r)
    BY <1>2 DEF CheckReuse, Changing
  <2>2. CASE Reused(change[r].new)
    <3>1. change' = [change EXCEPT ![r] = Rested(change[r].hash)]
      BY <1>2, <2>2 DEF CheckReuse, Ends
    <3>2. change' \in [Requests -> Change] /\ overlapping' \in BOOLEAN
      BY <1>0, <2>1, <3>1 DEF PwTypeOK, Change, Rested
    <3>3. HashesKnown' /\ Undisturbed'
      BY <1>0, <2>1, <3>1 DEF PwTypeOK, HashesKnown, Undisturbed, Changing, Reused, Rested
    <3> QED
      BY <2>1, <3>2, <3>3, AccountUntouched
  <2>3. CASE ~ Reused(change[r].new)
    <3>1. change' = [change EXCEPT ![r].pc = "commit"]
      BY <1>2, <2>3 DEF CheckReuse
    <3>2. change' \in [Requests -> Change] /\ overlapping' \in BOOLEAN
      BY <1>0, <2>1, <3>1 DEF PwTypeOK, Change
    <3>3. HashesKnown' /\ Undisturbed'
      BY <1>0, <2>1, <2>3, <3>1 DEF PwTypeOK, Change, HashesKnown, Undisturbed, Changing, Reused
    <3> QED
      BY <2>1, <3>2, <3>3, AccountUntouched
  <2> QED
    BY <2>2, <2>3
<1>3. ASSUME NEW r \in Requests, Commit(r) PROVE PwInv'
  <2>1. /\ UNCHANGED <<hasProfile, overlapping>> /\ change[r].pc = "commit" /\ Changing(r)
        /\ change' = [change EXCEPT ![r] = Rested(change[r].hash)]
    BY <1>3 DEF Commit, Ends, Changing
  <2>2. change' \in [Requests -> Change] /\ overlapping' \in BOOLEAN
    BY <1>0, <2>1 DEF PwTypeOK, Change, Rested
  <2>3. /\ change[r].hash \in Passwords /\ change[r].new \in Passwords
        /\ change[r].hash \in {current} \cup Range(past)
    BY <1>0, <2>1 DEF PwTypeOK, Change, HashesKnown
  <2>4. CASE ~ hasProfile
    <3>1. UNCHANGED <<hasProfile, current, kept, past>>
      BY <1>3, <2>4 DEF Commit
    <3>2. HashesKnown' /\ Undisturbed'
      BY <1>0, <2>1, <3>1 DEF PwTypeOK, HashesKnown, Undisturbed, Changing, Reused, Rested
    <3> QED
      BY <2>1, <2>2, <3>1, <3>2, AccountUntouched
  <2>5. CASE hasProfile
    <3>1. /\ kept' = NewestOf(<<change[r].hash>> \o kept)
          /\ current' = change[r].new /\ past' = <<current>> \o past
      BY <1>3, <2>5 DEF Commit, Remember
    <3>2. /\ past' \in Seq(Passwords) /\ Range(past') = {current} \cup Range(past)
          /\ <<change[r].hash>> \o kept \in Seq(Passwords)
          /\ Range(<<change[r].hash>> \o kept) = {change[r].hash} \cup Range(kept)
      BY <1>0, <2>3, <3>1, PrefixedBy DEF PwTypeOK
    <3>3. kept' \in Seq(Passwords) /\ Range(kept') \subseteq {change[r].hash} \cup Range(kept)
      BY <3>1, <3>2, NewestProperties
    <3>4. PwTypeOK'
      BY <1>0, <2>1, <2>2, <2>3, <3>1, <3>2, <3>3 DEF PwTypeOK
    <3>5. HashesKnown'
      BY <1>0, <2>1, <3>1, <3>2 DEF PwTypeOK, HashesKnown, Changing, Rested
    <3>6. ASSUME NEW q \in Requests, Changing(q)', ~ overlapping PROVE FALSE
      BY <1>0, <2>1, <3>6 DEF PwTypeOK, Undisturbed, Changing, Rested
    <3>7. Undisturbed'
      BY <2>1, <3>6 DEF Undisturbed, Changing
    <3>8. Range(kept') \subseteq Range(past')
      BY <1>0, <2>3, <3>2, <3>3 DEF HistoryIsGenuine
    <3>9. ASSUME ~ overlapping
          PROVE  kept' = NewestOf(past') /\ current' \notin Range(NewestOf(past'))
      <4>1. change[r].hash = current /\ change[r].new \notin {current} \cup Range(kept)
        BY <1>0, <2>1, <3>9 DEF Undisturbed, Reused
      <4>2. kept = NewestOf(past)
        BY <1>0, <3>9 DEF HistoryIsGenuine
      <4>3. kept' = NewestOf(past')
        BY <1>0, <3>1, <4>1, <4>2, NewestOfNewest DEF PwTypeOK
      <4> QED
        BY <3>1, <3>3, <4>1, <4>3
    <3> QED
      BY <2>1, <3>4, <3>5, <3>7, <3>8, <3>9 DEF PwInv, HistoryIsGenuine, NoRecentReuse
  <2> QED
    BY <1>0, <2>4, <2>5 DEF PwTypeOK
<1>4. CASE UNCHANGED pwVars
  BY <1>0, <1>4 DEF pwVars, PwInv, PwTypeOK, HashesKnown, Undisturbed, HistoryIsGenuine,
                    NoRecentReuse, Changing, Reused
<1> QED
  BY <1>1, <1>2, <1>3, <1>4 DEF PwNext

LEMMA Invariance == PwSpec => []PwInv
  BY InitPwInv, PwInvInductive, PTL DEF PwSpec

\* No password returns before three others have been used, as long as changes do not
\* overlap: what is forgotten of the history is not among the last three (changePassword and
\* checkPasswordReuse, user.service.ts).
THEOREM RecentStayBarred == PwSpec => []NoRecentReuse
<1>1. PwInv => NoRecentReuse
  BY DEF PwInv
<1> QED
  BY <1>1, Invariance, PTL

\* Every hash in the history was once the password, whatever overlaps, and changes that do
\* not overlap leave exactly the last three (changePassword, user.service.ts).
THEOREM HistoryHolds == PwSpec => []HistoryIsGenuine
<1>1. PwInv => HistoryIsGenuine
  BY DEF PwInv
<1> QED
  BY <1>1, Invariance, PTL
====
