--------------------------- MODULE LoginLifecycle ---------------------------
(***************************************************************************)
(* What a user may expect of a sign-in: it begins once, lasts until it is  *)
(* ended, and is never revived.  Sessions, tokens and requests are not     *)
(* mentioned; SessionTokens says how they make up a sign-in.               *)
(***************************************************************************)
CONSTANTS
    SignIns,  \* the sign-ins there may be
    Lossy     \* may one end although nobody asked for it?

VARIABLES
    status,   \* per sign-in: "none", "live" or "over"
    asked     \* the sign-ins somebody asked to end

lifecycleVars == <<status, asked>>

LifecycleInit == status = [l \in SignIns |-> "none"] /\ asked = {}

Begin(l) ==
    /\ status[l] = "none"
    /\ status' = [status EXCEPT ![l] = "live"]
    /\ UNCHANGED asked

\* One request asks to end the sign-ins S, and those of T do end.  Being asked
\* for is not enough: a refresh under way may keep one of S.
End(S, T) ==
    /\ asked' = asked \cup S
    /\ T \subseteq asked' \/ Lossy
    /\ status' = [l \in SignIns |-> IF l \in T THEN "over" ELSE status[l]]

LifecycleNext ==
    \/ \E l \in SignIns : Begin(l)
    \/ \E S \in SUBSET {l \in SignIns : status[l] # "none"},
          T \in SUBSET {l \in SignIns : status[l] = "live"} : End(S, T)

LifecycleSpec == LifecycleInit /\ [][LifecycleNext]_lifecycleVars
=============================================================================
