-------------------------- MODULE TransactionContext ------------------------
(***************************************************************************)
(* The Transaction decorator, transaction.decorator.ts: a decorated method *)
(* runs in a database transaction unless it finds one in the context.  The *)
(* context is a static variable and the transaction's client replaces the  *)
(* field prisma of the service, so that calls that overlap share both.     *)
(***************************************************************************)
EXTENDS FiniteSets

CONSTANTS
    TxCalls,  \* calls of decorated methods from outside, each with its own transaction
    Objects,  \* services with decorated methods
    Client    \* the prisma client itself, in whose place a transaction's may stand

VARIABLES
    context, \* currentTransaction, or "none"
    prisma,  \* per service: what its field prisma holds
    txCall,  \* per call: where it is, the service, and the client it has put aside
    wrote,   \* history, per call: the clients its statements went through
    crossed  \* history: two calls were on their way together

txVars == <<context, prisma, txCall, wrote, crossed>>

Done == [at |-> "done"]

TxInit ==
    /\ context = "none" /\ prisma = [o \in Objects |-> Client]
    /\ txCall = [c \in TxCalls |-> Done]
    /\ wrote = [c \in TxCalls |-> {}] /\ crossed = FALSE

TxAt(c, step) == txCall[c].at = step
Moves(c, r) == txCall' = [txCall EXCEPT ![c] = r]

\* The method is called; a call that finds a transaction runs in it, as one of its parts.
Call(c, o) ==
    /\ TxAt(c, "done")
    /\ Moves(c, [at |-> IF context = "none" THEN "begin" ELSE "inside", on |-> o,
                 client |-> prisma[o], aside |-> Client, own |-> context = "none"])
    /\ wrote' = [wrote EXCEPT ![c] = {}]
    /\ crossed' = (crossed \/ \E d \in TxCalls : ~ TxAt(d, "done"))
    /\ UNCHANGED <<context, prisma>>

\* $transaction calls back: the context is set and the field replaced.
TxBegin(c) ==
    LET o == txCall[c].on IN
    /\ TxAt(c, "begin") /\ txCall[c].client = Client
    /\ context' = c
    /\ prisma' = [prisma EXCEPT ![o] = c]
    /\ Moves(c, [txCall[c] EXCEPT !.at = "inside", !.aside = prisma[o]])
    /\ UNCHANGED <<wrote, crossed>>

\* $transaction fails before it calls back; or the field holds a transaction's client,
\* which cannot open another.
FailToBegin(c) ==
    /\ TxAt(c, "begin") /\ Moves(c, Done) /\ context' = "none"
    /\ UNCHANGED <<prisma, wrote, crossed>>

\* A statement of the method, or of a decorated method of the same service it calls.
Through(c) == wrote' = [wrote EXCEPT ![c] = @ \cup {prisma[txCall[c].on]}]

Write(c) == TxAt(c, "inside") /\ Through(c) /\ UNCHANGED <<context, prisma, txCall, crossed>>

\* Mutant: an error leaves the transaction's client in the field.
RestoreOnSuccess(c, failed) == IF failed THEN prisma[txCall[c].on] ELSE txCall[c].aside

\* "Restore original prisma instance"
Restore(c, failed) == txCall[c].aside

\* The method returns or throws.
Return(c, failed) ==
    /\ TxAt(c, "inside")
    /\ IF txCall[c].own
       THEN /\ prisma' = [prisma EXCEPT ![txCall[c].on] = Restore(c, failed)]
            /\ Moves(c, [txCall[c] EXCEPT !.at = "end"])
       ELSE Moves(c, Done) /\ UNCHANGED prisma
    /\ UNCHANGED <<context, wrote, crossed>>

\* Commit or rollback, then "Clean up transaction context".
End(c) ==
    /\ TxAt(c, "end") /\ Moves(c, Done) /\ context' = "none"
    /\ UNCHANGED <<prisma, wrote, crossed>>

TxNext ==
    \E c \in TxCalls :
        \/ \E o \in Objects : Call(c, o)
        \/ TxBegin(c) \/ FailToBegin(c) \/ Write(c) \/ End(c)
        \/ \E failed \in BOOLEAN : Return(c, failed)

TxSpec == TxInit /\ [][TxNext]_txVars

-----------------------------------------------------------------------------
(* Correctness                                                             *)

AtRest == \A c \in TxCalls : TxAt(c, "done")

\* "All database operations within the method will be part of the same transaction", and
\* what the call has replaced is back when it is over, as long as no two calls overlap.
SerialCallsIsolated ==
    ~ crossed =>
        /\ AtRest => context = "none" /\ \A o \in Objects : prisma[o] = Client
        /\ \A c \in TxCalls : wrote[c] \subseteq {c}
=============================================================================
