----------------------------- MODULE MCPlatform -----------------------------
(***************************************************************************)
(* What a request meets besides its own service: the authorization check   *)
(* and the approval rules it reads, the middlewares and transactions       *)
(* before the database, the audit of its outcome and the events it causes. *)
(* What it is told when it fails comes last.  A behaviour exercises one    *)
(* area.                                                                   *)
(***************************************************************************)
EXTENDS Authorization, QueryPipeline, AuditTrail, EventBus, TransactionContext, ErrorReplies

CONSTANTS Areas, branch, otherBranch, department

VARIABLE area

\* Where requests are interleaved with changes of the rules, one form is enough.
FewForms ==
    [transactionType : Types, thresholdValue : {1}, priority : {0},
     appliesToLevel : {"WORKER"}, approverLevel : {"OWNER"}]

Context(l, b, d) == [level |-> l, branchId |-> b, departmentId |-> d]
Contexts ==
    {Context("OWNER", None, None), Context("MANAGER", branch, None),
     Context("WORKER", branch, department), Context("MANAGER", otherBranch, None)}

\* What a behaviour does not look at starts in one way only.  The user whose request is
\* authorized starts in a branch, and may be moved.
MCInit ==
    /\ area \in Areas
    /\ AuthInit /\ PipelineInit /\ AuditInit /\ BusInit /\ TxInit /\ ErrorsInit
    /\ IF area = "authorization" THEN seat.branch # NoUnit /\ seat.department = NoUnit
       ELSE level = "none" /\ seat.branch = NoUnit /\ seat.department = NoUnit /\ ~ row

MCNext ==
    /\ UNCHANGED area
    /\ \/ /\ area = "authorization" /\ AuthNext
          /\ UNCHANGED <<pipelineVars, auditVars, busVars, txVars, reply>>
       \/ /\ area = "queries" /\ PipelineNext
          /\ UNCHANGED <<authVars, auditVars, busVars, txVars, reply>>
       \/ /\ area = "audit" /\ AuditNext
          /\ UNCHANGED <<authVars, pipelineVars, busVars, txVars, reply>>
       \/ /\ area = "events" /\ BusNext
          /\ UNCHANGED <<authVars, pipelineVars, auditVars, txVars, reply>>
       \/ /\ area = "transactions" /\ TxNext
          /\ UNCHANGED <<authVars, pipelineVars, auditVars, busVars, reply>>
       \/ /\ area = "errors" /\ ErrorsNext
          /\ UNCHANGED <<authVars, pipelineVars, auditVars, busVars, txVars>>

MCSpec == MCInit /\ [][MCNext]_<<area, authVars, pipelineVars, auditVars, busVars, txVars, reply>>
=============================================================================
