------------------------------ MODULE MCLogin ------------------------------
(***************************************************************************)
(* Getting in: the lockout of an account, the rate limiter of the login,   *)
(* the registration of owners, what the operations of the API then ask     *)
(* for, and the approvals that an owner's rules demand.  They are looked   *)
(* at one at a time.                                                       *)
(***************************************************************************)
EXTENDS AccountLockout, RateLimit, Registration, BusinessRules, Gates

CONSTANTS Approvers, Priorities

VARIABLE area

\* What an owner may type into the form of a rule: two limits, and one that is refused.
RuleForms ==
    [transactionType : Types, thresholdValue : {-1, 1, 2}, priority : Priorities,
     appliesToLevel : {"WORKER", "OWNER"}, approverLevel : Approvers]

others == <<area, regVars, gateVars, rules>>

\* What a behaviour does not look at starts in one way only.
MCInit ==
    /\ area \in {"lockout", "rate", "registration", "gates", "rules"}
    /\ Init /\ RateInit /\ RegInit /\ GateInit /\ RulesInit
    /\ area = "registration" \/
        form = [f \in Signups |-> [at |-> "check", email |-> CHOOSE e \in Emails : TRUE,
                                 name |-> CHOOSE n \in Names : TRUE]]

MCNext ==
    /\ UNCHANGED area
    /\ \/ area = "lockout" /\ Next /\ UNCHANGED <<rateVars, regVars, gateVars, rules>>
       \/ area = "rate" /\ RateNext /\ UNCHANGED <<vars, regVars, gateVars, rules>>
       \/ area = "registration" /\ RegNext /\ UNCHANGED <<vars, rateVars, gateVars, rules>>
       \/ area = "gates" /\ GateNext /\ UNCHANGED <<vars, rateVars, regVars, rules>>
       \/ area = "rules" /\ WriteRule /\ UNCHANGED <<vars, rateVars, regVars, gateVars>>

\* Only the area that is looked at moves, and only its fairness counts.
InLockout(A) == area = "lockout" /\ A /\ UNCHANGED <<rateVars, others>>
InRate(A) == area = "rate" /\ A /\ UNCHANGED <<vars, others>>

MCSpec ==
    /\ MCInit /\ [][MCNext]_<<vars, rateVars, others>>
    /\ WF_vars(InLockout(Tick))
    /\ \A p \in Procs : WF_vars(InLockout(Step(p))) /\ SF_vars(InLockout(Begin(p, "right")))
    /\ WF_rateVars(InRate(RateTick))
    /\ \A p \in Clients : WF_rateVars(InRate(RateStep(p)))

\* Where logins are looked at, the rightful user gets in again and again.
RightfulUserGetsIn == area = "lockout" => RightPasswordWorks
=============================================================================
