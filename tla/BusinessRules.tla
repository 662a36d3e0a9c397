---------------------------- MODULE BusinessRules ----------------------------
(***************************************************************************)
(* The approval rules of one organization                                  *)
(* (modules/authorization/business-rules.service.ts) and the two pieces of *)
(* code that evaluate them: evaluateRules, and layer 4 of the permission   *)
(* engine.  Rules are ordered by priority; the database may return rules   *)
(* of one priority in any order.                                           *)
(***************************************************************************)
EXTENDS Integers, Sequences, FiniteSets, SequencesExt

CONSTANTS
    RuleIds,   \* rules the owners may create
    Types,     \* transaction types
    Amounts,   \* amounts of a transaction
    Forms,     \* what CreateBusinessRuleInput may carry
    NoRule     \* a rule that does not exist

Levels == {"OWNER", "MANAGER", "WORKER"}
Rank == [OWNER |-> 3, MANAGER |-> 2, WORKER |-> 1]

RuleFields == {"transactionType", "thresholdValue", "appliesToLevel",
               "approverLevel", "priority", "isActive"}

\* The tables of a database are finite; the fields of a form are of these kinds.  Amounts
\* and thresholds, which are floats, are only compared: integers stand for them.
ASSUME RulesAssumption ==
    /\ IsFiniteSet(RuleIds) /\ Amounts \subseteq Int
    /\ Forms \subseteq [transactionType : Types, thresholdValue : Int, priority : Int,
                        appliesToLevel : Levels, approverLevel : Levels]

VARIABLE rules  \* the table authorization_rules

RulesInit == rules = [r \in RuleIds |-> NoRule]

-----------------------------------------------------------------------------
(* Writing rules: the owner's two mutations                                *)

\* What both writers check of the fields they are given.
Acceptable(f) ==
    /\ "thresholdValue" \in DOMAIN f => f.thresholdValue > 0
    /\ "priority" \in DOMAIN f => f.priority >= 0

\* Fields that are not given keep their value.
Given(f, old) == [k \in RuleFields |-> IF k \in DOMAIN f THEN f[k] ELSE old[k]]

CreateRule(r, f) ==
    /\ rules[r] = NoRule /\ Acceptable(f)
    /\ rules' = [rules EXCEPT ![r] = Given(f, [isActive |-> TRUE])]

\* Mutant: only creation validates.
UpdateRuleUnchecked(r, f) ==
    /\ rules[r] # NoRule
    /\ rules' = [rules EXCEPT ![r] = Given(f, @)]

\* A partial update.
UpdateRule(r, f) ==
    /\ rules[r] # NoRule /\ Acceptable(f)
    /\ rules' = [rules EXCEPT ![r] = Given(f, @)]

\* The updates of one field, isActive among them.
Updates ==
    {[isActive |-> b] : b \in BOOLEAN}
        \cup UNION {{[x \in {k} |-> f[k]] : k \in RuleFields \ {"isActive"}} : f \in Forms}

WriteRule ==
    \E r \in RuleIds : \/ \E f \in Forms : CreateRule(r, f)
                       \/ \E f \in Updates : UpdateRule(r, f)

RulesSpec == RulesInit /\ [][WriteRule]_rules

-----------------------------------------------------------------------------
(* Reading rules                                                           *)

Existing == {r \in RuleIds : rules[r] # NoRule}

\* orderBy priority desc: every order the database may answer with.
ByPriority(R) ==
    {s \in SetToSeqs(R) : \A i, j \in DOMAIN s :
        i < j => rules[s[i]].priority >= rules[s[j]].priority}

\* getActiveRules: by organization, type and isActive.
ActiveRules(type) ==
    {r \in Existing : rules[r].isActive /\ rules[r].transactionType = type}

Passed == [passed |-> TRUE]
Demand(r) == [passed |-> FALSE, approverLevel |-> rules[r].approverLevel]
\* What both evaluators answer when the database fails.
DenyOnError == [passed |-> FALSE, approverLevel |-> "none"]

\* The loop over the rules: the first that triggers decides.
FirstOf(s, triggered) ==
    LET hits == {i \in DOMAIN s : s[i] \in triggered}
    IN  IF hits = {} THEN Passed ELSE Demand(s[Min(hits)])

\* Of rules R, those whose threshold the amount exceeds.
Above(R, amount) == {r \in R : amount > rules[r].thresholdValue}

\* Mutant: the service applies rules to every level.
EvaluateRulesAnyLevel(type, amount, level) ==
    IF level = "OWNER" THEN {Passed}
    ELSE {FirstOf(s, Above(ActiveRules(type), amount)) : s \in ByPriority(ActiveRules(type))}

\* evaluateRules: the level is compared in the loop.  The possible results.
EvaluateRules(type, amount, level) ==
    IF level = "OWNER" THEN {Passed}
    ELSE {FirstOf(s, {r \in Above(ActiveRules(type), amount) : rules[r].appliesToLevel = level}) :
             s \in ByPriority(ActiveRules(type))}

\* checkBusinessRules of the engine: the level is part of the query.
CheckBusinessRules(type, amount, level) ==
    IF level = "OWNER" THEN {Passed}
    ELSE LET found == {r \in ActiveRules(type) : rules[r].appliesToLevel = level}
         IN  {FirstOf(s, Above(found, amount)) : s \in ByPriority(found)}

\* validateApprover, for an approver that is (or is not) the creator.
ValidateApprover(isCreator, level, required) ==
    ~ isCreator /\ Rank[level] >= Rank[required]

-----------------------------------------------------------------------------
(* Correctness                                                             *)

\* Rules as an owner reads them: an amount above the threshold of any active rule
\* for one's level and type needs approval, from whom one of the triggered rules
\* of the highest priority says.
Triggered(type, amount, level) ==
    {r \in ActiveRules(type) : rules[r].appliesToLevel = level /\ amount > rules[r].thresholdValue}

Reference(type, amount, level) ==
    LET T == Triggered(type, amount, level) IN
    IF level = "OWNER" \/ T = {} THEN {Passed}
    ELSE {Demand(r) : r \in {q \in T : \A o \in T : rules[o].priority <= rules[q].priority}}

\* The engine and the service, which filter at different places, can give the same
\* answers, and those are what the rules mean: whatever is created and updated.
EvaluatorsAgree ==
    \A type \in Types, amount \in Amounts, level \in Levels :
        /\ EvaluateRules(type, amount, level) = Reference(type, amount, level)
        /\ CheckBusinessRules(type, amount, level) = Reference(type, amount, level)

\* No demand is a dead end: whoever is told to get an approval, the organization's
\* owner may give it, and is somebody else; and a transaction about nothing (a
\* refund or an amount of zero) never needs one, however the rules were changed.
DemandsCanBeMet ==
    \A type \in Types, amount \in Amounts, level \in Levels :
        \A v \in CheckBusinessRules(type, amount, level) :
            ~ v.passed => /\ amount > 0
                          /\ ValidateApprover(level = "OWNER", "OWNER", v.approverLevel)
=============================================================================
