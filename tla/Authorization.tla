---------------------------- MODULE Authorization ----------------------------
(***************************************************************************)
(* The authorization check: the four layers of the permission engine       *)
(* (modules/authorization/permission-engine.service.ts), called by the     *)
(* gRPC method CheckPermission, and the four guards that put the same      *)
(* questions one by one with the claims of the token.  A request asks for  *)
(* one module and action on behalf of one user.  Every await is a step,    *)
(* between which the user is moved, its permission granted or revoked and  *)
(* a rule changed.                                                         *)
(***************************************************************************)
EXTENDS BusinessRules

CONSTANTS
    Callers,      \* requests in flight
    Units,        \* branches, and departments
    NoUnit,       \* no branch, no department
    Faults,       \* "database" and "redis" calls that may fail
    MaxDisturb    \* bound on the changes of users, permissions and rules

VARIABLES
    level,     \* users.hierarchyLevel, or "none": there is no such user
    seat,      \* users.branchId and departmentId
    claims,    \* the seat in the user's access token
    row,       \* the permission is in permission_matrices
    cached,    \* what the Redis copy says of it: "yes", "no" or "none"
    deleting,  \* a change of the row has yet to delete the copy
    req,       \* per caller: the request, where it is and what it has read
    held, failed, \* history: layers that held, or failed, at some moment of the request
    disturbed     \* changes made so far

world == <<level, seat, claims, row, cached, deleting, rules, disturbed>>
authVars == <<world, req, held, failed>>

Seats == [branch : Units \cup {NoUnit}, department : Units \cup {NoUnit}]
Layers == {"HIERARCHY_LEVEL", "MODULE_PERMISSION", "SCOPE", "BUSINESS_RULES"}
NoType == "none"  \* the request is about no transaction

\* What a request may ask.  The engine is called for the user's own level.
Questions ==
    [via : {"engine", "guards"}, need : Levels, scope : Seats,
     type : Types \cup {NoType}, amount : Amounts]

Idle == [at |-> "idle"]

AuthInit ==
    /\ RulesInit
    /\ level \in Levels \cup {"none"} /\ seat \in Seats /\ claims = seat
    /\ row \in BOOLEAN /\ cached = "none" /\ deleting = FALSE
    /\ req = [c \in Callers |-> Idle]
    /\ held = [c \in Callers |-> {}] /\ failed = [c \in Callers |-> {}]
    /\ disturbed = 0

-----------------------------------------------------------------------------
(* The layers                                                              *)

\* Layer 1.
CheckHierarchyLevel(has, need) == Rank[has] >= Rank[need]

\* Mutant: the department is not looked at.
CheckScopeBranchOnly(user, scope) ==
    user.level = "OWNER" \/ scope.branch \in {NoUnit, user.seat.branch}

\* Layer 3: what the resource does not name is not compared.
CheckScope(user, scope) ==
    \/ user.level = "OWNER"
    \/ /\ scope.branch \in {NoUnit, user.seat.branch}
       /\ scope.department \in {NoUnit, user.seat.department}

\* What holds for a request at this moment, in declarative form.
Holds(r) ==
    {l \in Layers :
        CASE l = "HIERARCHY_LEVEL"   -> level # "none" /\ Rank[level] >= Rank[r.need]
          [] l = "MODULE_PERMISSION" -> row
          [] l = "SCOPE" -> \/ level = "OWNER"
                            \/ \A unit \in {"branch", "department"} :
                                  r.scope[unit] # NoUnit => seat[unit] = r.scope[unit]
          [] l = "BUSINESS_RULES" ->
                \/ level = "OWNER" \/ r.type = NoType
                \/ Triggered(r.type, r.amount, level) = {}}

\* Layers whose answer is a copy that may be older than the request: the token's
\* seat, and the Redis copy of the permissions.
Copied(r) ==
    {l \in Layers : \/ l = "SCOPE" /\ r.via = "guards" /\ claims # seat
                    \/ l = "MODULE_PERMISSION" /\ cached = (IF row THEN "no" ELSE "yes")}

Verdicts == Layers \cup {"ok", "not_found", "SYSTEM_ERROR"}
Busy(c) == req[c].at \notin Verdicts \cup {"idle"}

\* The histories look at the state that every step leaves behind.
Observe ==
    LET Seen(h, c, new) ==
            IF req[c]' = Idle THEN {} ELSE IF Busy(c)' \/ req[c] = Idle THEN h[c] \cup new
            ELSE h[c] IN
    /\ held' = [c \in Callers |-> Seen(held, c, (Holds(req[c]) \cup Copied(req[c]))')]
    /\ failed' = [c \in Callers |->
                     Seen(failed, c, ((Layers \ Holds(req[c])) \cup Copied(req[c]))')]

-----------------------------------------------------------------------------
(* A request                                                               *)

At(c, step) == req[c].at = step
Goto(c, step) == req' = [req EXCEPT ![c].at = step]
Fault(f) == f \in Faults
Failing(c, verdict) == req' = [req EXCEPT ![c].at = verdict, ![c].fault = TRUE]

\* What comes after the permission: the scope at once, the rules after an await.
AfterPermission(c, yes) ==
    LET r == req[c] IN
    Goto(c, IF ~ yes THEN "MODULE_PERMISSION"
            ELSE IF ~ CheckScope(r.user, r.scope) THEN "SCOPE"
            ELSE IF r.type # NoType THEN "rules" ELSE "ok")

\* Who asks: the engine starts with the controller's findById; the guards have the
\* user of the token, and HierarchyGuard decides at once.
Begin(c) ==
    /\ req[c] = Idle
    /\ \E q \in Questions :
        /\ q.type = NoType => \A a \in Amounts : q.amount <= a
        /\ q.via = "engine" => q.need = "WORKER"
        /\ q.via = "guards" => level # "none"
        /\ req' = [req EXCEPT ![c] =
              [via |-> q.via, need |-> q.need, scope |-> q.scope, type |-> q.type,
               amount |-> q.amount,
               user |-> [level |-> level, seat |-> claims], fault |-> FALSE, seen |-> "none",
               at |-> IF q.via = "engine" THEN "findById"
                      ELSE IF CheckHierarchyLevel(level, q.need) THEN "lookup"
                      ELSE "HIERARCHY_LEVEL"]]
    /\ UNCHANGED world

\* CheckPermission: the user is fetched for the level that is then asked for.
FindById(c) ==
    /\ At(c, "findById")
    /\ \/ level # "none" /\ req' = [req EXCEPT ![c].at = "findUnique", ![c].need = level]
       \/ level = "none" /\ Goto(c, "not_found")
       \/ Fault("database") /\ Failing(c, "SYSTEM_ERROR")
    /\ UNCHANGED world

\* checkAuthorization: the user is read again, and layer 1 decided.  No code removes
\* users, so this second read finds one.
FindUnique(c) ==
    /\ At(c, "findUnique")
    /\ \/ req' = [req EXCEPT ![c].user = [level |-> level, seat |-> seat],
                  ![c].at = IF CheckHierarchyLevel(level, req[c].need) THEN "lookup"
                            ELSE "HIERARCHY_LEVEL"]
       \/ Fault("database") /\ Failing(c, "SYSTEM_ERROR")
    /\ UNCHANGED world

\* Layer 2: getPermissions, from Redis if it has a copy and answers.
Lookup(c) ==
    /\ At(c, "lookup")
    /\ \/ cached # "none" /\ AfterPermission(c, cached = "yes")
       \/ (cached = "none" \/ Fault("redis")) /\ Goto(c, "fetch")
    /\ UNCHANGED world

\* The rows; an error denies.
Fetch(c) ==
    /\ At(c, "fetch")
    /\ \/ req' = [req EXCEPT ![c].at = "fill", ![c].seen = IF row THEN "yes" ELSE "no"]
       \/ Fault("database") /\ Failing(c, "MODULE_PERMISSION")
    /\ UNCHANGED world

\* The copy is written back; whether Redis takes it or not, the rows decide.
Fill(c) ==
    /\ At(c, "fill")
    /\ AfterPermission(c, req[c].seen = "yes")
    /\ cached' \in {req[c].seen} \cup (IF Fault("redis") THEN {cached} ELSE {})
    /\ UNCHANGED <<level, seat, claims, row, deleting, rules, disturbed>>

\* Layer 4; an error denies.
CheckRules(c) ==
    /\ At(c, "rules")
    /\ \/ \E v \in CheckBusinessRules(req[c].type, req[c].amount, req[c].user.level) :
             Goto(c, IF v.passed THEN "ok" ELSE "BUSINESS_RULES")
       \/ Fault("database") /\ ~ DenyOnError.passed /\ Failing(c, "BUSINESS_RULES")
    /\ UNCHANGED world

\* The answer is sent.
Answer(c) ==
    /\ ~ Busy(c) /\ req[c] # Idle
    /\ req' = [req EXCEPT ![c] = Idle]
    /\ UNCHANGED world

Request(c) ==
    \/ Begin(c) \/ FindById(c) \/ FindUnique(c) \/ Lookup(c) \/ Fetch(c) \/ Fill(c)
    \/ CheckRules(c) \/ Answer(c)

-----------------------------------------------------------------------------
(* What other requests do meanwhile                                        *)

\* Changes are counted, and made while a request is in flight.
Disturb ==
    /\ \E c \in Callers : Busy(c)
    /\ disturbed < MaxDisturb /\ disturbed' = disturbed + 1 /\ UNCHANGED req

\* updateUser: another branch or department.
Move ==
    /\ Disturb /\ level # "none"
    /\ seat' \in Seats \ {seat}
    /\ UNCHANGED <<level, claims, row, cached, deleting, rules>>

\* A grant or a revocation commits; then its handler deletes the copy.
ChangeRow ==
    /\ Disturb /\ row' = ~ row /\ deleting' = TRUE
    /\ UNCHANGED <<level, seat, claims, cached, rules>>

DeleteCopy ==
    /\ deleting /\ deleting' = FALSE
    /\ cached' \in {"none"} \cup (IF Fault("redis") THEN {cached} ELSE {})
    /\ UNCHANGED <<level, seat, claims, row, rules, disturbed, req>>

\* Its five minutes are over.
ExpireCopy ==
    /\ cached # "none" /\ cached' = "none"
    /\ UNCHANGED <<level, seat, claims, row, deleting, rules, disturbed, req>>

\* Sign-in and refresh put the seat of the moment into the token.
IssueToken ==
    /\ claims # seat /\ claims' = seat
    /\ UNCHANGED <<level, seat, row, cached, deleting, rules, disturbed, req>>

ChangeRules ==
    /\ Disturb /\ WriteRule
    /\ UNCHANGED <<level, seat, claims, row, cached, deleting>>

AuthNext ==
    /\ \/ \E c \in Callers : Request(c)
       \/ Move \/ ChangeRow \/ DeleteCopy \/ ExpireCopy \/ IssueToken \/ ChangeRules
    /\ Observe

AuthSpec == AuthInit /\ [][AuthNext]_authVars

-----------------------------------------------------------------------------
(* Correctness                                                             *)

\* A request that is let through passed all four layers: each of them held at some
\* moment between its start and its answer, whatever failed and whatever others
\* changed between its awaits, unless the layer's answer was an old copy.
GrantJustified ==
    \A c \in Callers : At(c, "ok") => Layers \subseteq held[c]

\* A request that is refused is refused for a reason: the layer it is told did not
\* hold at some moment of the request, or a call failed under it.
DenialJustified ==
    \A c \in Callers : req[c].at \in Layers =>
        req[c].at \in failed[c] \/ req[c].fault

AnswersJustified == GrantJustified /\ DenialJustified
=============================================================================
