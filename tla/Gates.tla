-------------------------------- MODULE Gates --------------------------------
(***************************************************************************)
(* The operations of the GraphQL API and the guards in front of them       *)
(* (api/graphql/resolvers): which level and which permission each asks     *)
(* for, and what the service behind it asks for again.  The staff of one   *)
(* organization is its owner, managers and workers; permissions are        *)
(* granted and revoked through the API itself.                             *)
(***************************************************************************)
EXTENDS Naturals, FiniteSets

Closure == INSTANCE Relation

CONSTANTS
    Owner, Managers, Workers,  \* who may get an account, and at which level
    ActionSets                 \* the sets of actions that are granted

\* hierarchyLevel is one column.
ASSUME StaffAssumption == Owner \notin Managers /\ Owner \notin Workers /\ Managers \cap Workers = {}

Staff == {Owner} \cup Managers \cup Workers
LevelOf ==
    [u \in Staff |-> IF u = Owner THEN "OWNER" ELSE IF u \in Managers THEN "MANAGER" ELSE "WORKER"]
LevelRank == [OWNER |-> 3, MANAGER |-> 2, WORKER |-> 1]

\* The modules the API asks about.
Registry ==
    [SETTINGS |-> {"READ", "UPDATE"},
     USERS |-> {"CREATE", "READ", "UPDATE", "DELETE", "GRANT_PERMISSIONS"}]
Modules == DOMAIN Registry

VARIABLES
    members,  \* the members of the staff that have an account
    rows,     \* permission_matrices: actions and grantor, by user and module
    owned     \* history: the owner's permissions are "unwritten" (no owner yet), "failed",
              \* "intact" as registered, or "touched" by a grant or a revocation since

gateVars == <<members, rows, owned>>

NoRow == [actions |-> {}, by |-> "nobody"]

-----------------------------------------------------------------------------
(* The operations: what @RequireLevel and @RequirePermission name           *)

Asks(level, module, action) == [level |-> level, module |-> module, action |-> action]
Owners(module, action) == Asks("OWNER", module, action)
Everyone(module, action) == Asks("WORKER", module, action)
Anyone == Everyone("none", "none")

UserMutations ==
    [createManager |-> Owners("USERS", "CREATE"),
     createWorker |-> Asks("MANAGER", "USERS", "CREATE"),
     updateUser |-> Everyone("USERS", "UPDATE")]

UserQueries ==
    [getUser |-> Everyone("USERS", "READ"), getUsers |-> Everyone("USERS", "READ")]

\* Mutant: a permission the registry does not know.
PermissionOperationsRenamed ==
    [grantPermissions |-> Everyone("USERS", "GRANT"),
     revokePermissions |-> Everyone("USERS", "GRANT"),
     getUserPermissions |-> Everyone("USERS", "READ"),
     getPermissionHistory |-> Everyone("USERS", "READ")]

PermissionOperations ==
    [grantPermissions |-> Everyone("USERS", "GRANT_PERMISSIONS"),
     revokePermissions |-> Everyone("USERS", "GRANT_PERMISSIONS"),
     getUserPermissions |-> Everyone("USERS", "READ"),
     getPermissionHistory |-> Everyone("USERS", "READ")]

BranchOperations ==
    [createBranch |-> Owners("SETTINGS", "UPDATE"), updateBranch |-> Owners("SETTINGS", "UPDATE"),
     assignBranchManager |-> Owners("SETTINGS", "UPDATE"),
     getBranches |-> Everyone("SETTINGS", "READ")]

DepartmentOperations ==
    [createDepartment |-> Owners("SETTINGS", "UPDATE"),
     updateDepartment |-> Owners("SETTINGS", "UPDATE"),
     assignDepartmentManager |-> Owners("SETTINGS", "UPDATE"),
     getDepartments |-> Everyone("SETTINGS", "READ")]

OrganizationOperations ==
    [updateOrganization |-> Owners("SETTINGS", "UPDATE"),
     getOrganization |-> Everyone("SETTINGS", "READ")]

AuditOperations ==
    [getUserAuditLogs |-> Everyone("USERS", "READ"),
     getOrganizationAuditLogs |-> Owners("USERS", "READ"),
     getResourceAuditLogs |-> Everyone("USERS", "READ")]

RuleOperations ==
    [createBusinessRule |-> Owners("none", "none"),
     updateBusinessRule |-> Owners("none", "none"),
     getBusinessRules |-> Anyone]

\* Behind GqlAuthGuard only.
OwnAccountOperations ==
    [o \in {"logout", "changePassword", "getActiveSessions", "revokeSession", "revokeAllSessions"}
        |-> Anyone]

Groups ==
    {UserMutations, UserQueries, PermissionOperations, BranchOperations, DepartmentOperations,
     OrganizationOperations, AuditOperations, RuleOperations, OwnAccountOperations}

\* No name is in two groups.
Operations ==
    [op \in UNION {DOMAIN g : g \in Groups} |-> (CHOOSE g \in Groups : op \in DOMAIN g)[op]]

-----------------------------------------------------------------------------
(* The guards, and the services                                            *)

\* HierarchyGuard, with the level of the token.
MeetsLevel(u, op) == LevelRank[LevelOf[u]] >= LevelRank[Operations[op].level]

\* PermissionGuard, with the permissions in force.
HasPermission(u, op) ==
    LET asked == Operations[op] IN
    asked.module = "none" \/ (asked.module \in Modules /\ asked.action \in rows[u][asked.module].actions)

Open(u, op) == u \in members /\ MeetsLevel(u, op) /\ HasPermission(u, op)

\* What the services check of the caller: validateUserCreation, which refuses a worker to
\* an owner, and validateDelegation.
Accepts(u, op) ==
    /\ op = "createManager" => LevelOf[u] = "OWNER"
    /\ op = "createWorker" => LevelOf[u] = "MANAGER"
    /\ op = "grantPermissions" => LevelOf[u] # "WORKER"

Served(u, op) == Open(u, op) /\ Accepts(u, op)

Delegable(u, module, actions) == LevelOf[u] = "OWNER" \/ actions \subseteq rows[u][module].actions

-----------------------------------------------------------------------------
(* Operations that change who may do what                                  *)

GateInit ==
    /\ members = {} /\ rows = [u \in Staff |-> [m \in Modules |-> NoRow]]
    /\ owned = "unwritten"

\* registerOwner; the permissions that follow its transaction may fail.
RegisterOwner ==
    /\ members = {} /\ members' = {Owner}
    /\ \/ /\ rows' = [rows EXCEPT ![Owner] =
                        [m \in Modules |-> [actions |-> Registry[m], by |-> Owner]]]
          /\ owned' = "intact"
       \/ owned' = "failed" /\ UNCHANGED rows

CreateStaff(u, op, new) ==
    /\ Served(u, op) /\ new \notin members
    /\ members' = members \cup {new}
    /\ UNCHANGED <<rows, owned>>

TouchOwner == owned' = IF rows'[Owner] = rows[Owner] THEN owned ELSE "touched"

\* A grant replaces the row of the module.
GrantPermissions(u, v, module, actions) ==
    /\ Served(u, "grantPermissions") /\ v \in members
    /\ Delegable(u, module, actions)
    /\ rows' = [rows EXCEPT ![v][module] = [actions |-> actions, by |-> u]]
    /\ TouchOwner
    /\ UNCHANGED members

\* Through whom a revocation from v goes on: those v granted something of these
\* modules, those they granted something, and so on.
Below(v, modules) ==
    LET granted == [a, b \in Staff |-> \E m \in modules : rows[b][m].by = a]
        below == Closure!TransitiveClosure(granted, Staff)
    IN  {b \in Staff : below[v, b]}

\* v loses the modules, and the others what they were granted of them by v or by those
\* below.  Who may revoke is up to the guard alone.
RevokePermissions(u, v, modules) ==
    /\ Served(u, "revokePermissions") /\ v \in members
    /\ rows' = [w \in Staff |-> [m \in Modules |->
                  IF m \in modules /\ (w = v \/ rows[w][m].by \in {v} \cup Below(v, modules))
                  THEN NoRow ELSE rows[w][m]]]
    /\ TouchOwner
    /\ UNCHANGED members

\* Every other operation, let through or refused: it changes nothing here.
OtherCall ==
    /\ \E u \in members : \E op \in DOMAIN Operations : Open(u, op)
    /\ UNCHANGED gateVars

GateNext ==
    \/ RegisterOwner \/ OtherCall
    \/ \E u \in Staff :
        \/ \E new \in Managers : CreateStaff(u, "createManager", new)
        \/ \E new \in Workers : CreateStaff(u, "createWorker", new)
        \/ \E v \in Staff, m \in Modules, A \in ActionSets :
             A \subseteq Registry[m] /\ GrantPermissions(u, v, m, A)
        \/ \E v \in Staff, M \in SUBSET Modules \ {{}} : RevokePermissions(u, v, M)

GateSpec == GateInit /\ [][GateNext]_gateVars

-----------------------------------------------------------------------------
(* Correctness                                                             *)

\* What the owner can have manager m do: m lacks nothing but the permission for op, which
\* the owner can grant, as he can create m.
ThroughManager(m, op) ==
    LET asked == Operations[op]
    IN  /\ MeetsLevel(m, op) /\ Accepts(m, op)
        /\ Served(Owner, "createManager") /\ Served(Owner, "grantPermissions")
        /\ asked.module \in Modules /\ asked.action \in Registry[asked.module]
        /\ Delegable(Owner, asked.module, {asked.action})

\* An owner whose permissions were written at registration, and whom nobody has revoked
\* from or granted to since, is let through to every operation by guards and services but
\* to createWorker; that one is in reach of every manager the owner may create.
NothingOutOfReach ==
    owned = "intact" =>
        \A op \in DOMAIN Operations :
            IF op = "createWorker" THEN \A m \in Managers : ThroughManager(m, op)
                                   ELSE Served(Owner, op)
=============================================================================
