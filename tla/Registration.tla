---------------------------- MODULE Registration ----------------------------
(***************************************************************************)
(* registerOwner (modules/auth/auth.service.ts): an owner, the             *)
(* organization and the owner's preferences are written in one             *)
(* transaction; the owner's permissions and their snapshot are written     *)
(* after it, and a failure there is swallowed; then the owner is signed    *)
(* in.  Registrations overlap, calls fail and requests die.  Meanwhile the *)
(* organizations hire staff and change e-mails (modules/user), which the   *)
(* database keeps apart within an organization only.                       *)
(* Registration with Google is not reachable: nothing calls it, and        *)
(* verifyGoogleToken throws.                                               *)
(***************************************************************************)
EXTENDS Naturals, FiniteSets

CONSTANTS
    Signups,  \* registrations that are sent, each at most once
    Emails, Names,  \* e-mail addresses, names of organizations
    MaxStaff,       \* bound: accounts that are not an owner's
    FormFaults      \* {"database", "crash"}

VARIABLES
    form,      \* per registration: its input and its next step
    accounts,  \* users that own an organization: the e-mail, the registration that made it
    staff,     \* other users: the e-mail, the registration of the organization
    orgs,      \* organizations: the name, and the owner's registration
    granted, snapshots,  \* owners with rows in permission_matrices, in permission_snapshots
    answer,    \* per registration: what the client was told
    raced,     \* history: e-mails checked or written while a registration was past its check
    unchecked  \* history: e-mails that updateUser wrote although another owner had them

regVars == <<form, accounts, staff, orgs, granted, snapshots, answer, raced, unchecked>>

RegInit ==
    /\ form \in [Signups -> [at : {"check"}, email : Emails, name : Names]]
    /\ accounts = {} /\ staff = {} /\ orgs = {} /\ granted = {} /\ snapshots = {}
    /\ answer = [f \in Signups |-> "none"] /\ raced = {} /\ unchecked = {}

On(f, step) == form[f].at = step
Proceed(f, step) == form' = [form EXCEPT ![f].at = step]
Reply(f, what) == Proceed(f, "done") /\ answer' = [answer EXCEPT ![f] = what]
MayFail == "database" \in FormFaults

-----------------------------------------------------------------------------
\* Mutant: the check is for an account of this organization, as the index is.
TakenInOrganization(f) ==
    \E a \in accounts \cup staff : a.email = form[f].email /\ form[a.form].name = form[f].name

\* findFirst: an account with this e-mail, in whatever organization.
Taken(f) == \E a \in accounts \cup staff : a.email = form[f].email

\* e if a registration is between its check and its transaction with it.
PastCheck(e) == {e} \cap {form[g].email : g \in {g \in Signups : On(g, "create")}}

\* The e-mail is free; the password is hashed before anything is written.
CheckEmail(f) ==
    /\ On(f, "check") /\ ~ Taken(f)
    /\ Proceed(f, "create")
    /\ raced' = raced \cup PastCheck(form[f].email)
    /\ UNCHANGED <<accounts, staff, orgs, granted, snapshots, answer, unchecked>>

Conflict(f) ==
    /\ On(f, "check") /\ Taken(f)
    /\ Reply(f, "conflict")
    /\ UNCHANGED <<accounts, staff, orgs, granted, snapshots, raced, unchecked>>

\* organizations.name is unique, and an account's e-mail within its organization.
Insertable(f) == \A o \in orgs : o.name # form[f].name

Account(f) == [email |-> form[f].email, form |-> f]
Organization(f) == [name |-> form[f].name, owner |-> f]

\* The transaction: organization, user, preferences, and the organization's ownerId.
Create(f) ==
    /\ On(f, "create") /\ Insertable(f)
    /\ orgs' = orgs \cup {Organization(f)}
    /\ accounts' = accounts \cup {Account(f)}
    /\ Proceed(f, "permissions")
    /\ UNCHANGED <<staff, granted, snapshots, answer, raced, unchecked>>

\* It fails as a whole: the name is taken, or the database fails.
RollBack(f) ==
    /\ On(f, "create") /\ (~ Insertable(f) \/ MayFail)
    /\ Reply(f, "error")
    /\ UNCHANGED <<accounts, staff, orgs, granted, snapshots, raced, unchecked>>

\* initializeOwnerPermissions: all modules at once, then the snapshot.
InitializeOwnerPermissions(f) ==
    /\ On(f, "permissions") /\ granted' = granted \cup {f}
    /\ Proceed(f, "snapshot")
    /\ UNCHANGED <<accounts, staff, orgs, snapshots, answer, raced, unchecked>>

CreateSnapshot(f) ==
    /\ On(f, "snapshot") /\ snapshots' = snapshots \cup {f}
    /\ Proceed(f, "sign in")
    /\ UNCHANGED <<accounts, staff, orgs, granted, answer, raced, unchecked>>

\* Either fails: logged, and the registration goes on.
Swallow(f) ==
    /\ MayFail /\ (On(f, "permissions") \/ On(f, "snapshot"))
    /\ Proceed(f, "sign in")
    /\ UNCHANGED <<accounts, staff, orgs, granted, snapshots, answer, raced, unchecked>>

\* createAuthResponse: the token carries the permissions in the database.
SignOwnerIn(f) ==
    /\ On(f, "sign in")
    /\ \/ Reply(f, IF f \in granted THEN "token with permissions" ELSE "token without permissions")
       \/ MayFail /\ Reply(f, "error")
    /\ UNCHANGED <<accounts, staff, orgs, granted, snapshots, raced, unchecked>>

\* The request dies; its client hears nothing.
Die(f) ==
    /\ "crash" \in FormFaults /\ form[f].at \notin {"check", "done"}
    /\ Proceed(f, "done")
    /\ UNCHANGED <<accounts, staff, orgs, granted, snapshots, answer, raced, unchecked>>

-----------------------------------------------------------------------------
(* The other writers of users.email                                        *)

Users == accounts \cup staff
UsedIn(f, e) == \E a \in Users : a.form = f /\ a.email = e

\* createManager and createWorker look for the e-mail in the organization only.
HireStaff(f, e) ==
    /\ granted # {} /\ (\E o \in orgs : o.owner = f) /\ ~ UsedIn(f, e)
    /\ Cardinality(staff) < MaxStaff
    /\ staff' = staff \cup {[email |-> e, form |-> f]}
    /\ UNCHANGED <<form, accounts, orgs, granted, snapshots, answer, raced, unchecked>>

\* updateUser writes the e-mail of any user and looks for nothing; the index keeps it
\* apart from the others of the organization.
UpdateStaff(a, e) ==
    /\ granted # {} /\ ~ UsedIn(a.form, e)
    /\ staff' = (staff \ {a}) \cup {[email |-> e, form |-> a.form]}
    /\ UNCHANGED <<form, accounts, orgs, granted, snapshots, answer, raced, unchecked>>

UpdateOwner(a, e) ==
    /\ granted # {} /\ ~ UsedIn(a.form, e)
    /\ accounts' = (accounts \ {a}) \cup {[email |-> e, form |-> a.form]}
    /\ raced' = raced \cup PastCheck(e)
    /\ unchecked' = unchecked \cup ({e} \cap {b.email : b \in accounts})
    /\ UNCHANGED <<form, staff, orgs, granted, snapshots, answer>>

WriteEmail ==
    \E e \in Emails : \/ \E f \in Signups : HireStaff(f, e)
                      \/ \E a \in staff : UpdateStaff(a, e)
                      \/ \E a \in accounts : UpdateOwner(a, e)

RegNext ==
    \/ WriteEmail
    \/ \E f \in Signups :
        \/ CheckEmail(f) \/ Conflict(f) \/ Create(f) \/ RollBack(f) \/ InitializeOwnerPermissions(f)
        \/ CreateSnapshot(f) \/ Swallow(f) \/ SignOwnerIn(f) \/ Die(f)

RegSpec == RegInit /\ [][RegNext]_regVars

-----------------------------------------------------------------------------
(* Correctness                                                             *)

\* Whatever fails half way, there is no organization without its owner and no owner
\* without an organization, and no name is used twice.
OwnersAreWhole ==
    /\ {o.owner : o \in orgs} = {a.form : a \in accounts}
    /\ \A o, q \in orgs : o.name = q.name => o = q

\* One e-mail has one owner account, which a login by e-mail relies on.  No index of the
\* database says so, only the check of registerOwner does: two accounts share an e-mail
\* only if it was written or checked during another registration's check, or if updateUser,
\* which checks nothing, gave one owner the e-mail of another.
EmailsDistinct ==
    \A a, b \in accounts : a.email = b.email => a = b \/ a.email \in raced \cup unchecked

HasAccount(f) == \E a \in accounts : a.form = f

\* A refusal for a taken e-mail leaves nothing behind, and a token tells whether the owner
\* can do anything.  An error tells nothing: the sign-in may fail after the transaction, and
\* whoever registers again is then refused for an account of their own.
AnswersTrue ==
    \A f \in Signups :
        /\ answer[f] = "conflict" => ~ HasAccount(f)
        /\ answer[f] = "token with permissions" => f \in granted
        /\ f \in granted => HasAccount(f)

AccountsSound == OwnersAreWhole /\ EmailsDistinct /\ AnswersTrue
=============================================================================
