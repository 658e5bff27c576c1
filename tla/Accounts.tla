------------------------------ MODULE Accounts ------------------------------
(***************************************************************************)
(* The user directory: accounts come from the first run of a process, from *)
(* an administrator or from a sign-in at the identity provider, and keep   *)
(* the role CertPilot gave them. The handler that changes an account reads *)
(* it, counts the other administrators and then writes role and status one *)
(* after the other. An account is known by its address, which is unique.   *)
(***************************************************************************)
EXTENDS Integers, FiniteSets, Common

CONSTANTS
    Emails,         \* addresses
    BootstrapAdmins,\* auth.bootstrap_admins: the addresses that start as administrators
    Updates         \* requests that change an account, each made at most once

ASSUME AccountsAssumption == Emails # {} /\ BootstrapAdmins \subseteq Emails

VARIABLES
    account,        \* [Emails -> AccountRow]
    updating,       \* [Updates -> UpdateState]
    starting,       \* the first-run check of a process that starts
    creating,       \* the creation of an account by an administrator
    hadAdmin,       \* history: there has been an active administrator
    raced,          \* history: changes that may take an administrator away overlapped
    demoted         \* history: addresses last assigned a role other than admin

accountsVars == <<account, updating, starting, creating, hadAdmin, raced, demoted>>

\* operator stands for auditor too.
Roles == {"viewer", "operator", "admin"}
AccountRow == [exists : BOOLEAN, role : Roles, active : BOOLEAN, password : BOOLEAN]
\* A change as asked for: Nil leaves a field alone.
Changes == [role : Roles \cup {Nil}, active : BOOLEAN \cup {Nil}]
UpdateState == [at : {"none", "role", "status", "ended"}, email : Emails, change : Changes]

NoAccount == [exists |-> FALSE, role |-> "viewer", active |-> FALSE, password |-> FALSE]
NoChange == [role |-> Nil, active |-> Nil]
NoUpdate == [at |-> "none", email |-> CHOOSE e \in Emails : TRUE, change |-> NoChange]

AccountsInit ==
    /\ account = [e \in Emails |-> NoAccount] /\ updating = [u \in Updates |-> NoUpdate]
    /\ starting = Nil /\ creating = Nil /\ hadAdmin = FALSE /\ raced = FALSE /\ demoted = {}

IsAdmin(row) == row.exists /\ row.role = "admin" /\ row.active
Admins(rows) == {e \in Emails : IsAdmin(rows[e])}

\* A change that takes an administrator away, should its target be one.
Lowers(change) == change.role \in {"viewer", "operator"} \/ change.active = FALSE

SetAccount(e, row) ==
    /\ account' = [account EXCEPT ![e] = row]
    /\ hadAdmin' = (hadAdmin \/ IsAdmin(row))

-----------------------------------------------------------------------------
(* Accounts appear.                                                        *)

\* Mutant of ResolvedRow: the bootstrap list is consulted at every sign-in.
ResolvedRowAgain(e, bootstrap) ==
    IF account[e].exists /\ e \notin bootstrap THEN account[e]
    ELSE [exists |-> TRUE, role |-> IF e \in bootstrap THEN "admin" ELSE "viewer",
          active |-> IF account[e].exists THEN account[e].active ELSE TRUE, password |-> account[e].password]

\* ResolveUser: an account that exists keeps its role.
ResolvedRow(e, bootstrap) ==
    IF account[e].exists THEN account[e]
    ELSE [exists |-> TRUE, role |-> IF e \in bootstrap THEN "admin" ELSE "viewer", active |-> TRUE, password |-> FALSE]

\* A request with the provider's token, or the callback of a sign-in.
ResolveIdentity(e) ==
    /\ SetAccount(e, ResolvedRow(e, BootstrapAdmins))
    /\ UNCHANGED <<updating, starting, creating, raced, demoted>>

\* bootstrapFirstAdmin: with no account that can sign in, the first address of
\* the list gets one, and then a password.
BootstrapAccount(e) ==
    /\ starting = Nil /\ e \in BootstrapAdmins
    /\ \A f \in Emails : ~(account[f].exists /\ account[f].active /\ account[f].password)
    /\ SetAccount(e, ResolvedRow(e, BootstrapAdmins)) /\ starting' = e
    /\ UNCHANGED <<updating, creating, raced, demoted>>

BootstrapPassword ==
    /\ starting # Nil /\ starting' = Nil
    /\ SetAccount(starting, [account[starting] EXCEPT !.password = TRUE])
    /\ UNCHANGED <<updating, creating, raced, demoted>>

\* Create: refused when the address has an account; the password and then the
\* role follow, and a role that cannot be written is passed over.
CreateUser(e) ==
    /\ creating = Nil /\ Admins(account) # {} /\ ~account[e].exists
    /\ SetAccount(e, ResolvedRow(e, {})) /\ creating' = e
    /\ UNCHANGED <<updating, starting, raced, demoted>>

CreatedRole(r) ==
    LET row == account[creating] IN
    /\ creating # Nil /\ creating' = Nil
    /\ SetAccount(creating, [row EXCEPT !.password = TRUE, !.role = IF r = "viewer" THEN row.role ELSE r])
    /\ demoted' = IF r = "admin" THEN demoted \ {creating} ELSE demoted
    /\ raced' = (raced \/ (r = "operator" /\ row.role = "admin"))
    /\ UNCHANGED <<updating, starting>>

\* The password cannot be stored, and the account is left as ResolveUser made it.
CreateFails ==
    /\ creating # Nil /\ creating' = Nil
    /\ UNCHANGED <<account, updating, starting, hadAdmin, raced, demoted>>

-----------------------------------------------------------------------------
(* Update.                                                                 *)

\* Mutant of wouldRemoveLastAdmin: a suspension takes nobody's role.
wouldRemoveRole(row, change) == IsAdmin(row) /\ change.role \notin {Nil, "admin"}

wouldRemoveLastAdmin(row, change) == IsAdmin(row) /\ (change.role \notin {Nil, "admin"} \/ change.active = FALSE)

\* The account is read and the other administrators are counted.
BeginUpdate(u, e, change) ==
    /\ updating[u].at = "none" /\ account[e].exists /\ Admins(account) # {}
    /\ wouldRemoveLastAdmin(account[e], change) => Admins(account) \ {e} # {}
    /\ updating' = [updating EXCEPT ![u] = [at |-> "role", email |-> e, change |-> change]]
    /\ raced' = (raced \/ (Lowers(change) /\ \E v \in Updates : updating[v].at \in {"role", "status"} /\ Lowers(updating[v].change)))
    /\ UNCHANGED <<account, starting, creating, hadAdmin, demoted>>

SetUserRole(u) ==
    LET w == updating[u] IN
    /\ w.at = "role" /\ updating' = [updating EXCEPT ![u].at = "status"]
    /\ IF w.change.role = Nil THEN UNCHANGED <<account, hadAdmin, demoted>>
       ELSE /\ SetAccount(w.email, [account[w.email] EXCEPT !.role = w.change.role])
            /\ demoted' = IF w.change.role = "admin" THEN demoted \ {w.email} ELSE demoted \cup {w.email}
    /\ UNCHANGED <<starting, creating, raced>>

\* A suspension also ends the account's sessions (SignIn).
SetUserStatus(u) ==
    LET w == updating[u] IN
    /\ w.at = "status" /\ updating' = [updating EXCEPT ![u] = [NoUpdate EXCEPT !.at = "ended"]]
    /\ IF w.change.active = Nil THEN UNCHANGED <<account, hadAdmin>>
       ELSE SetAccount(w.email, [account[w.email] EXCEPT !.active = w.change.active])
    /\ UNCHANGED <<starting, creating, raced, demoted>>

\* A write fails and the handler returns, whatever it has written so far.
UpdateFails(u) ==
    /\ updating[u].at \in {"role", "status"} /\ updating' = [updating EXCEPT ![u] = [NoUpdate EXCEPT !.at = "ended"]]
    /\ UNCHANGED <<account, starting, creating, hadAdmin, raced, demoted>>

AccountsNext ==
    \/ \E e \in Emails : ResolveIdentity(e) \/ BootstrapAccount(e) \/ CreateUser(e)
    \/ BootstrapPassword \/ CreateFails \/ \E r \in Roles : CreatedRole(r)
    \/ \E u \in Updates, e \in Emails, change \in Changes : BeginUpdate(u, e, change)
    \/ \E u \in Updates : SetUserRole(u) \/ SetUserStatus(u) \/ UpdateFails(u)

-----------------------------------------------------------------------------
AccountsTypeOK ==
    /\ account \in [Emails -> AccountRow] /\ updating \in [Updates -> UpdateState]
    /\ starting \in Emails \cup {Nil} /\ creating \in Emails \cup {Nil}
    /\ hadAdmin \in BOOLEAN /\ raced \in BOOLEAN /\ demoted \subseteq Emails

\* Once there is an administrator there always is one: no change, refused or
\* cut short, leaves none, except two at the same time that each count on the
\* other's target, or one that overtakes the account's own creation.
AdminRemains == hadAdmin /\ ~raced => Admins(account) # {}

\* An account whose role was taken away does not get it back by signing in, at
\* the identity provider or on a first run, though its address is on the list.
DemotionSticks == \A e \in demoted : account[e].role # "admin"
=============================================================================
