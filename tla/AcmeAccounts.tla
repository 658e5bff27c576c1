---------------------------- MODULE AcmeAccounts ----------------------------
(***************************************************************************)
(* The ACME endpoint of one template: external account binding credentials *)
(* and accounts. Requests run concurrently, in one process or in several:  *)
(* a request keeps what it read, and each SQL statement that follows is a  *)
(* step of its own. A request that is refused changes nothing but its      *)
(* nonce and is not shown.                                                 *)
(***************************************************************************)
EXTENDS Common

CONSTANTS
    Creds,          \* acme_eab_credentials of the template
    AcmeKeys,       \* account keys
    AcmeCalls       \* account requests in flight at once

ASSUME AcmeAccountsAssumption == Nil \notin Creds \cup AcmeKeys

VARIABLES
    credRevoked,    \* [Creds -> BOOLEAN]: revoked_at IS NOT NULL
    acmeAccount,        \* [Creds -> AcmeAccountRow]: eab_id is unique, so it names the account
    acmeCall,       \* [AcmeCalls -> CallState]
    overtaken       \* history: credentials revoked while their account's update was in flight

acmeAccountsVars == <<credRevoked, acmeAccount, acmeCall, overtaken>>

AcmeAccountRow == [status : {"none", "valid", "deactivated"}, key : AcmeKeys \cup {Nil}]

\* at is the statement the request executes next.
CallState == [at     : {"idle", "create acmeAccount", "update acmeAccount", "change key"},
              cred   : Creds \cup {Nil},
              key    : AcmeKeys \cup {Nil},
              status : {"none", "valid", "deactivated"}]
NoCall == [at |-> "idle", cred |-> Nil, key |-> Nil, status |-> "none"]

AcmeAccountsInit ==
    /\ credRevoked = [c \in Creds |-> FALSE]
    /\ acmeAccount = [c \in Creds |-> [status |-> "none", key |-> Nil]]
    /\ acmeCall = [q \in AcmeCalls |-> NoCall]
    /\ overtaken = {}

-----------------------------------------------------------------------------
(* Credentials and accounts.                                               *)

\* The signature is checked with the stored key of the account named by kid.
AccountFromKID(c) == acmeAccount[c].status = "valid"

BeginCall(q, at, c, k, status) ==
    /\ acmeCall[q].at = "idle"
    /\ acmeCall' = [acmeCall EXCEPT ![q] = [at |-> at, cred |-> c, key |-> k, status |-> status]]
    /\ UNCHANGED <<credRevoked, acmeAccount, overtaken>>

AnswerCall(q) ==
    /\ acmeCall' = [acmeCall EXCEPT ![q] = NoCall]
    /\ UNCHANGED <<credRevoked, overtaken>>

KeyUnused(k) == \A d \in Creds : acmeAccount[d].key # k

\* new-account up to the insert: the key is not registered, the binding
\* verifies, the credential is not revoked and has no account.
CheckBinding(q, c, k) ==
    /\ KeyUnused(k)
    /\ ~credRevoked[c] /\ acmeAccount[c].status = "none"
    /\ BeginCall(q, "create acmeAccount", c, k, "valid")

\* Mutant of KeyFree: an account that was deactivated does not count.
KeyFreeAmongValid(c, k) == \A d \in Creds \ {c} : acmeAccount[d].status = "valid" => acmeAccount[d].key # k

\* unique (template_id, jwk_thumbprint)
KeyFree(c, k) == \A d \in Creds \ {c} : acmeAccount[d].key # k

\* Mutant of MayRegister: the revocation is not looked at again.
MayRegisterUnlocked(c, k) == acmeAccount[c].status = "none" /\ KeyFree(c, k)

\* The transaction: the credential is locked and read again, and the two
\* unique constraints decide.
MayRegister(c, k) == ~credRevoked[c] /\ acmeAccount[c].status = "none" /\ KeyFree(c, k)

CreateACMEAccount(q) ==
    LET c == acmeCall[q].cred
        k == acmeCall[q].key
    IN /\ acmeCall[q].at = "create acmeAccount"
       /\ acmeAccount' = IF MayRegister(c, k)
                     THEN [acmeAccount EXCEPT ![c] = [status |-> "valid", key |-> k]] ELSE acmeAccount
       /\ AnswerCall(q)

\* account: new contacts, or deactivation. The row is written back with the
\* status that was read, unless the client asked for another.
Account(q, c, status) ==
    /\ AccountFromKID(c) /\ status \in {"valid", "deactivated"}
    /\ BeginCall(q, "update acmeAccount", c, Nil, status)

UpdateACMEAccount(q) ==
    /\ acmeCall[q].at = "update acmeAccount"
    /\ acmeAccount' = [acmeAccount EXCEPT ![acmeCall[q].cred].status = acmeCall[q].status]
    /\ AnswerCall(q)

\* key-change: both keys have signed and the new one is not in use.
KeyChange(q, c, k) ==
    /\ AccountFromKID(c) /\ KeyUnused(k)
    /\ BeginCall(q, "change key", c, k, "valid")

UpdateACMEAccountKey(q) ==
    LET c == acmeCall[q].cred
        k == acmeCall[q].key
    IN /\ acmeCall[q].at = "change key"
       /\ acmeAccount' = IF KeyFree(c, k) THEN [acmeAccount EXCEPT ![c].key = k] ELSE acmeAccount
       /\ AnswerCall(q)

\* An administrator revokes a credential: in one transaction with its account.
RevokeACMEEABCredential(c) ==
    /\ ~credRevoked[c]
    /\ credRevoked' = [credRevoked EXCEPT ![c] = TRUE]
    /\ acmeAccount' = [acmeAccount EXCEPT ![c].status = IF @ = "valid" THEN "deactivated" ELSE @]
    /\ overtaken' = overtaken \cup {d \in {c} : \E q \in AcmeCalls :
                                    acmeCall[q].cred = c /\ acmeCall[q].at = "update acmeAccount"}
    /\ UNCHANGED acmeCall

\* The process dies, or the client goes away and its context is cancelled.
CallLost(q) ==
    /\ acmeCall[q].at # "idle"
    /\ AnswerCall(q)
    /\ UNCHANGED acmeAccount

AcmeAccountsNext ==
    \/ \E q \in AcmeCalls, c \in Creds :
          \/ \E k \in AcmeKeys : CheckBinding(q, c, k) \/ KeyChange(q, c, k)
          \/ \E status \in {"valid", "deactivated"} : Account(q, c, status)
    \/ \E q \in AcmeCalls :
          CreateACMEAccount(q) \/ UpdateACMEAccount(q) \/ UpdateACMEAccountKey(q) \/ CallLost(q)
    \/ \E c \in Creds : RevokeACMEEABCredential(c)

-----------------------------------------------------------------------------
AcmeAccountsTypeOK ==
    /\ credRevoked \in [Creds -> BOOLEAN]
    /\ acmeAccount \in [Creds -> AcmeAccountRow]
    /\ acmeCall \in [AcmeCalls -> CallState]
    /\ overtaken \subseteq Creds

\* After its credential was revoked an account is never valid again: a
\* registration under way is refused or deactivated. Excluded is a revocation
\* while the same account's update is in flight, which writes the status back.
RevokedCredentialStaysOut ==
    \A c \in Creds \ overtaken : credRevoked[c] => acmeAccount[c].status # "valid"

\* Registrations and key changes check before they write; the constraint keeps
\* two accounts from ending up with one key.
AccountKeysDistinct ==
    \A c, d \in Creds : c # d /\ acmeAccount[c].key = acmeAccount[d].key => acmeAccount[c].key = Nil
=============================================================================
