----------------------------- MODULE AcmeOrders -----------------------------
(***************************************************************************)
(* The ACME endpoint of one template: orders, authorizations, and the      *)
(* certificate records that orders produce. (Accounts: AcmeAccounts.)      *)
(* Requests run concurrently, in one process or in several; a request      *)
(* keeps the rows it read, and every later SQL statement is a step of its  *)
(* own. A request that is refused changes nothing and is not shown.        *)
(*                                                                         *)
(* A client learns the name of an order from the answer to new-order.      *)
(***************************************************************************)
EXTENDS Integers, FiniteSets, Common

CONSTANTS
    Accts,        \* ACME accounts of the template
    ProofAccts,   \* those whose credential has require_challenge
    AcmeNames,    \* names that can be ordered
    NamesOf,      \* bound: [Accts -> SUBSET AcmeNames], the names its client orders
    Wildcards,    \* those that begin with "*."
    Answerable,   \* <<name, challenge>>: what the clients can publish
    Orders,       \* row identities of acme_orders
    Records,      \* row identities of certificates
    Requests,     \* requests in flight at once
    MaxIdentifiers, \* the most names one order may have
    MaxSigned,    \* bound: certificates the CA signs in one behaviour
    MaxProofOrders \* bound: orders of an account that has to prove its names

ASSUME AcmeAssumption ==
    /\ ProofAccts \subseteq Accts /\ Wildcards \subseteq AcmeNames
    /\ MaxSigned \in Nat /\ MaxIdentifiers \in Nat /\ MaxProofOrders \in Nat
    /\ NamesOf \in [Accts -> SUBSET AcmeNames]
    /\ Nil \notin Accts \cup Orders \cup Records

VARIABLES
    standing,     \* accounts that are valid
    order,        \* [Orders -> OrderRow]
    authz,        \* [Orders -> [AcmeNames -> AuthzStatus]]: acme_authorizations
    expired,      \* orders whose expires_at has passed
    record,       \* [Records -> RecordRow]
    request,      \* [Requests -> RequestState]
    issued,       \* certificates the CA has signed
    signedFor,    \* history: [Orders -> Nat] certificates the CA signed
    disturbed     \* history: orders whose requests overlapped or were lost

acmeVars == <<standing, order, authz, expired, record, request,
              issued, signedFor, disturbed>>

-----------------------------------------------------------------------------
Challenges == {"http-01", "dns-01", "tls-alpn-01"}
OrderStatus == {"none", "pending", "ready", "processing", "valid", "invalid"}
AuthzStatus == {"none", "pending", "valid", "invalid"}
Fps == 0..MaxSigned

\* Identifiers, certificate_id, and the certificate named in replaces with
\* the record that held it.
OrderRow == [status   : OrderStatus,
             owner    : Accts \cup {Nil},
             names    : SUBSET AcmeNames,
             record   : Records \cup {Nil},
             replaces : Fps,
             replaced : Records \cup {Nil}]

RecordRow == [status : {"none", "ISSUED", "REVOKED"},
              fp     : Fps,
              names  : SUBSET AcmeNames]

\* at is the statement the request executes next.
RequestState == [at     : {"idle", "create order",
                           "create authorizations", "look", "order follows", "claim", "resolve",
                           "sign", "store", "complete", "fail"},
                 acct   : Accts \cup {Nil},
                 order  : Orders \cup {Nil},
                 status : OrderStatus,
                 names  : SUBSET AcmeNames,
                 name   : AcmeNames \cup {Nil},
                 kind   : Challenges \cup {Nil},
                 seen   : [AcmeNames -> AuthzStatus],
                 target : Records \cup {Nil},
                 fp     : Fps]

NoAuthz == [n \in AcmeNames |-> "none"]
NoOrder == [status |-> "none", owner |-> Nil, names |-> {}, record |-> Nil,
            replaces |-> 0, replaced |-> Nil]
NoRequest == [at |-> "idle", acct |-> Nil, order |-> Nil, status |-> "none",
         names |-> {}, name |-> Nil, kind |-> Nil, seen |-> NoAuthz, target |-> Nil, fp |-> 0]

\* One account is in use in a behaviour: every order and certificate a
\* request reads or writes is one of its own account.
AcmeInit ==
    /\ \E c \in Accts : standing = {c}
    /\ order = [o \in Orders |-> NoOrder]
    /\ authz = [o \in Orders |-> NoAuthz]
    /\ expired = {}
    /\ record = [r \in Records |-> [status |-> "none", fp |-> 0, names |-> {}]]
    /\ request = [q \in Requests |-> NoRequest]
    /\ issued = 0
    /\ signedFor = [o \in Orders |-> 0]
    /\ disturbed = {}

-----------------------------------------------------------------------------
(* What every handler does first, and what it leaves behind.               *)

AnswerOrder(q) == request' = [request EXCEPT ![q] = NoRequest]

\* A request by account c, verified, about to execute statement `at`.
OrderRequest(q, at, c) == [NoRequest EXCEPT !.at = at, !.acct = c]

\* The nonce is spent and the signature checked with the key of the account
\* named by kid, which must be valid.
VerifyOrder(q, c) == request[q].at = "idle" /\ c \in standing

\* The order named in the URL, if it belongs to the account. The order exists
\* for its client once new-order has answered.
OwnedOrder(c, o) ==
    /\ order[o].owner = c
    /\ \A q \in Requests : ~(request[q].at = "create authorizations" /\ request[q].order = o)

\* Mutant of SetOrder: the certificate is not written.
SetOrderStatus(o, status, r) == order' = [order EXCEPT ![o].status = status]

SetOrder(o, status, r) == order' = [order EXCEPT ![o].status = status, ![o].record = r]

-----------------------------------------------------------------------------
(* Orders and their authorizations.                                        *)

Identifiers == [type : {"dns", "ip"}, value : AcmeNames]

\* cleanIdentifiers: dns names only, at least one, not too many, duplicates dropped.
Orderable(ids) ==
    /\ ids # {} /\ Cardinality(ids) <= MaxIdentifiers
    /\ \A id \in ids : id.type = "dns"
CleanIdentifiers(ids) == {id.value : id \in ids}

LiveRecord(r) == record[r].status = "ISSUED"

\* The order that produced a record: GetACMEOrderByCertificate.
OrderedBy(c, r) == \E o \in Orders : order[o].record = r /\ order[o].owner = c

\* What a new order may say it replaces: nothing, or a certificate of this
\* account that no order being finalized or finalized replaces, and that
\* shares a name with the order.
MayReplace(c, r, names) ==
    r # Nil =>
        /\ record[r].status # "none" /\ OrderedBy(c, r)
        /\ record[r].names \cap names # {}
        /\ \A o \in Orders : order[o].status \in {"valid", "processing"} =>
                                order[o].replaces # record[r].fp

NewOrder(q, c, ids, r) ==
    /\ VerifyOrder(q, c) /\ Orderable(ids) /\ MayReplace(c, r, CleanIdentifiers(ids))
    /\ request' = [request EXCEPT ![q] =
                      [OrderRequest(q, "create order", c) EXCEPT
                          !.names = CleanIdentifiers(ids), !.target = r,
                          !.fp = IF r = Nil THEN 0 ELSE record[r].fp]]
    /\ UNCHANGED <<standing, order, authz, expired, record, issued, signedFor, disturbed>>

\* Mutant of OpeningStatus: the credential's requirement is forgotten.
OpeningReady(c) == "ready"

\* Ready as soon as it exists, unless the credential requires proof.
OpeningStatus(c) == IF c \in ProofAccts THEN "pending" ELSE "ready"

CreateACMEOrder(q, o) ==
    LET s == request[q]
    IN /\ s.at = "create order" /\ order[o].status = "none"
       /\ s.acct \in ProofAccts => Cardinality({p \in Orders : order[p].status # "none"}) < MaxProofOrders
       /\ order' = [order EXCEPT ![o] = [status |-> OpeningStatus(s.acct), owner |-> s.acct, names |-> s.names,
                                         record |-> Nil, replaces |-> s.fp, replaced |-> s.target]]
       /\ request' = [request EXCEPT ![q] =
                         IF s.acct \in ProofAccts
                         THEN [@ EXCEPT !.at = "create authorizations", !.order = o] ELSE NoRequest]
       /\ UNCHANGED <<standing, authz, expired, record, issued, signedFor, disturbed>>

\* One INSERT per name, then the answer.
CreateACMEAuthorization(q) ==
    LET o == request[q].order
        missing == {n \in request[q].names : authz[o][n] = "none"}
    IN /\ request[q].at = "create authorizations"
       /\ \/ \E n \in missing : /\ authz' = [authz EXCEPT ![o][n] = "pending"]
                                /\ UNCHANGED <<request, order>>
          \/ missing = {} /\ AnswerOrder(q) /\ UNCHANGED <<authz, order>>
          \/ missing # {} /\ SetOrder(o, "invalid", Nil) /\ AnswerOrder(q) /\ UNCHANGED authz
       /\ UNCHANGED <<standing, expired, record, issued, signedFor, disturbed>>

\* A wildcard can only be proved by DNS.
ChallengeTypes(n) == IF n \in Wildcards THEN {"dns-01"} ELSE Challenges

\* Mutant of Undecided: only the order's status is looked at.
OrderUndecided(o, n) == order[o].status = "pending" /\ authz[o][n] # "none"

Undecided(o, n) == order[o].status = "pending" /\ authz[o][n] = "pending"

\* The challenge is offered and nothing is decided yet: the core will look.
RespondToChallenge(q, c, o, n, kind) ==
    /\ VerifyOrder(q, c) /\ OwnedOrder(c, o)
    /\ Undecided(o, n)
    /\ kind \in ChallengeTypes(n)
    /\ request' = [request EXCEPT ![q] =
                      [OrderRequest(q, "look", c) EXCEPT !.order = o, !.name = n, !.kind = kind, !.seen = authz[o]]]
    /\ disturbed' = disturbed \cup {p \in {o} : \E d \in Requests :
                                   request[d].order = o /\ request[d].at \in {"look", "order follows"}}
    /\ UNCHANGED <<standing, order, authz, expired, record, issued, signedFor>>

\* checkHTTP01, checkTLSALPN01, checkDNS01: they hold only when the answer can
\* be published for this name, and may always fail.
ProofHolds(n, kind, o) ==
    IF <<n, kind>> \in Answerable /\ o \notin expired THEN BOOLEAN ELSE {FALSE}

\* The look, and the result written on the authorization.
UpdateACMEAuthorization(q) ==
    LET s == request[q]
    IN /\ s.at = "look"
       /\ \E proof \in ProofHolds(s.name, s.kind, s.order) :
             LET status == IF proof THEN "valid" ELSE "invalid"
             IN /\ authz' = [authz EXCEPT ![s.order][s.name] = status]
                /\ request' = [request EXCEPT ![q].at = "order follows", ![q].status = status]
       /\ UNCHANGED <<standing, order, expired, record, issued, signedFor, disturbed>>

\* Mutant of AllValid: the one just decided is taken as it was read.
AllSeenValid(o, seen, n, status) == \A m \in order[o].names : seen[m] = "valid"

\* Over the authorizations as they were read, but for the one just decided.
AllValid(o, seen, n, status) ==
    \A m \in order[o].names : (IF m = n THEN status ELSE seen[m]) = "valid"

\* The order follows its authorizations. It is written from the copy read at
\* the beginning, when it was pending and had no certificate.
OrderFollows(q) ==
    LET s == request[q]
    IN /\ s.at = "order follows"
       /\ IF s.status = "invalid" THEN SetOrder(s.order, "invalid", Nil)
          ELSE IF AllValid(s.order, s.seen, s.name, s.status) THEN SetOrder(s.order, "ready", Nil)
          ELSE order' = order
       /\ AnswerOrder(q)
       /\ UNCHANGED <<standing, authz, expired, record, issued, signedFor, disturbed>>

-----------------------------------------------------------------------------
(* Finalize.                                                               *)

CsrMatchesOrder(asked, o) == asked = order[o].names

Finalize(q, c, o, asked) ==
    /\ VerifyOrder(q, c) /\ OwnedOrder(c, o)
    /\ order[o].status = "ready" /\ o \notin expired
    /\ CsrMatchesOrder(asked, o)
    /\ request' = [request EXCEPT ![q] = [OrderRequest(q, "claim", c) EXCEPT !.order = o, !.names = asked]]
    /\ UNCHANGED <<standing, order, authz, expired, record, issued, signedFor, disturbed>>

\* Mutant of Claims: the order was read as ready, which is taken for good.
ClaimsUnchecked(o) == TRUE

Claims(o) == order[o].status = "ready" /\ o \notin expired

ClaimACMEOrderForFinalize(q) ==
    LET o == request[q].order
    IN /\ request[q].at = "claim"
       /\ order' = IF Claims(o) THEN [order EXCEPT ![o].status = "processing"] ELSE order
       /\ request' = [request EXCEPT ![q] = IF Claims(o) THEN [@ EXCEPT !.at = "resolve"] ELSE NoRequest]
       /\ UNCHANGED <<standing, authz, expired, record, issued, signedFor, disturbed>>

\* The record this order is written over: the one it said it replaces if
\* that still holds the certificate, else a live one of this account with the
\* same names, else none.
ReplacedRecord(o) ==
    LET r == order[o].replaced
    IN IF r # Nil /\ LiveRecord(r) /\ record[r].fp = order[o].replaces THEN {r} ELSE {}
Renews(c, names) == {r \in Records : LiveRecord(r) /\ OrderedBy(c, r) /\ record[r].names = names}

Previous(c, o, names) ==
    IF ReplacedRecord(o) # {} THEN ReplacedRecord(o)
    ELSE IF Renews(c, names) # {} THEN Renews(c, names) ELSE {Nil}

\* The resolver accepts or refuses; a refusal invalidates the order.
Resolve(q) ==
    LET s == request[q]
    IN /\ s.at = "resolve"
       /\ \/ \E r \in Previous(s.acct, s.order, s.names) :
                request' = [request EXCEPT ![q].at = "sign", ![q].target = r]
          \/ request' = [request EXCEPT ![q].at = "fail"]
       /\ UNCHANGED <<standing, order, authz, expired, record, issued, signedFor, disturbed>>

SignCSR(q) ==
    LET s == request[q]
    IN /\ s.at = "sign"
       /\ \/ /\ issued < MaxSigned
             /\ issued' = issued + 1
             /\ request' = [request EXCEPT ![q].at = "store", ![q].fp = issued + 1]
             /\ signedFor' = [signedFor EXCEPT ![s.order] = @ + 1]
          \/ request' = [request EXCEPT ![q].at = "fail"] /\ UNCHANGED <<issued, signedFor>>
       /\ UNCHANGED <<standing, order, authz, expired, record, disturbed>>

\* Over the previous record, or a new one. A record revoked meanwhile refuses
\* the write (see CertificateRecord).
StoreCertificate(q) ==
    LET s == request[q]
    IN /\ s.at = "store"
       /\ \/ \E r \in Records :
                /\ IF s.target = Nil THEN record[r].status = "none" ELSE r = s.target /\ LiveRecord(r)
                /\ record' = [record EXCEPT ![r] = [status |-> "ISSUED", fp |-> s.fp, names |-> s.names]]
                /\ request' = [request EXCEPT ![q].at = "complete", ![q].target = r]
          \/ request' = [request EXCEPT ![q].at = "fail"] /\ UNCHANGED record
       /\ UNCHANGED <<standing, order, authz, expired, issued, signedFor, disturbed>>

\* Mutant of Outcome: a failure is answered and not written.
OutcomeOfSuccess(s) == IF s.at = "complete" THEN SetOrder(s.order, "valid", s.target) ELSE order' = order

\* The order ends valid with its certificate, or invalid with its problem.
Outcome(s) == IF s.at = "complete" THEN SetOrder(s.order, "valid", s.target)
              ELSE SetOrder(s.order, "invalid", Nil)

CompleteOrder(q) ==
    LET s == request[q]
    IN /\ s.at \in {"complete", "fail"}
       /\ Outcome(s)
       /\ AnswerOrder(q)
       /\ UNCHANGED <<standing, authz, expired, record, issued, signedFor, disturbed>>

-----------------------------------------------------------------------------
(* revoke-cert by the account that ordered, accounts that end (by their    *)
(* client or by their credential), the clock, and lost requests.           *)

AccountEnds(c) ==
    /\ c \in standing
    /\ standing' = standing \ {c}
    /\ UNCHANGED <<order, authz, expired, record, request, issued, signedFor, disturbed>>

RevokeCert(c, r) ==
    /\ c \in standing /\ OrderedBy(c, r) /\ LiveRecord(r)
    /\ record' = [record EXCEPT ![r].status = "REVOKED"]
    /\ UNCHANGED <<standing, order, authz, expired, request, issued, signedFor, disturbed>>

\* expires_at is only looked at before an order is claimed.
OrderExpires(o) ==
    /\ order[o].status \in {"pending", "ready"} /\ o \notin expired
    /\ expired' = expired \cup {o}
    /\ UNCHANGED <<standing, order, authz, record, request, issued, signedFor, disturbed>>

\* The process dies, or the client goes away and its context is cancelled.
RequestLost(q) ==
    /\ request[q].at # "idle"
    /\ AnswerOrder(q)
    /\ disturbed' = disturbed \cup ({request[q].order} \ {Nil})
    /\ UNCHANGED <<standing, order, authz, expired, record, issued, signedFor>>

RequestStep(q) ==
    \/ \E o \in Orders : CreateACMEOrder(q, o)
    \/ CreateACMEAuthorization(q) \/ UpdateACMEAuthorization(q) \/ OrderFollows(q)
    \/ ClaimACMEOrderForFinalize(q) \/ Resolve(q) \/ SignCSR(q) \/ StoreCertificate(q)
    \/ CompleteOrder(q)

ClientRequest(q) ==
    \E c \in Accts :
       \/ \E ids \in SUBSET {id \in Identifiers : id.value \in NamesOf[c]}, r \in Records \cup {Nil} : NewOrder(q, c, ids, r)
       \/ \E o \in Orders, n \in AcmeNames, kind \in Challenges : RespondToChallenge(q, c, o, n, kind)
       \/ \E o \in Orders, asked \in SUBSET AcmeNames : Finalize(q, c, o, asked)

AcmeNext ==
    \/ \E q \in Requests : ClientRequest(q) \/ RequestStep(q) \/ RequestLost(q)
    \/ \E c \in Accts : AccountEnds(c) \/ \E r \in Records : RevokeCert(c, r)
    \/ \E o \in Orders : OrderExpires(o)

AcmeFairness == \A q \in Requests : WF_acmeVars(RequestStep(q))

-----------------------------------------------------------------------------
AcmeTypeOK ==
    /\ standing \subseteq Accts
    /\ order \in [Orders -> OrderRow]
    /\ \A o \in Orders : order[o].status = "valid" => order[o].record # Nil
    /\ authz \in [Orders -> [AcmeNames -> AuthzStatus]]
    /\ expired \subseteq Orders
    /\ record \in [Records -> RecordRow]
    /\ request \in [Requests -> RequestState]
    /\ issued \in Fps
    /\ signedFor \in [Orders -> Nat]
    /\ disturbed \subseteq Orders

\* The claim makes a second finalize of an order fail, on any replica and
\* beside a validation that makes the order ready: the CA signs once per order,
\* unless challenge responses of the order overlapped.
OneCertificatePerOrder == \A o \in Orders \ disturbed : signedFor[o] <= 1

\* A credential that requires proof gets certificates only for names that
\* could be proved by a challenge the name may use, whatever the order in which
\* authorizations were answered and rows were written.
OnlyProvedNames ==
    \A q \in Requests : request[q].at = "store" /\ request[q].acct \in ProofAccts =>
        \A n \in request[q].names : \E kind \in {"dns-01"} \cup
            (IF n \in Wildcards THEN {} ELSE Challenges) : <<n, kind>> \in Answerable

\* An order follows its authorizations: once all are valid and nobody is
\* working on the order it is no longer pending.
OrderFollowsAuthorizations ==
    \A o \in Orders \ disturbed :
        /\ order[o].status = "pending"
        /\ \A n \in order[o].names : authz[o][n] = "valid"
        => \E q \in Requests : request[q].order = o

\* An authorization is decided once, and a decided order stays decided.
DecidedOnce ==
    [][\A o \in Orders \ disturbed' :
          /\ order[o].status \in {"valid", "invalid"} => order'[o].status = order[o].status
          /\ \A n \in AcmeNames : authz[o][n] \in {"valid", "invalid"} => authz'[o][n] = authz[o][n]]_acmeVars

\* An order that was claimed for finalization ends valid or invalid, unless the
\* request that claimed it is lost: nothing takes such an order up again.
FinalizeSettles ==
    \A o \in Orders :
        order[o].status = "processing" ~> (order[o].status # "processing" \/ o \in disturbed)
=============================================================================
