------------------------- MODULE CertificateRecord -------------------------
(***************************************************************************)
(* One row of the certificates table and everybody who rewrites it: the    *)
(* renewal executor, the hosts and ACME clients that renew with a key of   *)
(* their own, and revocation from the console and over ACME.               *)
(*                                                                         *)
(* Nobody holds a lock on the row. Each writer reads it, talks to the CA   *)
(* for as long as that takes, and writes back a whole record built from    *)
(* what it read, so the steps of two writers interleave between any two    *)
(* SQL statements. What keeps the row honest is the shape of the three     *)
(* UPDATE statements and one CHECK constraint.                             *)
(***************************************************************************)
EXTENDS Integers, FiniteSets

CONSTANTS
    Renewers,    \* renewals of this record that can be in flight at once
    Consoles,    \* revocations asked for in the console, in flight at once
    Clients,     \* ACME revoke-cert requests in flight at once
    MaxIssued,   \* bound: certificates the CA signs in one behaviour
    MaxAbandons  \* bound: requests cut short in one behaviour

Revokers == Consoles \cup Clients

ASSUME RecordAssumption ==
    /\ MaxIssued \in Nat \ {0} /\ MaxAbandons \in Nat
    /\ Consoles \cap Clients = {}

VARIABLES
    row,       \* the certificates row
    issued,    \* how many certificates the CA has signed for these names
    caRevoked, \* the ones the CA has revoked
    renewer,   \* [Renewers -> RenewerState]
    revoker,   \* [Revokers -> RevokerState]
    abandons,  \* requests cut short so far
    marked,    \* history: 0..2 revocations written into the row
    answered   \* history: certificates whose revocation was reported done

vars == <<row, issued, caRevoked, renewer, revoker, abandons, marked, answered>>

-----------------------------------------------------------------------------
(* Certificates are numbered in the order the CA signs them; None is no     *)
(* certificate. key is the certificate whose private key is sealed in       *)
(* private_key_encrypted.                                                   *)

None == 0
Signed == 1..MaxIssued
SignedOrNone == Signed \cup {None}

\* EXPIRING, a third live status, is treated as ISSUED everywhere below.
LiveStatuses == {"ISSUED", "RENEWAL_FAILED"}
Statuses == LiveStatuses \cup {"REVOKED"}

Row == [custody   : {"CERTPILOT", "ELSEWHERE"},  \* who holds the private key
        status    : Statuses,
        revokedAt : BOOLEAN,                     \* revoked_at IS NOT NULL
        fp        : Signed,
        key       : SignedOrNone,
        prev      : SignedOrNone]                \* previous_fingerprint

RenewerState == [pc     : {"idle", "sign", "store", "failed", "schedule"},
                 status : Statuses,       \* the record as read
                 fp     : SignedOrNone,   \* its fingerprint as read
                 new    : SignedOrNone]   \* what the CA returned

IdleRenewer == [pc |-> "idle", status |-> "ISSUED", fp |-> None, new |-> None]

RevokerState == [pc       : {"idle", "superseded", "tell", "mark"},
                 fp       : SignedOrNone, \* the certificate to revoke
                 replaced : BOOLEAN]      \* found by its successor's record

IdleRevoker == [pc |-> "idle", fp |-> None, replaced |-> FALSE]

\* Mutant: the table has no such constraint.
NotConstrained(r) == r \in Row

\* The CHECK certificates_revocation_consistent.
RevocationConsistent(r) == (r.status = "REVOKED") = r.revokedAt

\* Mutant: the key column is not in the statement.
KeyNotWritten(r, key) == r.key

\* private_key_encrypted = COALESCE($26, private_key_encrypted)
CoalescedKey(r, key) == IF key = None THEN r.key ELSE key

\* Mutant: revoked_at follows the status that is written.
UpdatedAnew(status, fp, key) ==
    [row EXCEPT !.status = status, !.fp = fp, !.key = CoalescedKey(row, key),
                !.revokedAt = (status = "REVOKED")]

\* The row UpdateCertificate would leave. It writes every column of the record
\* it is given, except that revoked_at is not among them.
Updated(status, fp, key) ==
    [row EXCEPT !.status = status, !.fp = fp, !.key = CoalescedKey(row, key)]

Accepts(status, fp, key) == RevocationConsistent(Updated(status, fp, key))

UpdateCertificate(status, fp, key) ==
    row' = IF Accepts(status, fp, key) THEN Updated(status, fp, key) ELSE row

Init ==
    /\ row \in {[custody |-> c, status |-> "ISSUED", revokedAt |-> FALSE, fp |-> 1,
                 key |-> IF c = "CERTPILOT" THEN 1 ELSE None, prev |-> None] :
                c \in {"CERTPILOT", "ELSEWHERE"}}
    /\ issued = 1
    /\ caRevoked = {}
    /\ renewer = [r \in Renewers |-> IdleRenewer]
    /\ revoker = [v \in Revokers |-> IdleRevoker]
    /\ abandons = 0
    /\ marked = 0
    /\ answered = {}

-----------------------------------------------------------------------------
(* Renewal *)

RenewerGoes(r, pc) == renewer' = [renewer EXCEPT ![r].pc = pc]
RenewerEnds(r) == renewer' = [renewer EXCEPT ![r] = IdleRenewer]

\* The executor reads whatever is there; fleet.replaces and acmeserver.renews
\* read it too, and decide from its status whether this is a renewal at all.
ReadRecord(r) ==
    /\ renewer[r].pc = "idle"
    /\ issued < MaxIssued
    /\ renewer' = [renewer EXCEPT ![r] =
                     [pc |-> "sign", status |-> row.status, fp |-> row.fp,
                      new |-> None]]
    /\ UNCHANGED <<row, issued, caRevoked, revoker, abandons, marked, answered>>

\* The executor renews the record whatever its status; for a key held elsewhere
\* a record that is no longer live gets a new record beside it.
RenewsInPlace(r) == row.custody = "CERTPILOT" \/ renewer[r].status \in LiveStatuses

SignSucceeds(r) ==
    /\ renewer[r].pc = "sign"
    /\ issued < MaxIssued
    /\ issued' = issued + 1
    /\ \/ RenewsInPlace(r)
          /\ renewer' = [renewer EXCEPT ![r] =
                           [renewer[r] EXCEPT !.pc = "store", !.new = issued + 1]]
       \/ ~RenewsInPlace(r)
          /\ RenewerEnds(r)
    /\ UNCHANGED <<row, caRevoked, revoker, abandons, marked, answered>>

\* The CA refuses, or signs something an ENFORCE template rejects, which is then
\* revoked if the gateway manages it. Only the executor records the failure.
SignFails(r) ==
    /\ renewer[r].pc = "sign"
    /\ \/ UNCHANGED <<issued, caRevoked>>
       \/ /\ issued < MaxIssued
          /\ issued' = issued + 1
          /\ caRevoked' \in {caRevoked, caRevoked \cup {issued + 1}}
    /\ IF row.custody = "CERTPILOT" THEN RenewerGoes(r, "failed") ELSE RenewerEnds(r)
    /\ UNCHANGED <<row, revoker, abandons, marked, answered>>

\* recordFailure writes back the record as read, with no key in it. An error is
\* logged and nothing else.
RecordFailure(r) ==
    /\ renewer[r].pc = "failed"
    /\ UpdateCertificate("RENEWAL_FAILED", renewer[r].fp, None)
    /\ RenewerEnds(r)
    /\ UNCHANGED <<issued, caRevoked, revoker, abandons, marked, answered>>

\* UpdateCertificate with the new certificate, and with its key when the key was
\* generated here. If the database refuses the row the renewal ends in an error.
StoreRenewal(r) ==
    LET key == IF row.custody = "CERTPILOT" THEN renewer[r].new ELSE None IN
    /\ renewer[r].pc = "store"
    /\ UpdateCertificate("ISSUED", renewer[r].new, key)
    /\ \/ Accepts("ISSUED", renewer[r].new, key)
          /\ RenewerGoes(r, "schedule")
       \/ ~Accepts("ISSUED", renewer[r].new, key)
          /\ RenewerEnds(r)
    /\ UNCHANGED <<issued, caRevoked, revoker, abandons, marked, answered>>

\* UpdateCertificateVerification, a second statement, keeps the old fingerprint.
ScheduleVerification(r) ==
    /\ renewer[r].pc = "schedule"
    /\ row' = [row EXCEPT !.prev = renewer[r].fp]
    /\ RenewerEnds(r)
    /\ UNCHANGED <<issued, caRevoked, revoker, abandons, marked, answered>>

\* The process dies, the request is cut off or the next statement errs: the
\* statements already executed stand and the others never happen.
AbandonRenewal(r) ==
    /\ renewer[r].pc # "idle"
    /\ abandons < MaxAbandons
    /\ abandons' = abandons + 1
    /\ RenewerEnds(r)
    /\ UNCHANGED <<row, issued, caRevoked, revoker, marked, answered>>

-----------------------------------------------------------------------------
(* Revocation *)

RevokerEnds(v) == revoker' = [revoker EXCEPT ![v] = IdleRevoker]

\* GetCertificate, then the checks at the top of Revoke. An ACME request names
\* the certificate by its fingerprint, so it starts here only when the record
\* still holds that certificate.
ReadForRevocation(v) ==
    /\ revoker[v].pc = "idle"
    /\ row.status # "REVOKED"
    /\ revoker' = [revoker EXCEPT ![v] =
                     [pc |-> "tell", fp |-> row.fp, replaced |-> FALSE]]
    /\ UNCHANGED <<row, issued, caRevoked, renewer, abandons, marked, answered>>

\* No record holds the certificate the client presents.
NotFoundByFingerprint(v) ==
    /\ v \in Clients
    /\ revoker[v].pc = "idle"
    /\ \E f \in 1..issued :
         /\ row.fp # f
         /\ revoker' = [revoker EXCEPT ![v] =
                          [pc |-> "superseded", fp |-> f, replaced |-> FALSE]]
    /\ UNCHANGED <<row, issued, caRevoked, renewer, abandons, marked, answered>>

\* GetCertificateBySupersededFingerprint; without a match the answer is 403.
FindBySuperseded(v) ==
    /\ revoker[v].pc = "superseded"
    /\ \/ row.prev = revoker[v].fp
          /\ revoker' = [revoker EXCEPT ![v] =
                           [revoker[v] EXCEPT !.pc = "tell", !.replaced = TRUE]]
       \/ row.prev # revoker[v].fp
          /\ RevokerEnds(v)
    /\ UNCHANGED <<row, issued, caRevoked, renewer, abandons, marked, answered>>

\* Mutant: the record is read again, and the CA is sent what it holds now.
CurrentCertificate(v) == row.fp

\* What tellCA sends: the certificate of the record as it was read.
CertificateToRevoke(v) == revoker[v].fp

\* The CA revokes it. A replaced certificate has no record, so that is all.
TellCA(v) ==
    /\ revoker[v].pc = "tell"
    /\ caRevoked' = caRevoked \cup {CertificateToRevoke(v)}
    /\ \/ revoker[v].replaced
          /\ RevokerEnds(v)
          /\ answered' = answered \cup {revoker[v].fp}
       \/ ~revoker[v].replaced
          /\ revoker' = [revoker EXCEPT ![v] = [revoker[v] EXCEPT !.pc = "mark"]]
          /\ UNCHANGED answered
    /\ UNCHANGED <<row, issued, renewer, abandons, marked>>

\* The CA refuses, or revokes and its answer is lost.
TellCAFails(v) ==
    /\ revoker[v].pc = "tell"
    /\ caRevoked' \in {caRevoked, caRevoked \cup {CertificateToRevoke(v)}}
    /\ RevokerEnds(v)
    /\ UNCHANGED <<row, issued, renewer, abandons, marked, answered>>

\* Mutant: the revocation is written whatever the status.
AlwaysMarks == row.status \in Statuses

\* WHERE id = $1 AND status <> 'REVOKED'
MayMark == row.status # "REVOKED"

\* MarkCertificateRevoked. It names the row by its id, not by the certificate
\* the CA was told about. No row updated means somebody else revoked it first.
MarkCertificateRevoked(v) ==
    /\ revoker[v].pc = "mark"
    /\ \/ /\ MayMark
          /\ row' = [row EXCEPT !.status = "REVOKED", !.revokedAt = TRUE]
          /\ marked' = IF marked < 2 THEN marked + 1 ELSE 2
          /\ answered' = answered \cup {revoker[v].fp}
       \/ /\ ~MayMark
          /\ UNCHANGED <<row, marked, answered>>
    /\ RevokerEnds(v)
    /\ UNCHANGED <<issued, caRevoked, renewer, abandons>>

AbandonRevocation(v) ==
    /\ revoker[v].pc # "idle"
    /\ abandons < MaxAbandons
    /\ abandons' = abandons + 1
    /\ RevokerEnds(v)
    /\ UNCHANGED <<row, issued, caRevoked, renewer, marked, answered>>

-----------------------------------------------------------------------------
RenewerStep(r) ==
    \/ ReadRecord(r)
    \/ SignSucceeds(r)
    \/ SignFails(r)
    \/ RecordFailure(r)
    \/ StoreRenewal(r)
    \/ ScheduleVerification(r)
    \/ AbandonRenewal(r)

RevokerStep(v) ==
    \/ ReadForRevocation(v)
    \/ NotFoundByFingerprint(v)
    \/ FindBySuperseded(v)
    \/ TellCA(v)
    \/ TellCAFails(v)
    \/ MarkCertificateRevoked(v)
    \/ AbandonRevocation(v)

Next == \/ \E r \in Renewers : RenewerStep(r)
        \/ \E v \in Revokers : RevokerStep(v)

Spec == Init /\ [][Next]_vars

-----------------------------------------------------------------------------
(* Properties *)

\* The row and the state of every request are of the declared shape, and the two
\* facts about a revocation agree, whatever UpdateCertificate is handed.
TypeOK ==
    /\ row \in Row
    /\ row.revokedAt = (row.status = "REVOKED")
    /\ issued \in Signed
    /\ caRevoked \subseteq 1..issued
    /\ renewer \in [Renewers -> RenewerState]
    /\ revoker \in [Revokers -> RevokerState]
    /\ abandons \in 0..MaxAbandons
    /\ marked \in 0..2
    /\ answered \subseteq 1..issued

\* A revoked record is history: no renewal that was in flight when it was revoked,
\* successful or failed, brings it back or changes the certificate it names.
\* UpdateCertificate says nothing of revoked_at, so this rests on the CHECK.
RevokedIsHistory ==
    [][row.status = "REVOKED"
         => row'.status = "REVOKED" /\ row'.fp = row.fp /\ row'.key = row.key]_vars

\* However many operators and clients revoke at once, one revocation is written
\* into the row, so its reason, time and actor are never overwritten
\* (MarkCertificateRevoked).
RecordedOnce == marked <= 1

\* A revocation reported as done is one the CA carried out, of the certificate
\* that was asked about, even when a renewal replaces that certificate while the
\* CA is being told (Revoke, RevokeReplaced).
AnsweredMeansRevoked == answered \subseteq caRevoked

\* The sealed private key is the key of the stored certificate, across renewals,
\* failures and refused writes (the COALESCE of UpdateCertificate).
KeyMatchesCertificate == row.custody = "CERTPILOT" => row.key = row.fp

\* A record marked REVOKED names a certificate that is not live at the CA.
RevokedMeansDeadAtCA == row.status = "REVOKED" => row.fp \in caRevoked
=============================================================================
