---------------------- MODULE CertificateRecordProofs ----------------------
(***************************************************************************)
(* What holds of the certificates row for any number of renewals and       *)
(* revocations in flight and any number of certificates.                   *)
(***************************************************************************)
EXTENDS CertificateRecord, TLAPS

\* UpdateCertificate never changes revoked_at, so the CHECK makes it a no-op on
\* a revoked row unless it writes REVOKED, which no caller does.
LEMMA UpdateKeepsRevoked ==
    ASSUME TypeOK,
           NEW status \in LiveStatuses, NEW fp \in Signed, NEW key \in SignedOrNone,
           UpdateCertificate(status, fp, key)
    PROVE  /\ row' \in Row
           /\ row'.revokedAt = (row'.status = "REVOKED")
           /\ row.status = "REVOKED" => row' = row
           /\ row'.status = "REVOKED" <=> row.status = "REVOKED"
           /\ Accepts(status, fp, key) => row'.fp = fp
           /\ Accepts(status, fp, key) /\ key # None => row'.key = key
           /\ key = None => row'.key = row.key
           /\ ~Accepts(status, fp, key) => row' = row
<1>1. row \in Row /\ row.revokedAt = (row.status = "REVOKED")
  BY DEF TypeOK
<1>2. row.revokedAt \in BOOLEAN
  BY <1>1 DEF Row
<1>3. CoalescedKey(row, key) \in SignedOrNone
  BY <1>1 DEF Row, CoalescedKey
<1>4. /\ Updated(status, fp, key) \in Row
      /\ Updated(status, fp, key).status = status
      /\ Updated(status, fp, key).revokedAt = row.revokedAt
      /\ Updated(status, fp, key).fp = fp
      /\ Updated(status, fp, key).key = CoalescedKey(row, key)
  BY <1>1, <1>3 DEF Updated, Row, Statuses
<1>5. status # "REVOKED"
  BY DEF LiveStatuses
<1>6. CASE Accepts(status, fp, key)
  <2>1. row.revokedAt = FALSE
    BY <1>2, <1>4, <1>5, <1>6 DEF Accepts, RevocationConsistent
  <2>2. row' = Updated(status, fp, key)
    BY <1>6 DEF UpdateCertificate
  <2>. QED
    BY <1>1, <1>4, <1>5, <1>6, <2>1, <2>2 DEF CoalescedKey
<1>7. CASE ~Accepts(status, fp, key)
  <2>1. row' = row
    BY <1>7 DEF UpdateCertificate
  <2>2. row.status = "REVOKED"
    BY <1>1, <1>2, <1>4, <1>5, <1>7 DEF Accepts, RevocationConsistent
  <2>3. key = None => row'.key = row.key
    BY <2>1
  <2>. QED
    BY <1>1, <1>7, <2>1, <2>2, <2>3
<1>. QED
  BY <1>6, <1>7

\* What a renewer or a revoker that is under way carries.
Carried ==
    /\ \A r \in Renewers :
         /\ renewer[r].pc # "idle" => renewer[r].fp \in 1..issued
         /\ renewer[r].pc = "store" => renewer[r].new \in 1..issued
    /\ \A v \in Revokers : revoker[v].pc # "idle" => revoker[v].fp \in 1..issued
    /\ row.fp \in 1..issued

\* The CA has been told by everybody who is about to write the revocation down.
ToldFirst == \A v \in Revokers : revoker[v].pc = "mark" => revoker[v].fp \in caRevoked

MarkedIsStatus == marked = (IF row.status = "REVOKED" THEN 1 ELSE 0)

Inv == TypeOK /\ Carried /\ ToldFirst /\ MarkedIsStatus /\ AnsweredMeansRevoked

\* What one step does to a row that is already revoked.
HistoryStep ==
    row.status = "REVOKED"
      => row'.status = "REVOKED" /\ row'.fp = row.fp /\ row'.key = row.key

LEMMA InitInv == Init => Inv
<1>. SUFFICES ASSUME Init PROVE Inv
  OBVIOUS
<1>1. 1 \in Signed /\ 1 \in 1..1 /\ 0 \in 0..MaxAbandons
  BY RecordAssumption DEF Signed
<1>2. IdleRenewer \in RenewerState /\ IdleRevoker \in RevokerState
  BY DEF IdleRenewer, IdleRevoker, RenewerState, RevokerState, Statuses,
         LiveStatuses, SignedOrNone
<1>3. TypeOK
  <2>1. row \in Row /\ row.revokedAt = FALSE /\ row.status = "ISSUED"
    <3>1. PICK c \in {"CERTPILOT", "ELSEWHERE"} :
             row = [custody |-> c, status |-> "ISSUED", revokedAt |-> FALSE, fp |-> 1,
                    key |-> IF c = "CERTPILOT" THEN 1 ELSE None, prev |-> None]
      BY DEF Init
    <3>2. (IF c = "CERTPILOT" THEN 1 ELSE None) \in SignedOrNone
      BY <1>1 DEF SignedOrNone
    <3>. QED
      BY <1>1, <3>1, <3>2 DEF Row, Statuses, LiveStatuses, SignedOrNone
  <2>2. renewer \in [Renewers -> RenewerState] /\ revoker \in [Revokers -> RevokerState]
    BY <1>2 DEF Init
  <2>3. /\ issued \in Signed /\ caRevoked \subseteq 1..issued
        /\ answered \subseteq 1..issued
    BY <1>1 DEF Init
  <2>4. abandons \in 0..MaxAbandons /\ marked \in 0..2
    BY <1>1 DEF Init
  <2>. QED
    BY <2>1, <2>2, <2>3, <2>4 DEF TypeOK
<1>4. Carried /\ ToldFirst /\ MarkedIsStatus /\ AnsweredMeansRevoked
  BY <1>1 DEF Init, Carried, ToldFirst, MarkedIsStatus, AnsweredMeansRevoked,
              IdleRenewer, IdleRevoker
<1>. QED
  BY <1>3, <1>4 DEF Inv

\* A step of a renewer touches no revoker, no revocation and no answer, so what
\* is left to show of it is small.
LEMMA RenewerFrame ==
    ASSUME Inv,
           NEW r \in Renewers, NEW s \in RenewerState,
           renewer' = [renewer EXCEPT ![r] = s],
           issued' \in Signed, issued' >= issued,
           caRevoked \subseteq caRevoked', caRevoked' \subseteq 1..issued',
           row' \in Row,
           row'.revokedAt = (row'.status = "REVOKED"),
           row'.status = "REVOKED" <=> row.status = "REVOKED",
           row'.fp \in 1..issued',
           s.pc # "idle" => s.fp \in 1..issued',
           s.pc = "store" => s.new \in 1..issued',
           abandons' \in 0..MaxAbandons,
           UNCHANGED <<revoker, marked, answered>>
    PROVE  Inv'
<1>1. 1..issued \subseteq 1..issued'
  BY DEF Inv, TypeOK, Signed
<1>2. TypeOK'
  BY <1>1 DEF Inv, TypeOK
<1>3. Carried'
  BY <1>1 DEF Inv, TypeOK, Carried
<1>4. ToldFirst'
  BY DEF Inv, ToldFirst
<1>5. MarkedIsStatus'
  BY DEF Inv, MarkedIsStatus
<1>6. AnsweredMeansRevoked'
  BY DEF Inv, AnsweredMeansRevoked
<1>. QED
  BY <1>2, <1>3, <1>4, <1>5, <1>6 DEF Inv

\* The same for a step of a revoker that leaves the row alone.
LEMMA RevokerFrame ==
    ASSUME Inv,
           NEW v \in Revokers, NEW s \in RevokerState,
           revoker' = [revoker EXCEPT ![v] = s],
           caRevoked \subseteq caRevoked', caRevoked' \subseteq 1..issued,
           s.pc # "idle" => s.fp \in 1..issued,
           s.pc = "mark" => s.fp \in caRevoked',
           abandons' \in 0..MaxAbandons,
           answered' \subseteq 1..issued, answered' \subseteq caRevoked',
           UNCHANGED <<row, issued, renewer, marked>>
    PROVE  Inv'
<1>2. TypeOK'
  BY DEF Inv, TypeOK
<1>3. Carried'
  BY DEF Inv, TypeOK, Carried
<1>4. ToldFirst'
  BY DEF Inv, ToldFirst, TypeOK
<1>5. MarkedIsStatus'
  BY DEF Inv, MarkedIsStatus
<1>6. AnsweredMeansRevoked'
  BY DEF Inv, AnsweredMeansRevoked
<1>. QED
  BY <1>2, <1>3, <1>4, <1>5, <1>6 DEF Inv

LEMMA RenewerStepInv ==
    ASSUME Inv, NEW r \in Renewers, RenewerStep(r)
    PROVE  Inv' /\ HistoryStep
<1>0. /\ TypeOK /\ row \in Row /\ row.revokedAt = (row.status = "REVOKED")
      /\ row.status \in Statuses /\ row.fp \in 1..issued /\ issued \in Signed
      /\ renewer[r] \in RenewerState
      /\ renewer[r].pc # "idle" => renewer[r].fp \in 1..issued
      /\ renewer[r].pc = "store" => renewer[r].new \in 1..issued
      /\ caRevoked \subseteq 1..issued /\ abandons \in 0..MaxAbandons
      /\ MaxIssued \in Nat /\ MaxAbandons \in Nat
  BY RecordAssumption DEF Inv, TypeOK, Carried, Row
<1>00. /\ 1..issued \subseteq Signed /\ Signed \subseteq SignedOrNone
       /\ issued \in Nat /\ issued >= issued /\ None \in SignedOrNone
       /\ IdleRenewer \in RenewerState /\ IdleRenewer.pc = "idle"
  BY <1>0 DEF Signed, SignedOrNone, IdleRenewer, RenewerState, Statuses, LiveStatuses
<1>1. CASE ReadRecord(r)
  <2>. DEFINE s == [pc |-> "sign", status |-> row.status, fp |-> row.fp, new |-> None]
  <2>1. s \in RenewerState /\ s.pc = "sign" /\ s.fp = row.fp
    BY <1>0, <1>00 DEF RenewerState
  <2>2. /\ renewer' = [renewer EXCEPT ![r] = s]
        /\ UNCHANGED <<row, issued, caRevoked, revoker, abandons, marked, answered>>
    BY <1>1 DEF ReadRecord
  <2>. HIDE DEF s
  <2>. QED
    BY <1>0, <1>00, <2>1, <2>2, RenewerFrame DEF HistoryStep
<1>2. CASE SignSucceeds(r)
  <2>. DEFINE s == [renewer[r] EXCEPT !.pc = "store", !.new = issued + 1]
  <2>0. issued' = issued + 1 /\ issued < MaxIssued /\ renewer[r].pc = "sign"
    BY <1>2 DEF SignSucceeds
  <2>1. /\ issued' \in Signed /\ issued' >= issued /\ issued + 1 \in 1..issued'
        /\ 1..issued \subseteq 1..issued' /\ issued + 1 \in Signed
    BY <1>0, <1>00, <2>0 DEF Signed
  <2>2. s \in RenewerState /\ s.fp = renewer[r].fp /\ s.new = issued + 1
    BY <1>0, <1>00, <2>1 DEF RenewerState
  <2>3. UNCHANGED <<row, caRevoked, revoker, abandons, marked, answered>>
    BY <1>2 DEF SignSucceeds
  <2>4. \/ renewer' = [renewer EXCEPT ![r] = s]
        \/ renewer' = [renewer EXCEPT ![r] = IdleRenewer]
    BY <1>2 DEF SignSucceeds, RenewerEnds
  <2>. HIDE DEF s
  <2>5. CASE renewer' = [renewer EXCEPT ![r] = s]
    BY <1>0, <2>0, <2>1, <2>2, <2>3, <2>5, RenewerFrame DEF HistoryStep
  <2>6. CASE renewer' = [renewer EXCEPT ![r] = IdleRenewer]
    BY <1>0, <1>00, <2>0, <2>1, <2>3, <2>6, RenewerFrame DEF HistoryStep
  <2>. QED
    BY <2>4, <2>5, <2>6
<1>3. CASE SignFails(r)
  <2>. DEFINE s == [renewer[r] EXCEPT !.pc = "failed"]
  <2>0. /\ renewer[r].pc = "sign"
        /\ UNCHANGED <<row, revoker, abandons, marked, answered>>
    BY <1>3 DEF SignFails
  <2>1. /\ issued' \in Signed /\ issued' >= issued /\ 1..issued \subseteq 1..issued'
        /\ caRevoked \subseteq caRevoked' /\ caRevoked' \subseteq 1..issued'
    <3>1. CASE UNCHANGED <<issued, caRevoked>>
      BY <1>0, <1>00, <3>1
    <3>2. CASE /\ issued < MaxIssued
               /\ issued' = issued + 1
               /\ caRevoked' \in {caRevoked, caRevoked \cup {issued + 1}}
      <4>1. /\ issued' \in Signed /\ issued' >= issued
            /\ 1..issued \subseteq 1..issued' /\ issued + 1 \in 1..issued'
        BY <1>0, <1>00, <3>2 DEF Signed
      <4>. QED
        BY <1>0, <3>2, <4>1
    <3>. QED
      BY <1>3, <3>1, <3>2 DEF SignFails
  <2>2. s \in RenewerState /\ s.fp = renewer[r].fp /\ s.pc = "failed"
    BY <1>0 DEF RenewerState
  <2>4. \/ renewer' = [renewer EXCEPT ![r] = s]
        \/ renewer' = [renewer EXCEPT ![r] = IdleRenewer]
    <3>1. CASE row.custody = "CERTPILOT"
      <4>1. renewer' = [renewer EXCEPT ![r].pc = "failed"]
        BY <1>3, <3>1 DEF SignFails, RenewerGoes
      <4>. QED
        BY <4>1
    <3>2. CASE row.custody # "CERTPILOT"
      BY <1>3, <3>2 DEF SignFails, RenewerEnds
    <3>. QED
      BY <3>1, <3>2
  <2>. HIDE DEF s
  <2>5. CASE renewer' = [renewer EXCEPT ![r] = s]
    BY <1>0, <2>0, <2>1, <2>2, <2>5, RenewerFrame DEF HistoryStep
  <2>6. CASE renewer' = [renewer EXCEPT ![r] = IdleRenewer]
    BY <1>0, <1>00, <2>0, <2>1, <2>6, RenewerFrame DEF HistoryStep
  <2>. QED
    BY <2>4, <2>5, <2>6
<1>4. CASE RecordFailure(r)
  <2>1. /\ renewer[r].pc = "failed"
        /\ UpdateCertificate("RENEWAL_FAILED", renewer[r].fp, None)
        /\ renewer' = [renewer EXCEPT ![r] = IdleRenewer]
        /\ UNCHANGED <<issued, caRevoked, revoker, abandons, marked, answered>>
    BY <1>4 DEF RecordFailure, RenewerEnds
  <2>2. renewer[r].fp \in 1..issued /\ renewer[r].fp \in Signed
        /\ "RENEWAL_FAILED" \in LiveStatuses
    BY <1>0, <1>00, <2>1 DEF LiveStatuses
  <2>3. /\ row' \in Row /\ row'.revokedAt = (row'.status = "REVOKED")
        /\ row.status = "REVOKED" => row' = row
        /\ row'.status = "REVOKED" <=> row.status = "REVOKED"
        /\ row'.fp \in 1..issued
    BY <1>0, <1>00, <2>1, <2>2, UpdateKeepsRevoked
  <2>. QED
    BY <1>0, <1>00, <2>1, <2>3, RenewerFrame DEF HistoryStep
<1>5. CASE StoreRenewal(r)
  <2>. DEFINE key == IF row.custody = "CERTPILOT" THEN renewer[r].new ELSE None
              s == [renewer[r] EXCEPT !.pc = "schedule"]
  <2>1. /\ renewer[r].pc = "store"
        /\ UpdateCertificate("ISSUED", renewer[r].new, key)
        /\ UNCHANGED <<issued, caRevoked, revoker, abandons, marked, answered>>
    BY <1>5 DEF StoreRenewal
  <2>2. /\ renewer[r].new \in 1..issued /\ renewer[r].fp \in 1..issued
        /\ renewer[r].new \in Signed
        /\ "ISSUED" \in LiveStatuses /\ key \in SignedOrNone
    BY <1>0, <1>00, <2>1 DEF LiveStatuses
  <2>3. \/ renewer' = [renewer EXCEPT ![r].pc = "schedule"]
        \/ renewer' = [renewer EXCEPT ![r] = IdleRenewer]
    BY <1>5 DEF StoreRenewal, RenewerGoes, RenewerEnds
  <2>4. \/ renewer' = [renewer EXCEPT ![r] = s]
        \/ renewer' = [renewer EXCEPT ![r] = IdleRenewer]
    BY <2>3
  <2>6. s \in RenewerState /\ s.fp = renewer[r].fp /\ s.pc = "schedule"
    BY <1>0 DEF RenewerState
  <2>. HIDE DEF s, key
  <2>7. /\ row' \in Row /\ row'.revokedAt = (row'.status = "REVOKED")
        /\ row.status = "REVOKED" => row' = row
        /\ row'.status = "REVOKED" <=> row.status = "REVOKED"
        /\ row'.fp \in 1..issued
    BY <1>0, <1>00, <2>1, <2>2, UpdateKeepsRevoked
  <2>8. CASE renewer' = [renewer EXCEPT ![r] = s]
    BY <1>0, <1>00, <2>1, <2>2, <2>6, <2>7, <2>8, RenewerFrame DEF HistoryStep
  <2>9. CASE renewer' = [renewer EXCEPT ![r] = IdleRenewer]
    BY <1>0, <1>00, <2>1, <2>7, <2>9, RenewerFrame DEF HistoryStep
  <2>. QED
    BY <2>4, <2>8, <2>9
<1>6. CASE ScheduleVerification(r)
  <2>1. /\ renewer[r].pc = "schedule"
        /\ row' = [row EXCEPT !.prev = renewer[r].fp]
        /\ renewer' = [renewer EXCEPT ![r] = IdleRenewer]
        /\ UNCHANGED <<issued, caRevoked, revoker, abandons, marked, answered>>
    BY <1>6 DEF ScheduleVerification, RenewerEnds
  <2>2. renewer[r].fp \in SignedOrNone
    BY <1>0, <1>00, <2>1
  <2>3. /\ row' \in Row /\ row'.revokedAt = row.revokedAt /\ row'.status = row.status
        /\ row'.fp = row.fp /\ row'.key = row.key
    BY <1>0, <2>1, <2>2 DEF Row
  <2>. QED
    BY <1>0, <1>00, <2>1, <2>3, RenewerFrame DEF HistoryStep
<1>7. CASE AbandonRenewal(r)
  <2>1. /\ abandons' \in 0..MaxAbandons
        /\ renewer' = [renewer EXCEPT ![r] = IdleRenewer]
        /\ UNCHANGED <<row, issued, caRevoked, revoker, marked, answered>>
    BY <1>0, <1>7 DEF AbandonRenewal, RenewerEnds
  <2>. QED
    BY <1>0, <1>00, <2>1, RenewerFrame DEF HistoryStep
<1>. QED
  BY <1>1, <1>2, <1>3, <1>4, <1>5, <1>6, <1>7 DEF RenewerStep

LEMMA RevokerStepInv ==
    ASSUME Inv, NEW v \in Revokers, RevokerStep(v)
    PROVE  Inv' /\ HistoryStep
<1>0. /\ row \in Row /\ row.revokedAt = (row.status = "REVOKED")
      /\ row.fp \in 1..issued /\ issued \in Signed
      /\ revoker[v] \in RevokerState
      /\ revoker[v].pc # "idle" => revoker[v].fp \in 1..issued
      /\ revoker[v].pc = "mark" => revoker[v].fp \in caRevoked
      /\ caRevoked \subseteq 1..issued /\ abandons \in 0..MaxAbandons
      /\ answered \subseteq 1..issued /\ answered \subseteq caRevoked
      /\ MaxAbandons \in Nat /\ MaxIssued \in Nat
      /\ marked = (IF row.status = "REVOKED" THEN 1 ELSE 0)
  BY RecordAssumption DEF Inv, TypeOK, Carried, ToldFirst, AnsweredMeansRevoked,
                          MarkedIsStatus
<1>00. /\ 1..issued \subseteq Signed /\ Signed \subseteq SignedOrNone
       /\ IdleRevoker \in RevokerState /\ IdleRevoker.pc = "idle"
  BY <1>0 DEF Signed, SignedOrNone, IdleRevoker, RevokerState
<1>1. CASE ReadForRevocation(v)
  <2>. DEFINE s == [pc |-> "tell", fp |-> row.fp, replaced |-> FALSE]
  <2>1. s \in RevokerState /\ s.pc = "tell" /\ s.fp \in 1..issued
    BY <1>0, <1>00 DEF RevokerState
  <2>2. /\ revoker' = [revoker EXCEPT ![v] = s]
        /\ UNCHANGED <<row, issued, caRevoked, renewer, abandons, marked, answered>>
    BY <1>1 DEF ReadForRevocation
  <2>. HIDE DEF s
  <2>. QED
    BY <1>0, <2>1, <2>2, RevokerFrame DEF HistoryStep
<1>2. CASE NotFoundByFingerprint(v)
  <2>1. PICK f \in 1..issued :
          revoker' = [revoker EXCEPT ![v] =
                        [pc |-> "superseded", fp |-> f, replaced |-> FALSE]]
    BY <1>2 DEF NotFoundByFingerprint
  <2>. DEFINE s == [pc |-> "superseded", fp |-> f, replaced |-> FALSE]
  <2>2. s \in RevokerState /\ s.pc = "superseded" /\ s.fp \in 1..issued
    BY <1>0, <1>00 DEF RevokerState
  <2>3. /\ revoker' = [revoker EXCEPT ![v] = s]
        /\ UNCHANGED <<row, issued, caRevoked, renewer, abandons, marked, answered>>
    BY <1>2, <2>1 DEF NotFoundByFingerprint
  <2>. HIDE DEF s
  <2>. QED
    BY <1>0, <2>2, <2>3, RevokerFrame DEF HistoryStep
<1>3. CASE FindBySuperseded(v)
  <2>. DEFINE s == [revoker[v] EXCEPT !.pc = "tell", !.replaced = TRUE]
  <2>1. revoker[v].pc = "superseded" /\ revoker[v].fp \in 1..issued
    BY <1>0, <1>3 DEF FindBySuperseded
  <2>2. s \in RevokerState /\ s.pc = "tell" /\ s.fp \in 1..issued
    BY <1>0, <2>1 DEF RevokerState
  <2>3. /\ \/ revoker' = [revoker EXCEPT ![v] = s]
           \/ revoker' = [revoker EXCEPT ![v] = IdleRevoker]
        /\ UNCHANGED <<row, issued, caRevoked, renewer, abandons, marked, answered>>
    BY <1>3 DEF FindBySuperseded, RevokerEnds
  <2>. HIDE DEF s
  <2>4. CASE revoker' = [revoker EXCEPT ![v] = s]
    BY <1>0, <2>2, <2>3, <2>4, RevokerFrame DEF HistoryStep
  <2>5. CASE revoker' = [revoker EXCEPT ![v] = IdleRevoker]
    BY <1>0, <1>00, <2>3, <2>5, RevokerFrame DEF HistoryStep
  <2>. QED
    BY <2>3, <2>4, <2>5
<1>4. CASE TellCA(v)
  <2>. DEFINE s == [revoker[v] EXCEPT !.pc = "mark"]
  <2>1. /\ revoker[v].pc = "tell" /\ revoker[v].fp \in 1..issued
        /\ caRevoked' = caRevoked \cup {revoker[v].fp}
        /\ UNCHANGED <<row, issued, renewer, abandons, marked>>
    BY <1>0, <1>4 DEF TellCA, CertificateToRevoke
  <2>2. s \in RevokerState /\ s.pc = "mark" /\ s.fp = revoker[v].fp
    BY <1>0 DEF RevokerState
  <2>3. /\ caRevoked \subseteq caRevoked' /\ caRevoked' \subseteq 1..issued
        /\ revoker[v].fp \in caRevoked'
    BY <1>0, <2>1
  <2>4. \/ /\ revoker' = [revoker EXCEPT ![v] = s]
           /\ answered' = answered
        \/ /\ revoker' = [revoker EXCEPT ![v] = IdleRevoker]
           /\ answered' = answered \cup {revoker[v].fp}
    BY <1>4 DEF TellCA, RevokerEnds
  <2>5. answered' \subseteq 1..issued /\ answered' \subseteq caRevoked'
    BY <1>0, <2>1, <2>3, <2>4
  <2>. HIDE DEF s
  <2>6. CASE revoker' = [revoker EXCEPT ![v] = s]
    BY <1>0, <2>1, <2>2, <2>3, <2>5, <2>6, RevokerFrame DEF HistoryStep
  <2>7. CASE revoker' = [revoker EXCEPT ![v] = IdleRevoker]
    BY <1>0, <1>00, <2>1, <2>3, <2>5, <2>7, RevokerFrame DEF HistoryStep
  <2>. QED
    BY <2>4, <2>6, <2>7
<1>5. CASE TellCAFails(v)
  <2>1. /\ revoker[v].pc = "tell" /\ revoker[v].fp \in 1..issued
        /\ caRevoked' \in {caRevoked, caRevoked \cup {revoker[v].fp}}
        /\ revoker' = [revoker EXCEPT ![v] = IdleRevoker]
        /\ UNCHANGED <<row, issued, renewer, abandons, marked, answered>>
    BY <1>0, <1>5 DEF TellCAFails, CertificateToRevoke, RevokerEnds
  <2>2. caRevoked \subseteq caRevoked' /\ caRevoked' \subseteq 1..issued
    BY <1>0, <2>1
  <2>3. answered' \subseteq 1..issued /\ answered' \subseteq caRevoked'
    BY <1>0, <2>1, <2>2
  <2>. QED
    BY <1>0, <1>00, <2>1, <2>2, <2>3, RevokerFrame DEF HistoryStep
<1>6. CASE MarkCertificateRevoked(v)
  <2>1. /\ revoker[v].pc = "mark" /\ revoker[v].fp \in caRevoked
        /\ revoker[v].fp \in 1..issued
        /\ revoker' = [revoker EXCEPT ![v] = IdleRevoker]
        /\ UNCHANGED <<issued, caRevoked, renewer, abandons>>
    BY <1>0, <1>6 DEF MarkCertificateRevoked, RevokerEnds
  <2>2. CASE row.status = "REVOKED"
    <3>1. UNCHANGED <<row, marked, answered>>
      BY <1>6, <2>2 DEF MarkCertificateRevoked, MayMark
    <3>. QED
      BY <1>0, <1>00, <2>1, <3>1, RevokerFrame DEF HistoryStep
  <2>3. CASE row.status # "REVOKED"
    <3>1. /\ row' = [row EXCEPT !.status = "REVOKED", !.revokedAt = TRUE]
          /\ marked' = IF marked < 2 THEN marked + 1 ELSE 2
          /\ answered' = answered \cup {revoker[v].fp}
      BY <1>6, <2>3 DEF MarkCertificateRevoked, MayMark
    <3>2. marked = 0 /\ marked' = 1
      BY <1>0, <2>3, <3>1
    <3>3. row' \in Row /\ row'.status = "REVOKED" /\ row'.revokedAt = TRUE
          /\ row'.fp = row.fp
      BY <1>0, <3>1 DEF Row, Statuses
    <3>4. TypeOK'
      <4>1. TypeOK
        BY DEF Inv
      <4>2. revoker' \in [Revokers -> RevokerState]
        BY <1>00, <2>1, <4>1 DEF TypeOK
      <4>3. answered' \subseteq 1..issued' /\ marked' \in 0..2
        BY <1>0, <2>1, <3>1, <3>2
      <4>4. row' \in Row /\ row'.revokedAt = (row'.status = "REVOKED")
        BY <3>3
      <4>. QED
        BY <2>1, <4>1, <4>2, <4>3, <4>4 DEF TypeOK
    <3>5. Carried'
      BY <1>0, <1>00, <2>1, <3>3 DEF Inv, Carried, TypeOK
    <3>6. ToldFirst'
      BY <1>00, <2>1 DEF Inv, ToldFirst, TypeOK
    <3>7. MarkedIsStatus' /\ AnsweredMeansRevoked'
      BY <1>0, <2>1, <3>1, <3>2, <3>3 DEF MarkedIsStatus, AnsweredMeansRevoked
    <3>. QED
      BY <2>3, <3>4, <3>5, <3>6, <3>7 DEF Inv, HistoryStep
  <2>. QED
    BY <2>2, <2>3
<1>7. CASE AbandonRevocation(v)
  <2>1. /\ abandons' \in 0..MaxAbandons
        /\ revoker' = [revoker EXCEPT ![v] = IdleRevoker]
        /\ UNCHANGED <<row, issued, caRevoked, renewer, marked, answered>>
    BY <1>0, <1>7 DEF AbandonRevocation, RevokerEnds
  <2>. QED
    BY <1>0, <1>00, <2>1, RevokerFrame DEF HistoryStep
<1>. QED
  BY <1>1, <1>2, <1>3, <1>4, <1>5, <1>6, <1>7 DEF RevokerStep

LEMMA StepInv == Inv /\ [Next]_vars => Inv' /\ [HistoryStep]_vars
<1>. SUFFICES ASSUME Inv, [Next]_vars PROVE Inv' /\ [HistoryStep]_vars
  OBVIOUS
<1>1. CASE UNCHANGED vars
  BY <1>1 DEF vars, Inv, TypeOK, Carried, ToldFirst, MarkedIsStatus,
              AnsweredMeansRevoked, HistoryStep
<1>2. CASE Next
  BY <1>2, RenewerStepInv, RevokerStepInv DEF Next
<1>. QED
  BY <1>1, <1>2

\* The invariant the theorems below are read off: besides the types, every
\* certificate a request carries was signed, and whoever is about to write a
\* revocation down has told the CA about its certificate.
THEOREM Invariance == Spec => []Inv
BY InitInv, StepInv, PTL DEF Spec

\* The row and every request in flight keep their declared shape, and status and
\* revoked_at agree at every moment.
THEOREM RecordTypeCorrect == Spec => []TypeOK
<1>1. Inv => TypeOK
  BY DEF Inv
<1>. QED
  BY Invariance, <1>1, PTL

\* No renewal in flight, whatever it read and however late it writes, brings a
\* revoked record back (UpdateCertificate under certificates_revocation_consistent).
THEOREM RevokedStaysHistory == Spec => RevokedIsHistory
<1>1. Inv /\ [Next]_vars
        => [row.status = "REVOKED"
              => row'.status = "REVOKED" /\ row'.fp = row.fp /\ row'.key = row.key]_vars
  BY StepInv DEF HistoryStep
<1>. QED
  BY Invariance, <1>1, PTL DEF Spec, RevokedIsHistory

\* Any number of concurrent revocations write one revocation into the row
\* (MarkCertificateRevoked).
THEOREM RevocationRecordedOnce == Spec => []RecordedOnce
<1>1. Inv => RecordedOnce
  BY DEF Inv, MarkedIsStatus, RecordedOnce
<1>. QED
  BY Invariance, <1>1, PTL

\* A revocation reported as done was carried out by the CA on the certificate
\* that was asked about (Revoke, RevokeReplaced).
THEOREM AnsweredWasRevoked == Spec => []AnsweredMeansRevoked
<1>1. Inv => AnsweredMeansRevoked
  BY DEF Inv
<1>. QED
  BY Invariance, <1>1, PTL

-----------------------------------------------------------------------------
(* The key and the certificate, when the queue keeps its promise that one   *)
(* renewal of a record is in flight at a time                               *)

\* Whoever has read the record and not written it yet has read what is in it.
ReadIsCurrent ==
    \A r \in Renewers : renewer[r].pc \in {"sign", "store", "failed"}
                         => renewer[r].fp = row.fp

KeyInv == row.custody = "CERTPILOT" => ReadIsCurrent /\ row.key = row.fp

\* No statement changes who holds the key.
LEMMA CustodyKept ==
    ASSUME row \in Row, [Next]_vars
    PROVE  row'.custody = row.custody
<1>1. ASSUME NEW r \in Renewers, RenewerStep(r) PROVE row'.custody = row.custody
  <2>1. ASSUME NEW st, NEW fp, NEW key, UpdateCertificate(st, fp, key)
        PROVE  row'.custody = row.custody
    BY <2>1 DEF UpdateCertificate, Updated, Row
  <2>2. CASE RecordFailure(r)
    BY <2>1, <2>2 DEF RecordFailure
  <2>3. CASE StoreRenewal(r)
    BY <2>1, <2>3 DEF StoreRenewal
  <2>4. CASE ScheduleVerification(r)
    BY <2>4 DEF ScheduleVerification, Row
  <2>5. CASE UNCHANGED row
    BY <2>5
  <2>. QED
    BY <1>1, <2>2, <2>3, <2>4, <2>5
       DEF RenewerStep, ReadRecord, SignSucceeds, SignFails, AbandonRenewal
<1>2. ASSUME NEW v \in Revokers, RevokerStep(v) PROVE row'.custody = row.custody
  <2>1. CASE MarkCertificateRevoked(v)
    BY <2>1 DEF MarkCertificateRevoked, Row
  <2>2. CASE UNCHANGED row
    BY <2>2
  <2>. QED
    BY <1>2, <2>1, <2>2 DEF RevokerStep, ReadForRevocation, NotFoundByFingerprint,
       FindBySuperseded, TellCA, TellCAFails, AbandonRevocation
<1>3. CASE UNCHANGED vars
  BY <1>3 DEF vars
<1>. QED
  BY <1>1, <1>2, <1>3 DEF Next

\* One renewer's step keeps the pair: a success writes both halves, a failure
\* writes back the certificate that is there and leaves the key alone.
LEMMA KeyStep ==
    ASSUME \A a, b \in Renewers : a = b, Inv, KeyInv, [Next]_vars
    PROVE  KeyInv'
<1>. SUFFICES ASSUME row.custody = "CERTPILOT"
              PROVE  ReadIsCurrent' /\ row'.key = row'.fp
  BY CustodyKept DEF KeyInv, Inv, TypeOK
<1>0. /\ TypeOK /\ ReadIsCurrent /\ row.key = row.fp
      /\ row \in Row /\ row.revokedAt = (row.status = "REVOKED")
  BY DEF Inv, TypeOK, KeyInv
<1>1. ASSUME row'.fp = row.fp, row'.key = row.key, UNCHANGED renewer
      PROVE  ReadIsCurrent' /\ row'.key = row'.fp
  BY <1>0, <1>1 DEF ReadIsCurrent
<1>2. ASSUME NEW r \in Renewers, RenewerStep(r)
      PROVE  ReadIsCurrent' /\ row'.key = row'.fp
  <2>0. /\ renewer[r] \in RenewerState /\ renewer \in [Renewers -> RenewerState]
        /\ renewer[r].pc # "idle" => renewer[r].fp \in Signed
        /\ renewer[r].pc = "store" => renewer[r].new \in Signed
        /\ IdleRenewer.pc = "idle"
    <3>1. issued \in 1..MaxIssued /\ MaxIssued \in Nat
      BY RecordAssumption DEF Inv, TypeOK, Signed
    <3>2. 1..issued \subseteq Signed
      BY <3>1 DEF Signed
    <3>. QED
      BY <3>2 DEF Inv, TypeOK, Carried, IdleRenewer
  <2>1. ASSUME NEW s, renewer' = [renewer EXCEPT ![r] = s],
               s.pc \in {"sign", "store", "failed"} => s.fp = row'.fp
        PROVE  ReadIsCurrent'
    BY <2>0, <2>1 DEF ReadIsCurrent
  <2>2. CASE ReadRecord(r)
    <3>. DEFINE s == [pc |-> "sign", status |-> row.status, fp |-> row.fp, new |-> None]
    <3>1. renewer' = [renewer EXCEPT ![r] = s] /\ row' = row
      BY <2>2 DEF ReadRecord
    <3>2. s.fp = row.fp
      OBVIOUS
    <3>. HIDE DEF s
    <3>. QED
      BY <1>0, <2>1, <3>1, <3>2
  <2>3. CASE SignSucceeds(r)
    <3>. DEFINE s == [renewer[r] EXCEPT !.pc = "store", !.new = issued + 1]
    <3>1. renewer[r].pc = "sign" /\ row' = row
      BY <2>3 DEF SignSucceeds
    <3>2. \/ renewer' = [renewer EXCEPT ![r] = s]
          \/ renewer' = [renewer EXCEPT ![r] = IdleRenewer]
      BY <2>3 DEF SignSucceeds, RenewerEnds
    <3>3. s.fp = row.fp
      BY <1>0, <2>0, <3>1 DEF ReadIsCurrent, RenewerState
    <3>. HIDE DEF s
    <3>. QED
      BY <1>0, <2>0, <2>1, <3>1, <3>2, <3>3
  <2>4. CASE SignFails(r)
    <3>. DEFINE s == [renewer[r] EXCEPT !.pc = "failed"]
    <3>1. /\ renewer[r].pc = "sign" /\ row' = row
          /\ renewer' = [renewer EXCEPT ![r].pc = "failed"]
      BY <2>4 DEF SignFails, RenewerGoes
    <3>2. renewer' = [renewer EXCEPT ![r] = s]
      BY <3>1
    <3>3. s.fp = row.fp
      BY <1>0, <2>0, <3>1 DEF ReadIsCurrent, RenewerState
    <3>. HIDE DEF s
    <3>. QED
      BY <1>0, <2>1, <3>1, <3>2, <3>3
  <2>5. CASE RecordFailure(r)
    <3>1. /\ renewer[r].pc = "failed"
          /\ UpdateCertificate("RENEWAL_FAILED", renewer[r].fp, None)
          /\ renewer' = [renewer EXCEPT ![r] = IdleRenewer]
      BY <2>5 DEF RecordFailure, RenewerEnds
    <3>2. /\ renewer[r].fp = row.fp /\ renewer[r].fp \in Signed
          /\ "RENEWAL_FAILED" \in LiveStatuses /\ None \in SignedOrNone
      BY <1>0, <2>0, <3>1 DEF ReadIsCurrent, LiveStatuses, SignedOrNone
    <3>3. row'.fp = row.fp /\ row'.key = row.key
      BY <1>0, <3>1, <3>2, UpdateKeepsRevoked
    <3>. QED
      BY <1>0, <2>0, <2>1, <3>1, <3>3
  <2>6. CASE StoreRenewal(r)
    <3>. DEFINE n == renewer[r].new
    <3>1. renewer[r].pc = "store" /\ UpdateCertificate("ISSUED", n, n)
      BY <2>6 DEF StoreRenewal
    <3>2. n \in Signed /\ n \in SignedOrNone /\ n # None /\ "ISSUED" \in LiveStatuses
      BY <2>0, <3>1 DEF Signed, SignedOrNone, None, LiveStatuses
    <3>. HIDE DEF n
    <3>3. row'.key = row'.fp
      BY <1>0, <3>1, <3>2, UpdateKeepsRevoked
    <3>4. \/ renewer' = [renewer EXCEPT ![r].pc = "schedule"]
          \/ renewer' = [renewer EXCEPT ![r] = IdleRenewer]
      BY <2>6 DEF StoreRenewal, RenewerGoes, RenewerEnds
    <3>5. renewer'[r].pc \in {"schedule", "idle"}
      BY <2>0, <3>4 DEF RenewerState
    <3>6. ReadIsCurrent'
      BY <3>5 DEF ReadIsCurrent
    <3>. QED
      BY <3>3, <3>6
  <2>7. CASE ScheduleVerification(r)
    <3>1. /\ row' = [row EXCEPT !.prev = renewer[r].fp]
          /\ renewer' = [renewer EXCEPT ![r] = IdleRenewer]
      BY <2>7 DEF ScheduleVerification, RenewerEnds
    <3>2. row'.fp = row.fp /\ row'.key = row.key
      BY <1>0, <3>1 DEF Row
    <3>. QED
      BY <1>0, <2>0, <2>1, <3>1, <3>2
  <2>8. CASE AbandonRenewal(r)
    <3>1. row' = row /\ renewer' = [renewer EXCEPT ![r] = IdleRenewer]
      BY <2>8 DEF AbandonRenewal, RenewerEnds
    <3>. QED
      BY <1>0, <2>0, <2>1, <3>1
  <2>. QED
    BY <1>2, <2>2, <2>3, <2>4, <2>5, <2>6, <2>7, <2>8 DEF RenewerStep
<1>3. ASSUME NEW v \in Revokers, RevokerStep(v)
      PROVE  ReadIsCurrent' /\ row'.key = row'.fp
  <2>1. CASE MarkCertificateRevoked(v)
    <3>1. /\ UNCHANGED renewer
          /\ \/ row' = row
             \/ row' = [row EXCEPT !.status = "REVOKED", !.revokedAt = TRUE]
      BY <2>1 DEF MarkCertificateRevoked
    <3>2. row'.fp = row.fp /\ row'.key = row.key
      BY <1>0, <3>1 DEF Row
    <3>. QED
      BY <1>1, <3>1, <3>2
  <2>2. CASE ~MarkCertificateRevoked(v)
    <3>1. UNCHANGED <<row, renewer>>
      BY <1>3, <2>2 DEF RevokerStep, ReadForRevocation, NotFoundByFingerprint,
            FindBySuperseded, TellCA, TellCAFails, AbandonRevocation
    <3>. QED
      BY <1>1, <3>1
  <2>. QED
    BY <2>1, <2>2
<1>4. CASE UNCHANGED vars
  BY <1>1, <1>4 DEF vars
<1>. QED
  BY <1>2, <1>3, <1>4 DEF Next

\* When at most one renewal of the record is in flight, the sealed key is always
\* the key of the stored certificate (UpdateCertificate's COALESCE, recordFailure).
THEOREM KeyStaysMatched ==
    ASSUME \A a, b \in Renewers : a = b
    PROVE  Spec => []KeyMatchesCertificate
<1>1. Init => KeyInv
  BY DEF Init, KeyInv, ReadIsCurrent, IdleRenewer
<1>2. Inv /\ KeyInv /\ [Next]_vars => KeyInv'
  BY KeyStep
<1>3. KeyInv => KeyMatchesCertificate
  BY DEF KeyInv, KeyMatchesCertificate
<1>. QED
  BY Invariance, <1>1, <1>2, <1>3, PTL DEF Spec
=============================================================================
