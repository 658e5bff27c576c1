---------------------------- MODULE Verification ----------------------------
(***************************************************************************)
(* Post-renewal verification: is what was renewed what the endpoints       *)
(* serve? The verifier's ticker and operators both run Verify, which reads *)
(* the certificate, looks up its endpoints, probes each and writes what it *)
(* found; renewals and rollouts reset the same columns meanwhile. One      *)
(* certificate; its fingerprints are numbered by renewal.                  *)
(***************************************************************************)
EXTENDS Integers, Common

CONSTANTS
    ServingHosts,      \* endpoints discovery saw serving the certificate
    MaxRenewals,    \* bound: renewals
    MaxSettled,     \* bound: rollouts that reach every place
    MaxAttempts,    \* verifyMaxAttempts
    MaxAsked        \* bound: verifications asked for by operators

ASSUME VerificationAssumption ==
    /\ MaxRenewals \in Nat /\ MaxSettled \in Nat /\ MaxAttempts \in Nat \ {0} /\ MaxAsked \in Nat
    /\ Nil \notin {"PENDING", "VERIFIED", "STALE", "UNREACHABLE", "NO_ENDPOINTS"}

VARIABLES
    issuedPrint,    \* fingerprint stored: the number of the last renewal
    vRow,           \* the verification columns
    verifying,      \* [Verifiers -> VerifyState]
    staleTold,      \* history: STALE was announced since the state last was another
    outrun,         \* history: the STALE stored was written over columns that had changed
    settledCount,   \* rollouts that reached every place
    verifiesAsked   \* verifications operators asked for

verifyVars == <<issuedPrint, vRow, verifying, staleTold, outrun, settledCount, verifiesAsked>>

Verifiers == {"ticker", "operator"}
Unanswered == -1
OtherName == -2     \* a certificate that does not cover the name
VerdictStates == {Nil, "PENDING", "VERIFIED", "STALE", "UNREACHABLE", "NO_ENDPOINTS"}
\* after: verify_after is "none", in the future, or reached.
VRow == [state : VerdictStates, after : {"none", "later", "now"}, attempts : 0..MaxAttempts + MaxAsked]
VerifyState == [at : {"none", "lookup", "record", "announce"}, row : VRow, print : 0..MaxRenewals,
                verdict : VerdictStates]

NotVerifying == [at |-> "none", row |-> [state |-> Nil, after |-> "none", attempts |-> 0],
                 print |-> 0, verdict |-> Nil]

VerificationInit ==
    /\ issuedPrint = 0 /\ vRow = NotVerifying.row
    /\ verifying = [v \in Verifiers |-> NotVerifying]
    /\ staleTold = FALSE /\ outrun = FALSE /\ settledCount = 0 /\ verifiesAsked = 0

-----------------------------------------------------------------------------
(* Around the verifier.                                                    *)

GraceEnds ==
    /\ vRow.after = "later" /\ vRow' = [vRow EXCEPT !.after = "now"]
    /\ UNCHANGED <<issuedPrint, verifying, staleTold, outrun, settledCount, verifiesAsked>>

\* Renewal and rollout write the columns through UpdateCertificateVerification.
ResetRow == [state |-> "PENDING", after |-> "later", attempts |-> 0]

\* executeRenewal stores the certificate and then schedules the check; when
\* the second write fails nothing checks this renewal.
Renewed(scheduled) ==
    /\ issuedPrint < MaxRenewals /\ issuedPrint' = issuedPrint + 1
    /\ IF scheduled THEN vRow' = ResetRow /\ staleTold' = FALSE /\ outrun' = FALSE
       ELSE UNCHANGED <<vRow, staleTold, outrun>>
    /\ UNCHANGED <<verifying, settledCount, verifiesAsked>>

\* Settled: a rollout reached every place it belongs to, and brings the check
\* forward unless it is near already.
SettledRollout ==
    /\ settledCount < MaxSettled /\ settledCount' = settledCount + 1
    /\ IF vRow.after = "now" THEN UNCHANGED <<vRow, staleTold, outrun>>
       ELSE vRow' = ResetRow /\ staleTold' = FALSE /\ outrun' = FALSE
    /\ UNCHANGED <<issuedPrint, verifying, verifiesAsked>>

-----------------------------------------------------------------------------
(* Verify.                                                                 *)

\* VerifyDue's ticker takes a certificate whose time came, an operator any.
BeginVerify(v) ==
    /\ verifying[v].at = "none"
    /\ \/ v = "ticker" /\ vRow.after = "now" /\ UNCHANGED verifiesAsked
       \/ v = "operator" /\ verifiesAsked < MaxAsked /\ verifiesAsked' = verifiesAsked + 1
    /\ verifying' = [verifying EXCEPT ![v] = [NotVerifying EXCEPT !.at = "lookup", !.row = vRow, !.print = issuedPrint]]
    /\ UNCHANGED <<issuedPrint, vRow, staleTold, outrun, settledCount>>

\* UpdateCertificateVerification, unconditional.
WriteVerdict(v, row) ==
    /\ vRow' = row
    /\ staleTold' = (staleTold /\ row.state = "STALE")
    /\ outrun' = (row.state = "STALE" /\ (outrun \/ verifying[v].row # vRow))

\* No scan ever saw it served: there is nothing to check.
NoEndpoints(v) ==
    /\ verifying[v].at = "lookup"
    /\ WriteVerdict(v, [state |-> "NO_ENDPOINTS", after |-> "none", attempts |-> verifying[v].row.attempts + 1])
    /\ verifying' = [verifying EXCEPT ![v] = NotVerifying]
    /\ UNCHANGED <<issuedPrint, settledCount, verifiesAsked>>

\* The lookup fails: the columns as read, to be tried again.
LookupFails(v) ==
    /\ verifying[v].at = "lookup"
    /\ WriteVerdict(v, [verifying[v].row EXCEPT !.after = "later"])
    /\ verifying' = [verifying EXCEPT ![v] = NotVerifying]
    /\ UNCHANGED <<issuedPrint, settledCount, verifiesAsked>>

\* probeAll: an older certificate, or another name's, outweighs everything.
probeAll(answers, print) ==
    IF \E x \in answers : x \notin {print, Unanswered} THEN "STALE"
    ELSE IF answers = {print} THEN "VERIFIED"
    ELSE "UNREACHABLE"

\* The endpoints GetEndpointsServingCertificate names are asked one by one;
\* each serves something issued so far, another name, or does not answer.
ProbeEndpoints(v) ==
    /\ verifying[v].at = "lookup"
    /\ \E seen \in [ServingHosts -> {Unanswered, OtherName} \cup 0..issuedPrint] :
          verifying' = [verifying EXCEPT ![v].at = "record",
                           ![v].verdict = probeAll({seen[e] : e \in ServingHosts}, verifying[v].print)]
    /\ UNCHANGED <<issuedPrint, vRow, staleTold, outrun, settledCount, verifiesAsked>>

\* Mutant of AttemptsAfter: an attempt that settled nothing is not counted.
AttemptsAfterSettled(w) == IF w.verdict = "VERIFIED" THEN w.row.attempts + 1 ELSE w.row.attempts

AttemptsAfter(w) == w.row.attempts + 1

\* What is not verified is looked at again, MaxAttempts times at most.
VerdictRow(w) ==
    [state |-> w.verdict, attempts |-> AttemptsAfter(w),
     after |-> IF w.verdict # "VERIFIED" /\ AttemptsAfter(w) < MaxAttempts THEN "later" ELSE "none"]

\* Mutant of Announces: only the first verdict after a renewal is news.
AnnouncesFirst(w) == w.verdict = "STALE" /\ w.row.state = "PENDING"

Announces(w) == w.verdict = "STALE" /\ w.row.state # "STALE"

AfterRecord(v) ==
    /\ verifying' = IF Announces(verifying[v]) THEN [verifying EXCEPT ![v].at = "announce"]
                    ELSE [verifying EXCEPT ![v] = NotVerifying]
    /\ UNCHANGED <<issuedPrint, settledCount, verifiesAsked>>

RecordVerdict(v) ==
    /\ verifying[v].at = "record" /\ WriteVerdict(v, VerdictRow(verifying[v])) /\ AfterRecord(v)

\* The write fails, which is only logged.
RecordVerdictLost(v) ==
    /\ verifying[v].at = "record" /\ UNCHANGED <<vRow, staleTold, outrun>> /\ AfterRecord(v)

announceStale(v) ==
    /\ verifying[v].at = "announce"
    /\ staleTold' = (vRow.state = "STALE")
    /\ verifying' = [verifying EXCEPT ![v] = NotVerifying]
    /\ UNCHANGED <<issuedPrint, vRow, outrun, settledCount, verifiesAsked>>

VerifyStep(v) ==
    \/ BeginVerify(v) \/ LookupFails(v) \/ NoEndpoints(v) \/ ProbeEndpoints(v)
    \/ RecordVerdict(v) \/ RecordVerdictLost(v) \/ announceStale(v)

VerificationNext ==
    \/ GraceEnds \/ SettledRollout
    \/ \E b \in BOOLEAN : Renewed(b)
    \/ \E v \in Verifiers : VerifyStep(v)

\* The ticker keeps firing; a lookup and a write tried again and again succeed.
VerificationFairness ==
    /\ WF_verifyVars(GraceEnds) /\ WF_verifyVars(BeginVerify("ticker")) /\ WF_verifyVars(announceStale("ticker"))
    /\ SF_verifyVars(NoEndpoints("ticker") \/ ProbeEndpoints("ticker"))
    /\ SF_verifyVars(RecordVerdict("ticker"))

-----------------------------------------------------------------------------
VerificationTypeOK ==
    /\ issuedPrint \in 0..MaxRenewals /\ vRow \in VRow 
    /\ verifying \in [Verifiers -> VerifyState]
    /\ staleTold \in BOOLEAN /\ outrun \in BOOLEAN
    /\ settledCount \in 0..MaxSettled /\ verifiesAsked \in 0..MaxAsked

\* A check comes to an end: however endpoints, renewals, rollouts and
\* operators behave, a certificate does not stay on the verifier's list.
VerificationEnds == vRow.after # "none" ~> vRow.after = "none"

\* A certificate found not to be served was announced, or is about to be,
\* since it was last anything else; the one way round it is a verdict written
\* over columns that a renewal, a rollout or another check changed meanwhile.
StaleIsTold ==
    vRow.state = "STALE" /\ ~outrun =>
        staleTold \/ \E v \in Verifiers : verifying[v].at = "announce"
=============================================================================
