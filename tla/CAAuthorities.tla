--------------------------- MODULE CAAuthorities ---------------------------
(***************************************************************************)
(* Certificate authorities that are watched: the health check with its     *)
(* expiry alerts (by the monitor of any replica, by hand, and once after   *)
(* registration), the import of issuers from a gateway, and owners. A      *)
(* check, an import and a change of owner read the whole row, may take     *)
(* long, and write the whole row back. Days are scaled down; the           *)
(* revocation answer is left out, it only raises the status.               *)
(***************************************************************************)
EXTENDS Integers, FiniteSetsExt, Common

CONSTANTS
    CAs,            \* authorities, by fingerprint
    CAThresholds,   \* alert_thresholds, in days
    CARuns,         \* checks, imports and requests under way at once
    CADays,         \* days an authority has left at first
    CriticalDays,   \* status CRITICAL at most so many days before expiry
    WarningDays     \* status WARNING

ASSUME CAAssumption ==
    /\ CAThresholds \subseteq Nat /\ CAThresholds # {} /\ Nil \notin CAThresholds
    /\ CADays \in Nat /\ CriticalDays \in Nat /\ WarningDays \in Nat
    /\ Nil \notin CAs

VARIABLES
    daysLeft,       \* [CAs -> Int]: until the certificate of the authority expires
    caRow,          \* [CAs -> CARow]: ca_authorities
    caRun,          \* [CARuns -> CARunState]
    announced       \* history: [CAs -> SUBSET CAThresholds], alerts published

caVars == <<daysLeft, caRow, caRun, announced>>

Alert == CAThresholds \cup {Nil}
CAStatus == {"HEALTHY", "WARNING", "CRITICAL", "EXPIRED"}
CARow == [known : {"no", "yes", "deleted"}, status : CAStatus, last : Alert]
CARunState == [at : {"idle", "check", "save"}, ca : CAs \cup {Nil}, row : CARow]

UnknownCA == [known |-> "no", status |-> "HEALTHY", last |-> Nil]
IdleRun == [at |-> "idle", ca |-> Nil, row |-> UnknownCA]

CAInit ==
    /\ daysLeft = [c \in CAs |-> CADays]
    /\ caRow = [c \in CAs |-> UnknownCA]
    /\ caRun = [r \in CARuns |-> IdleRun]
    /\ announced = [c \in CAs |-> {}]

-----------------------------------------------------------------------------
(* Registration, import, owner: whole rows.                                *)

Known(c) == caRow[c].known = "yes"

DayPasses(c) ==
    /\ daysLeft[c] > -1
    /\ daysLeft' = [daysLeft EXCEPT ![c] = @ - 1]
    /\ UNCHANGED <<caRow, caRun, announced>>

statusFor(days) ==
    IF days <= CriticalDays THEN "CRITICAL" ELSE IF days <= WarningDays THEN "WARNING" ELSE "HEALTHY"

\* Registered by hand: a check of the new row is started in the background.
CreateCA(r, c) ==
    LET row == [UnknownCA EXCEPT !.known = "yes", !.status = statusFor(daysLeft[c])]
    IN /\ caRow[c].known = "no" /\ caRun[r].at = "idle"
       /\ caRow' = [caRow EXCEPT ![c] = row]
       /\ caRun' = [caRun EXCEPT ![r] = [at |-> "check", ca |-> c, row |-> row]]
       /\ UNCHANGED <<daysLeft, announced>>

\* The importer, for an issuer that it does not find by fingerprint.
AddIssuer(c) ==
    /\ caRow[c].known = "no"
    /\ caRow' = [caRow EXCEPT ![c] = [UnknownCA EXCEPT !.known = "yes", !.status = statusFor(daysLeft[c])]]
    /\ UNCHANGED <<daysLeft, caRun, announced>>

BeginRun(r, c, at, row) ==
    /\ Known(c) /\ caRun[r].at = "idle"
    /\ caRun' = [caRun EXCEPT ![r] = [at |-> at, ca |-> c, row |-> row]]
    /\ UNCHANGED <<daysLeft, caRow, announced>>

\* The importer, for an issuer that is known: last_seen_at, and what is empty.
RefreshIssuer(r, c) == BeginRun(r, c, "save", caRow[c])

\* A new owner: the team is left out, the row is written back as it was read.
SetOwner(r, c) == BeginRun(r, c, "save", caRow[c])

\* CheckAllCAs and CheckHealth.
BeginCheck(r, c) == BeginRun(r, c, "check", caRow[c])

UpdateCAAuthority(r) ==
    LET c == caRun[r].ca
    IN /\ caRun[r].at = "save"
       /\ caRow' = IF Known(c) THEN [caRow EXCEPT ![c] = caRun[r].row] ELSE caRow
       /\ caRun' = [caRun EXCEPT ![r] = IdleRun]
       /\ UNCHANGED <<daysLeft, announced>>

\* The process stops, or the write fails.
RunLost(r) ==
    /\ caRun[r].at # "idle"
    /\ caRun' = [caRun EXCEPT ![r] = IdleRun]
    /\ UNCHANGED <<daysLeft, caRow, announced>>

DeleteCAAuthority(c) ==
    /\ Known(c)
    /\ caRow' = [caRow EXCEPT ![c].known = "deleted"]
    /\ UNCHANGED <<daysLeft, caRun, announced>>

-----------------------------------------------------------------------------
(* The health check.                                                       *)

CheckedStatus(days) == IF days < 0 THEN "EXPIRED" ELSE statusFor(days)

Crossed(days) == {t \in CAThresholds : days <= t}

\* Mutant of AlreadySent: the comparison the other way round.
AlreadySentLooser(last, t) == last # Nil /\ last >= t

\* A threshold at least as tight has been announced.
AlreadySent(last, t) == last # Nil /\ last <= t

\* Mutant of DueAlert: the tightest threshold there is.
DueTightest(days) == Min(CAThresholds)

\* The tightest threshold that is crossed, in ascending order.
DueAlert(days) == Min(Crossed(days))

\* evaluateAlertThresholds: published at once, recorded with the row.
CheckCA(r) ==
    LET c == caRun[r].ca
        days == IF daysLeft[c] < 0 THEN 0 ELSE daysLeft[c]
        checked == [caRun[r].row EXCEPT !.status = CheckedStatus(daysLeft[c])]
        t == DueAlert(days)
    IN /\ caRun[r].at = "check"
       /\ IF Crossed(days) = {} \/ AlreadySent(checked.last, t)
          THEN /\ caRun' = [caRun EXCEPT ![r].at = "save", ![r].row = checked]
               /\ UNCHANGED announced
          ELSE /\ caRun' = [caRun EXCEPT ![r].at = "save", ![r].row = [checked EXCEPT !.last = t]]
               /\ announced' = [announced EXCEPT ![c] = @ \cup {t}]
       /\ UNCHANGED <<daysLeft, caRow>>

CheckStep(r) == (\E c \in CAs : BeginCheck(r, c)) \/ CheckCA(r)

CANext ==
    \/ \E c \in CAs :
          DayPasses(c) \/ AddIssuer(c) \/ DeleteCAAuthority(c)
    \/ \E r \in CARuns :
          \/ UpdateCAAuthority(r) \/ RunLost(r) \/ CheckStep(r)
          \/ \E c \in CAs : CreateCA(r, c) \/ RefreshIssuer(r, c) \/ SetOwner(r, c)

\* The monitor sweeps on its ticker; its checks and writes succeed if they are
\* tried again and again.
CAFairness ==
    \A r \in CARuns, c \in CAs :
        /\ SF_caVars(BeginCheck(r, c))
        /\ SF_caVars(CheckCA(r) /\ caRun[r].ca = c)
        /\ WF_caVars(UpdateCAAuthority(r))

-----------------------------------------------------------------------------
CATypeOK ==
    /\ daysLeft \in [CAs -> -1..CADays]
    /\ caRow \in [CAs -> CARow]
    /\ caRun \in [CARuns -> CARunState]
    /\ announced \in [CAs -> SUBSET CAThresholds]

\* A crossed threshold is announced, or one that is tighter, though rows are
\* written back by checks and requests that read them earlier, and though a
\* process may stop between the announcement and its record.
CrossingIsAnnounced ==
    \A c \in CAs, t \in CAThresholds :
        (Known(c) /\ daysLeft[c] <= t)
            ~> (~Known(c) \/ \E u \in announced[c] : u <= t)

\* A threshold that an authority has not reached is never announced, and none
\* is recorded that was not announced: the record alone silences later checks.
AnnouncedWhatWasCrossed ==
    \A c \in CAs :
        /\ \A t \in announced[c] : daysLeft[c] <= t
        /\ caRow[c].last \in announced[c] \cup {Nil}
=============================================================================
