--------------------------- MODULE RenewalAdvice ---------------------------
(***************************************************************************)
(* When a certificate is renewed: the CA's advice (RFC 9773), kept current *)
(* by the ARI poller and by operators, and the sweep's query that weighs   *)
(* it against the lead time and the safety floor. One certificate. Every   *)
(* time is the distance from now to that instant, 0 once it has passed, so *)
(* Tick moves all of them and no clock is needed.                          *)
(***************************************************************************)
EXTENDS Integers, Common

CONSTANTS
    Life,           \* lifetime of an issued certificate
    Lead,           \* renewal_lead_days or the default, within that lifetime
    Floor,          \* RenewalSafetyFloorDays, within that lifetime
    MinWait,        \* ariMinInterval: after a fetch that failed
    LongWait,       \* ariUnsupportedInterval, and the longest Retry-After
    MaxRefresh      \* bound: refreshes asked for by operators

ASSUME AdviceAssumption ==
    /\ Life \in Nat /\ Floor \in Nat /\ Lead \in Nat /\ Floor <= Lead /\ Lead < Life
    /\ MinWait \in Nat \ {0} /\ LongWait \in Nat /\ MinWait <= LongWait
    /\ MaxRefresh \in Nat

VARIABLES
    lifeLeft,       \* the certificate's not_after
    advRow,         \* its advice columns
    asking,         \* [Askers -> AskerState]
    pulled,         \* the CA pulled this certificate's window into the past
    unasked,        \* history: no answer about the present certificate is stored
    refreshes       \* refreshes operators asked for

adviceVars == <<lifeLeft, advRow, asking, pulled, unasked, refreshes>>

Askers == {"poller", "operator"}
Instants == {Nil} \cup 0..Life
Windows == {w \in [start : 0..Life, end : 0..Life] : w.start <= w.end}
AdviceRow == [sched : Instants, window : BOOLEAN, next : {Nil} \cup 0..LongWait,
              supported : {Nil, TRUE, FALSE}]
\* What an asker holds: the row as read and, once the gateway answered, the
\* instant chosen from its window, Nil for none; "own" says the certificate asked about is
\* still the one stored.
AskerState == [at : {"none", "fetch", "record"}, row : AdviceRow, own : BOOLEAN,
             failed : BOOLEAN, answer : Instants]

Unadvised == [sched |-> Nil, window |-> FALSE, next |-> Nil, supported |-> Nil]
NotAsking == [at |-> "none", row |-> Unadvised, own |-> TRUE, failed |-> FALSE, answer |-> Nil]

AdviceInit ==
    /\ lifeLeft = Life /\ advRow = Unadvised /\ asking = [a \in Askers |-> NotAsking]
    /\ pulled = FALSE /\ unasked = TRUE /\ refreshes = 0

-----------------------------------------------------------------------------
(* Time, and the CA.                                                       *)

Nearer(t) == IF t = Nil \/ t = 0 THEN t ELSE t - 1
NearerRow(r) == [r EXCEPT !.sched = Nearer(@), !.next = Nearer(@)]

\* Lifetimes are measured in days, advice in hours: a tick may or may not
\* bring the expiry nearer.
Tick(days) ==
    /\ lifeLeft' = (IF days THEN Nearer(lifeLeft) ELSE lifeLeft) /\ advRow' = NearerRow(advRow)
    /\ asking' = [a \in Askers |-> [asking[a] EXCEPT !.row = NearerRow(@), !.answer = Nearer(@)]]
    /\ UNCHANGED <<pulled, unasked, refreshes>>

\* An incident: from now on the CA wants this certificate replaced at once.
PullWindow ==
    /\ ~pulled /\ pulled' = TRUE
    /\ UNCHANGED <<lifeLeft, advRow, asking, unasked, refreshes>>

-----------------------------------------------------------------------------
(* The poller, and RefreshRenewalInfo, which runs the same Refresh.        *)

\* Mutant of DueForARI: a CA that said it has no advice is not asked again.
DueForARISupported(r) == (r.next = Nil \/ r.next = 0) /\ r.supported # FALSE

\* GetCertificatesDueForARICheck
DueForARI(r) == r.next = Nil \/ r.next = 0

BeginRefresh(a) ==
    /\ asking[a].at = "none"
    /\ \/ a = "poller" /\ DueForARI(advRow) /\ refreshes' = refreshes
       \/ a = "operator" /\ refreshes < MaxRefresh /\ refreshes' = refreshes + 1
    /\ asking' = [asking EXCEPT ![a] = [at |-> "fetch", row |-> advRow, own |-> TRUE, failed |-> FALSE, answer |-> Nil]]
    /\ UNCHANGED <<lifeLeft, advRow, pulled, unasked>>

\* selectWithin: an instant of [start, end), now when the window has passed.
selectWithin(w) == IF w.end > w.start THEN w.start .. (w.end - 1) ELSE {0}

\* A window, or none; in an incident a window that has passed. What was read
\* of the row is written back after a failure only.
Fetch(a) ==
    LET incident == pulled /\ asking[a].own IN
    /\ asking[a].at = "fetch"
    /\ \E x \in Instants :
          /\ IF x = Nil THEN ~incident
             ELSE \E w \in Windows : (incident => w.end = 0) /\ x \in selectWithin(w)
          /\ asking' = [asking EXCEPT ![a].at = "record", ![a].row = Unadvised, ![a].answer = x]
    /\ UNCHANGED <<lifeLeft, advRow, pulled, unasked, refreshes>>

\* The account, the gateway, its credentials or the call fail.
FetchFails(a) ==
    /\ asking[a].at = "fetch"
    /\ asking' = [asking EXCEPT ![a].at = "record", ![a].failed = TRUE]
    /\ UNCHANGED <<lifeLeft, advRow, pulled, unasked, refreshes>>

\* What Refresh writes, by answer: a failure writes the columns back as read.
Update(held, wait) ==
    CASE held.failed -> [held.row EXCEPT !.next = MinWait]
      [] ~held.failed /\ held.answer = Nil -> [sched |-> Nil, window |-> FALSE, next |-> LongWait, supported |-> FALSE]
      [] OTHER -> [sched |-> held.answer, window |-> TRUE, next |-> wait, supported |-> TRUE]

\* record: UpdateCertificateRenewalInfo. (A moved window is announced, which
\* changes nothing here.)
RecordAdvice(a) ==
    /\ asking[a].at = "record"
    /\ \E wait \in MinWait..LongWait : advRow' = Update(asking[a], wait)
    /\ unasked' = (unasked /\ (asking[a].failed \/ ~asking[a].own))
    /\ asking' = [asking EXCEPT ![a] = NotAsking]
    /\ UNCHANGED <<lifeLeft, pulled, refreshes>>

\* The write fails, which is only logged.
RecordLost(a) ==
    /\ asking[a].at = "record"
    /\ asking' = [asking EXCEPT ![a] = NotAsking]
    /\ UNCHANGED <<lifeLeft, advRow, unasked, pulled, refreshes>>

-----------------------------------------------------------------------------
(* The sweep.                                                              *)

\* Mutant of DueForRenewal: advice, where there is any, decides alone.
DueForRenewalAdvised(r) == IF r.sched # Nil THEN r.sched = 0 ELSE lifeLeft <= Lead

\* GetCertificatesDueForRenewal
DueForRenewal(r) == IF r.sched # Nil THEN r.sched = 0 \/ lifeLeft <= Floor ELSE lifeLeft <= Lead

\* A due certificate is queued and renewed (RenewalQueue); UpdateCertificate
\* has no advice column in its list, so the advice of the old one stays.
RenewDue ==
    /\ DueForRenewal(advRow)
    /\ lifeLeft' = Life
    /\ asking' = [a \in Askers |-> [asking[a] EXCEPT !.own = FALSE]]
    /\ pulled' = FALSE /\ unasked' = TRUE
    /\ UNCHANGED <<advRow, refreshes>>

AdviceNext ==
    \/ \E days \in BOOLEAN : Tick(days)
    \/ PullWindow \/ RenewDue
    \/ \E a \in Askers : BeginRefresh(a) \/ Fetch(a) \/ FetchFails(a) \/ RecordAdvice(a) \/ RecordLost(a)

\* The tickers of the poller and of the sweep keep firing, and a CA asked
\* again and again in the end answers an answer that is stored.
AdviceFairness ==
    /\ WF_adviceVars(Tick(FALSE)) /\ WF_adviceVars(RenewDue)
    /\ WF_adviceVars(BeginRefresh("poller")) /\ SF_adviceVars(Fetch("poller"))
    /\ WF_adviceVars(RecordAdvice("poller") \/ RecordLost("poller"))
    /\ SF_adviceVars(~asking["poller"].failed /\ RecordAdvice("poller"))

-----------------------------------------------------------------------------
AdviceTypeOK ==
    /\ lifeLeft \in 0..Life /\ advRow \in AdviceRow /\ asking \in [Askers -> AskerState]
    /\ pulled \in BOOLEAN /\ unasked \in BOOLEAN /\ refreshes \in 0..MaxRefresh

\* In an incident the certificate is replaced, whatever was asked or failed
\* before, a CA that used to have no advice included: its advice is looked at
\* again, stored and acted on, and nobody waits for the expiry to come near.
IncidentActedOn == pulled ~> ~pulled

\* No advice, however far out, and no poller that keeps losing its answers
\* holds back the renewal of a certificate inside the safety floor.
FloorMet == lifeLeft <= Floor ~> lifeLeft > Floor

\* A certificate is not due the moment it was issued: what makes it due is its
\* own lifetime or its own CA's advice about it.
NotDueWhenIssued == (unasked /\ lifeLeft = Life) => ~DueForRenewal(advRow)
=============================================================================
