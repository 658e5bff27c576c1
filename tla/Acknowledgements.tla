-------------------------- MODULE Acknowledgements --------------------------
(***************************************************************************)
(* Acknowledgements of one entity's alerts: an operator says "we know",    *)
(* possibly with a silence, for the threshold the record names or for one  *)
(* of their own; the dispatcher asks the newest that stands whether an     *)
(* alert is kept back. Alerts come at tighter and tighter thresholds.      *)
(***************************************************************************)
EXTENDS Integers, Sequences, FiniteSetsExt, SequencesExt, Common

CONSTANTS
    AckThresholds,  \* thresholds alerts are raised at, in days
    MaxAckRows      \* bound: acknowledgements given

ASSUME AcksAssumption == AckThresholds \subseteq Nat /\ MaxAckRows \in Nat /\ Nil \notin AckThresholds

VARIABLES
    raised,         \* thresholds announced so far
    recorded,       \* last_alert_threshold of the entity's row
    acks,           \* Seq(AckRow): alert_acknowledgements, oldest first
    waiting,        \* alerts the dispatcher has yet to handle
    hushed          \* history: alerts kept back, each with the acknowledgement that did

acksVars == <<raised, recorded, acks, waiting, hushed>>

AckThreshold == AckThresholds \cup {Nil}

\* seen (history): the tightest alert raised when it was given.
AckRow == [threshold : AckThreshold, silent : BOOLEAN, revoked : BOOLEAN, seen : AckThreshold]

AcksInit == raised = {} /\ recorded = Nil /\ acks = <<>> /\ waiting = {} /\ hushed = {}

\* The monitor announces a tighter threshold than any so far.
RaiseAlert(t) ==
    /\ \A u \in raised : t < u
    /\ raised' = raised \cup {t} /\ waiting' = waiting \cup {t}
    /\ UNCHANGED <<recorded, acks, hushed>>

\* It writes the row later; a row that was read earlier may be written over it.
RecordThreshold(t) ==
    /\ t \in raised \cup {Nil} /\ t # recorded
    /\ recorded' = t
    /\ UNCHANGED <<raised, acks, waiting, hushed>>

\* The operator's threshold, or the one of the row.
Acknowledge(t, silent) ==
    /\ Len(acks) < MaxAckRows
    /\ t \in {recorded} \cup AckThresholds
    /\ acks' = Append(acks, [threshold |-> t, silent |-> silent, revoked |-> FALSE,
                             seen |-> IF raised = {} THEN Nil ELSE Min(raised)])
    /\ UNCHANGED <<raised, recorded, waiting, hushed>>

\* silence_until passes.
SilenceEnds(i) ==
    /\ acks[i].silent
    /\ acks' = [acks EXCEPT ![i].silent = FALSE]
    /\ UNCHANGED <<raised, recorded, waiting, hushed>>

Standing == {i \in DOMAIN acks : ~acks[i].revoked}

\* The newest that was not withdrawn, 0 = none.
GetActiveAcknowledgement == IF Standing = {} THEN 0 ELSE Max(Standing)

\* Mutant of newestActive: the walk starts at the oldest.
oldestActive == SelectInSeq(acks, LAMBDA a : ~a.revoked)

\* newestActive, the in-memory walk from the end.
newestActive == SelectLastInSeq(acks, LAMBDA a : ~a.revoked)

Withdraw ==
    /\ Standing # {}
    /\ acks' = [acks EXCEPT ![GetActiveAcknowledgement].revoked = TRUE]
    /\ UNCHANGED <<raised, recorded, waiting, hushed>>

\* Mutant of IsActive: an acknowledgement stands for every threshold.
IsActiveAlways(a, t) == ~a.revoked

\* A tighter threshold than the one acknowledged is a new situation.
IsActive(a, t) == ~a.revoked /\ ~(a.threshold # Nil /\ t < a.threshold)

SuppressesDelivery(a, t) == IsActive(a, t) /\ a.silent

\* Mutant of Silencer: any acknowledgement that stands may silence.
AnySilencer(t) == IF \E i \in Standing : SuppressesDelivery(acks[i], t)
                  THEN CHOOSE i \in Standing : SuppressesDelivery(acks[i], t) ELSE 0

\* silenced: the index of the acknowledgement that keeps the alert back, 0 = none.
Silencer(t) ==
    LET i == GetActiveAcknowledgement
    IN IF i # 0 /\ SuppressesDelivery(acks[i], t) THEN i ELSE 0

Dispatch(t) ==
    /\ t \in waiting
    /\ waiting' = waiting \ {t}
    /\ hushed' = IF Silencer(t) # 0
                 THEN hushed \cup {[alert |-> t, ack |-> Silencer(t), rows |-> Len(acks)]} ELSE hushed
    /\ UNCHANGED <<raised, recorded, acks>>

\* The store does not answer: the alert is delivered.
DispatchUnasked(t) ==
    /\ t \in waiting
    /\ waiting' = waiting \ {t}
    /\ UNCHANGED <<raised, recorded, acks, hushed>>

AcksNext ==
    \/ \E t \in AckThresholds : RaiseAlert(t) \/ Dispatch(t) \/ DispatchUnasked(t)
    \/ \E t \in AckThreshold : RecordThreshold(t) \/ \E silent \in BOOLEAN : Acknowledge(t, silent)
    \/ \E i \in DOMAIN acks : SilenceEnds(i)
    \/ Withdraw

-----------------------------------------------------------------------------
AcksTypeOK ==
    /\ raised \subseteq AckThresholds /\ waiting \subseteq raised
    /\ recorded \in raised \cup {Nil}
    /\ acks \in Seq(AckRow) /\ Len(acks) <= MaxAckRows
    /\ hushed \subseteq [alert : raised, ack : 1..Len(acks), rows : 1..Len(acks)]

\* Acknowledging at 30 days does not silence the 7-day alert: an alert that was
\* kept back is no tighter than the threshold the operator named, or than what
\* had been raised when they acknowledged; an acknowledgement tied to no
\* threshold may silence any.
SilenceIsForWhatWasSeen ==
    \A h \in hushed :
        LET a == acks[h.ack]
        IN a.threshold # Nil => h.alert >= a.threshold \/ (a.seen # Nil /\ h.alert >= a.seen)

\* The last word counts: an alert is kept back by the newest acknowledgement
\* that stood, so one given later without a silence ends an earlier silence.
LastWordCounts ==
    \A h \in hushed : \A i \in (h.ack + 1)..h.rows : acks[i].revoked

\* Both stores find the same acknowledgement.
SameAcknowledgement == newestActive = GetActiveAcknowledgement
=============================================================================
