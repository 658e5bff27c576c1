---------------------------- MODULE EventStream ----------------------------
(***************************************************************************)
(* The event broker of one core process and the dashboards that follow its *)
(* stream: subscriptions with a bounded queue that loses its oldest event, *)
(* a ring of recent events for replay, snapshots, and reconnection with    *)
(* Last-Event-ID. A change of state is a write and an event, in the order   *)
(* its producer chose; changes are numbered and a dashboard knows a set of *)
(* them. Topics are left out: a dashboard subscribes to all of them. What   *)
(* other cores change has no event here and is left out.                   *)
(***************************************************************************)
EXTENDS Integers, Sequences, FiniteSets, SequencesExt, Common

CONSTANTS
    Dashboards,     \* clients of GET /api/v1/events
    QueueSize,      \* streamBuffer
    HistoryCap,     \* the ring of recent events, 0 = none
    MaxChanges,     \* bound: changes of state
    MaxUnderWay,    \* bound: changes at once of which the write or the event is to come
    MaxBoots        \* bound: starts of the core process

ASSUME StreamAssumption ==
    QueueSize \in Nat \ {0} /\ HistoryCap \in Nat /\ MaxChanges \in Nat /\ MaxUnderWay \in Nat /\ MaxBoots \in Nat

VARIABLES
    changes,        \* number of changes of state begun so far
    inStore,        \* changes that are written
    owed,           \* changes that are written and not yet published
    early,          \* changes that are published and not yet written
    boots,          \* restarts of the process so far
    seq,            \* the last event id assigned: Broker.seq
    history,        \* Seq(Event): Broker.history
    stopped,        \* Broker.stopped
    dash            \* [Dashboards -> DashState]: the client and its handler

streamVars == <<changes, inStore, owed, early, boots, seq, history, stopped, dash>>

Event == [id : 1..MaxChanges, change : 1..MaxChanges]

\* at: what the handler does next. last: Last-Event-ID as the browser keeps it,
\* from boot number of. blind: a snapshot could not be read. cut (history): the
\* client left after an event that called for a resync and before the snapshot,
\* or resumed from an event id of an earlier boot. unseen (history): changes whose
\* event had left the queue, or never been in it, when the snapshot was read
\* without them because they were not written yet.
DashState == [at     : {"off", "greet", "run", "resync"},
              queue  : Seq(Event),
              lossy  : BOOLEAN,
              closed : BOOLEAN,
              known  : SUBSET (1..MaxChanges),
              last   : 0..MaxChanges,
              of     : 0..MaxBoots,
              unseen : SUBSET (1..MaxChanges),
              blind  : BOOLEAN,
              cut    : BOOLEAN]

StreamInit ==
    /\ changes = 0 /\ inStore = {} /\ owed = {} /\ early = {}
    /\ boots = 0 /\ seq = 0 /\ history = <<>> /\ stopped = FALSE
    /\ dash = [d \in Dashboards |-> [at |-> "off", queue |-> <<>>, lossy |-> FALSE, closed |-> FALSE,
                                     known |-> {}, last |-> 0, of |-> 0,
                                     unseen |-> {}, blind |-> FALSE, cut |-> FALSE]]

-----------------------------------------------------------------------------
(* The broker.                                                             *)

Subscribed(d) == dash[d].at # "off" /\ ~dash[d].closed

\* A full queue loses its oldest event to the new one.
Offered(s, e) ==
    IF Len(s.queue) < QueueSize THEN [s EXCEPT !.queue = Append(@, e)]
    ELSE [s EXCEPT !.queue = Append(Tail(@), e), !.lossy = TRUE]

appendHistory(e) ==
    IF HistoryCap = 0 THEN <<>>
    ELSE IF Len(history) < HistoryCap THEN Append(history, e)
    ELSE Append(Tail(history), e)

\* Broker.Publish, of the event of change c; a stopped broker discards it.
Publish(c) ==
    LET e == [id |-> seq + 1, change |-> c]
    IN IF stopped THEN UNCHANGED <<seq, history, dash>>
       ELSE /\ seq' = seq + 1
            /\ history' = appendHistory(e)
            /\ dash' = [d \in Dashboards |-> IF Subscribed(d) THEN Offered(dash[d], e) ELSE dash[d]]

MayBegin == changes < MaxChanges /\ Cardinality(owed \cup early) < MaxUnderWay

\* Most producers write and publish afterwards.
ChangeWritten ==
    /\ MayBegin
    /\ changes' = changes + 1
    /\ inStore' = inStore \cup {changes + 1} /\ owed' = owed \cup {changes + 1}
    /\ UNCHANGED <<early, boots, seq, history, stopped, dash>>

PublishWritten(c) ==
    /\ c \in owed
    /\ owed' = owed \ {c}
    /\ Publish(c)
    /\ UNCHANGED <<changes, inStore, early, boots, stopped>>

\* The expiry alert of an authority goes out before its row is written.
PublishUnwritten ==
    /\ MayBegin
    /\ changes' = changes + 1
    /\ early' = early \cup {changes + 1}
    /\ Publish(changes + 1)
    /\ UNCHANGED <<inStore, owed, boots, stopped>>

\* The write after the event. One that fails leaves the change unwritten for good.
WritePublished(c) ==
    /\ c \in early
    /\ early' = early \ {c}
    /\ inStore' = inStore \cup {c}
    /\ UNCHANGED <<changes, owed, boots, seq, history, stopped, dash>>

\* Mutant of ReplayComplete: off by one at the end of the ring.
ReplayCompleteOffByOne(after) ==
    IF history = <<>> THEN after >= seq ELSE after + 2 >= history[1].id

\* The next event the caller expects is still retained.
ReplayComplete(after) == IF history = <<>> THEN after >= seq ELSE after + 1 >= history[1].id

ReplayedEvents(after) == {e \in Range(history) : e.id > after}

\* Mutant of StopBroker: publishing ends and the subscriptions stay open.
StopBrokerOpen ==
    /\ ~stopped
    /\ stopped' = TRUE
    /\ UNCHANGED <<changes, inStore, owed, early, boots, seq, history, dash>>

StopBroker ==
    /\ ~stopped
    /\ stopped' = TRUE
    /\ dash' = [d \in Dashboards |-> IF Subscribed(d) THEN [dash[d] EXCEPT !.closed = TRUE] ELSE dash[d]]
    /\ UNCHANGED <<changes, inStore, owed, early, boots, seq, history>>

-----------------------------------------------------------------------------
(* The stream handler of one dashboard.                                    *)

\* Subscribe before anything is sent; a stopped broker hands back a closed subscription.
Connect(d) ==
    /\ dash[d].at = "off"
    /\ dash' = [dash EXCEPT ![d].at = "greet", ![d].queue = <<>>, ![d].lossy = FALSE, ![d].closed = stopped]
    /\ UNCHANGED <<changes, inStore, owed, early, boots, seq, history, stopped>>

Written(s, e) == [s EXCEPT !.known = @ \cup {e.change}, !.last = e.id, !.of = boots]

\* A client that names its last event and missed nothing that is gone.
Resumes(d) == dash[d].last > 0 /\ ReplayComplete(dash[d].last)

\* Every replayed event is written, the last one of the ring last.
Replayed(s) ==
    IF ReplayedEvents(s.last) = {} THEN s
    ELSE [Written(s, Last(history)) EXCEPT !.known = @ \cup {e.change : e \in ReplayedEvents(s.last)}]

Replay(d) ==
    /\ dash[d].at = "greet" /\ Resumes(d)
    /\ dash' = [dash EXCEPT ![d] = [Replayed(dash[d]) EXCEPT !.at = "run", !.cut = @ \/ dash[d].of # boots]]
    /\ UNCHANGED <<changes, inStore, owed, early, boots, seq, history, stopped>>

SnapshotDue(d) == dash[d].at = "resync" \/ (dash[d].at = "greet" /\ ~Resumes(d))

Queued(s) == {e.change : e \in Range(s.queue)}

\* writeSnapshot: what is written when it is read; the client keeps nothing else.
WriteSnapshot(d) ==
    /\ SnapshotDue(d)
    /\ dash' = [dash EXCEPT ![d].at = "run", ![d].known = inStore, ![d].unseen = early \ Queued(dash[d]),
                            ![d].blind = FALSE, ![d].cut = FALSE]
    /\ UNCHANGED <<changes, inStore, owed, early, boots, seq, history, stopped>>

\* The store does not answer: the client is told, and the stream goes on.
SnapshotFails(d) ==
    /\ SnapshotDue(d)
    /\ dash' = [dash EXCEPT ![d].at = "run", ![d].blind = TRUE]
    /\ UNCHANGED <<changes, inStore, owed, early, boots, seq, history, stopped>>

\* One event is written; a client that has lost any is told to resynchronise.
Pump(d) ==
    LET s == Written(dash[d], Head(dash[d].queue))
    IN /\ dash[d].at = "run" /\ dash[d].queue # <<>>
       /\ dash' = [dash EXCEPT ![d] = [s EXCEPT !.queue = Tail(@),
                                                !.at = IF s.lossy THEN "resync" ELSE "run"]]
       /\ UNCHANGED <<changes, inStore, owed, early, boots, seq, history, stopped>>

Gone(s) == [s EXCEPT !.at = "off", !.queue = <<>>, !.lossy = FALSE, !.closed = FALSE,
                     !.cut = @ \/ s.at = "resync"]

\* The queue of a closed subscription is drained before the handler returns.
StreamEnds(d) ==
    /\ dash[d].at = "run" /\ dash[d].closed /\ dash[d].queue = <<>>
    /\ dash' = [dash EXCEPT ![d] = Gone(@)]
    /\ UNCHANGED <<changes, inStore, owed, early, boots, seq, history, stopped>>

Disconnect(d) ==
    /\ dash[d].at # "off"
    /\ dash' = [dash EXCEPT ![d] = Gone(@)]
    /\ UNCHANGED <<changes, inStore, owed, early, boots, seq, history, stopped>>

\* The process ends, in an orderly way or not, between any two statements, and
\* starts again: event ids too.
Reboot ==
    /\ boots < MaxBoots
    /\ boots' = boots + 1
    /\ seq' = 0 /\ history' = <<>> /\ stopped' = FALSE
    /\ dash' = [d \in Dashboards |-> Gone(dash[d])]
    /\ owed' = {} /\ early' = {}
    /\ UNCHANGED <<changes, inStore>>

HandlerStep(d) == Replay(d) \/ WriteSnapshot(d) \/ SnapshotFails(d) \/ Pump(d) \/ StreamEnds(d)

StreamNext ==
    \/ ChangeWritten \/ PublishUnwritten \/ StopBroker \/ Reboot
    \/ \E c \in 1..MaxChanges : PublishWritten(c) \/ WritePublished(c)
    \/ \E d \in Dashboards : Connect(d) \/ HandlerStep(d) \/ Disconnect(d)

\* A handler whose client reads runs.
StreamFairness == \A d \in Dashboards : WF_streamVars(HandlerStep(d))

-----------------------------------------------------------------------------
StreamTypeOK ==
    /\ changes \in 0..MaxChanges /\ inStore \subseteq 1..changes /\ owed \subseteq inStore
    /\ early \subseteq (1..changes) \ inStore
    /\ boots \in 0..MaxBoots /\ seq \in 0..changes
    /\ history \in Seq(Event) /\ Len(history) <= HistoryCap
    /\ stopped \in BOOLEAN
    /\ dash \in [Dashboards -> DashState]
    /\ \A d \in Dashboards : Len(dash[d].queue) <= QueueSize

\* A dashboard with nothing left to read: it believes that it is up to date.
Settled(d) == dash[d].at = "run" /\ dash[d].queue = <<>> /\ ~dash[d].closed /\ ~stopped

\* No silent gap: a settled dashboard knows every change that is written and
\* whose event is out, whatever it lost in the queue, however often it
\* reconnected and wherever its resume point was in the ring. Excluded is a
\* dashboard that was told its snapshot failed, one that left just before the
\* snapshot it was owed, one whose resume point is of an earlier process, and, of
\* the changes published before they were written, those whose event came before
\* the dashboard's snapshot and whose write came after it.
NoSilentGap ==
    \A d \in Dashboards :
        Settled(d) /\ ~dash[d].blind /\ ~dash[d].cut => inStore \ (owed \cup dash[d].unseen) \subseteq dash[d].known

\* Stopping the broker wakes every stream that is open, so that none holds up
\* the shutdown.
StopEndsStreams ==
    \A d \in Dashboards : (stopped /\ dash[d].at # "off") ~> (dash[d].at = "off" \/ ~stopped)
=============================================================================
