-------------------------- MODULE BackgroundProofs --------------------------
(***************************************************************************)
(* Theorems about the background services of MCBackground, for any number  *)
(* of dashboards, channels, monitors and authorities and rings and queues  *)
(* of any size: inductive invariants of the event stream, the dispatcher,  *)
(* the check of CA certificates and the renewal advice, and, with those of *)
(* AuthorityProofs and FleetProofs, what the services promise together.    *)
(***************************************************************************)
EXTENDS MCBackground, AuthorityProofs, FleetProofs, SequenceTheorems, TLAPS

-----------------------------------------------------------------------------
(* The event stream. A queue and the ring hold the latest events without a *)
(* gap; the changes whose event is out and that the queue of a dashboard    *)
(* does not hold the dashboard knows, or a replay would tell it of them.    *)

\* The changes whose event is out, written or not.
Out == (inStore \ owed) \cup early

\* A sequence holds the latest events, without a gap.
Recent(q) == \A i \in 1..Len(q) : q[i].id = seq - Len(q) + i

\* An event of a sequence and one of the ring with the same id are the same.
Agrees(q) == \A e \in Range(q), f \in Range(history) : e.id = f.id => e.change = f.change

\* The changes that a client which resumes after an event is told of.
ToldAgain(after) == {e.change : e \in ReplayedEvents(after)}

\* A dashboard follows the stream: what its queue does not hold it knows,
\* unless it has lost events it will be told of; if it left and resumed, it
\* would be told of what it does not know; and one that is owed a snapshot
\* has not seen the end of its queue.
Following(s) ==
    /\ ~s.closed /\ Recent(s.queue) /\ Agrees(s.queue)
    /\ s.at = "off" => s.queue = <<>>
    /\ s.of = boots => s.last <= seq
    /\ s.at = "run" /\ ~s.blind /\ ~s.cut /\ (s.queue = <<>> \/ ~s.lossy) => Out \subseteq s.known \cup s.unseen \cup Queued(s)
    /\ s.at # "resync" /\ s.of = boots /\ s.last > 0 /\ ~s.blind /\ ~s.cut /\ ReplayComplete(s.last)
          => Out \subseteq s.known \cup s.unseen \cup ToldAgain(s.last)
    /\ s.at = "resync" => s.of = boots /\ s.last <= seq - Len(s.queue)

\* What holds of a dashboard at all times.
Sound(s) ==
    /\ s \in DashState /\ Len(s.queue) <= QueueSize /\ s.of <= boots
    /\ ~stopped => Following(s)

\* The changes, the counters and the ring of recent events.
BrokerSound ==
    /\ changes \in 0..MaxChanges /\ boots \in 0..MaxBoots /\ stopped \in BOOLEAN
    /\ inStore \subseteq 1..changes /\ owed \subseteq inStore /\ early \subseteq (1..changes) \ inStore
    /\ seq \in Nat /\ seq + Cardinality(owed) <= changes
    /\ history \in Seq(Event) /\ Len(history) <= HistoryCap
    /\ ~stopped => Recent(history)

StreamInv == BrokerSound /\ dash \in [Dashboards -> DashState] /\ \A d \in Dashboards : Sound(dash[d])

\* The changes that are owed an event can be counted.
LEMMA OwedFinite ==
    ASSUME BrokerSound
    PROVE  /\ IsFiniteSet(owed) /\ Cardinality(owed) \in Nat /\ changes \in Nat /\ changes <= MaxChanges /\ MaxChanges \in Nat
           /\ boots \in Nat /\ boots <= MaxBoots /\ MaxBoots \in Nat /\ seq \in Nat /\ seq <= changes
  <1>1. /\ changes \in Nat /\ changes <= MaxChanges /\ MaxChanges \in Nat
        /\ boots \in Nat /\ boots <= MaxBoots /\ MaxBoots \in Nat
        /\ seq \in Nat /\ seq + Cardinality(owed) <= changes /\ owed \subseteq 1..changes
    BY StreamAssumption DEF BrokerSound
  <1>2. IsFiniteSet(1..changes)
    BY <1>1, FS_Interval
  <1>3. IsFiniteSet(owed)
    BY <1>1, <1>2, FS_Subset
  <1>4. Cardinality(owed) \in Nat
    BY <1>3, FS_CardinalityType
  <1> QED
    BY <1>1, <1>3, <1>4

\* What the invariant says of the properties.
LEMMA StreamInvSays == StreamInv => StreamTypeOK /\ NoSilentGap
  <1> SUFFICES ASSUME StreamInv PROVE StreamTypeOK /\ NoSilentGap
    OBVIOUS
  <1>1. StreamTypeOK
    <2>1. seq \in 0..changes
      BY OwedFinite DEF StreamInv
    <2> QED
      BY <2>1 DEF StreamInv, BrokerSound, Sound, StreamTypeOK
  <1>2. ASSUME NEW d \in Dashboards, Settled(d), ~dash[d].blind, ~dash[d].cut
        PROVE  inStore \ (owed \cup dash[d].unseen) \subseteq dash[d].known
    <2>1. dash[d].queue = <<>> /\ dash[d].at = "run" /\ ~stopped
      BY <1>2 DEF Settled
    <2>2. Out \subseteq dash[d].known \cup dash[d].unseen \cup Queued(dash[d])
      BY <1>2, <2>1 DEF StreamInv, Sound, Following
    <2>3. Queued(dash[d]) = {}
      BY <2>1 DEF Queued, Range
    <2> QED
      BY <2>2, <2>3 DEF Out
  <1> QED
    BY <1>1, <1>2 DEF NoSilentGap

\* Event stream: initially.
LEMMA StreamInitInv == StreamInit => StreamInv
  <1> SUFFICES ASSUME StreamInit PROVE StreamInv
    OBVIOUS
  <1>1. PICK z : z = [at |-> "off", queue |-> <<>>, lossy |-> FALSE, closed |-> FALSE,
                      known |-> {}, last |-> 0, of |-> 0, unseen |-> {}, blind |-> FALSE, cut |-> FALSE]
    OBVIOUS
  <1>2. 0 \in 0..MaxChanges /\ 0 \in 0..MaxBoots /\ 0 <= QueueSize /\ 0 <= HistoryCap
    BY StreamAssumption
  <1>3. <<>> \in Seq(Event) /\ Len(<<>>) = 0 /\ Range(<<>>) = {} /\ \A i : i \notin 1..0
    BY DEF Range
  <1>4. z \in DashState
    BY <1>1, <1>2, <1>3 DEF DashState
  <1>5. BrokerSound
    <2>1. Cardinality({}) = 0
      BY FS_EmptySet
    <2>2. Recent(history)
      BY <1>3 DEF StreamInit, Recent
    <2>3. /\ changes = 0 /\ boots = 0 /\ seq = 0 /\ stopped = FALSE /\ inStore = {} /\ owed = {} /\ early = {} /\ history = <<>>
      BY DEF StreamInit
    <2>a. Cardinality(owed) = 0
      BY <2>1, <2>3
    <2>4. inStore \subseteq 1..changes /\ owed \subseteq inStore /\ early \subseteq (1..changes) \ inStore
      BY <2>3
    <2>5. history \in Seq(Event) /\ Len(history) <= HistoryCap
      BY <1>2, <1>3, <2>3
    <2>6. changes \in 0..MaxChanges /\ boots \in 0..MaxBoots /\ stopped \in BOOLEAN /\ seq \in Nat
      BY <1>2, <2>3
    <2>7. seq + Cardinality(owed) <= changes
      <3>1. PICK k : k = Cardinality(owed)
        OBVIOUS
      <3>2. seq + k <= changes
        BY <2>3, <2>a, <3>1
      <3> QED
        BY <3>1, <3>2, Zenon
    <2> QED
      BY <2>2, <2>4, <2>5, <2>6, <2>7 DEF BrokerSound
  <1>6. Sound(z)
    <2>1. z.queue = <<>> /\ z.of = 0 /\ z.at = "off" /\ ~z.closed /\ z.last = 0 /\ ~(z.last > 0)
      BY <1>1
    <2>2. Recent(z.queue) /\ Agrees(z.queue)
      BY <2>1, <1>3 DEF Recent, Agrees
    <2>3. Following(z)
      BY <2>1, <2>2 DEF Following, StreamInit
    <2> QED
      BY <2>1, <2>3, <1>2, <1>3, <1>4 DEF Sound, StreamInit
  <1>7. dash = [d \in Dashboards |-> z]
    BY <1>1 DEF StreamInit
  <1> QED
    BY <1>4, <1>5, <1>6, <1>7 DEF StreamInv

\* While the broker stands still, so does what is said of a dashboard.
LEMMA SoundKept ==
    ASSUME NEW s, Sound(s), Out' = Out, UNCHANGED <<boots, seq, history, stopped>>
    PROVE  Sound(s)'
  <1>1. Recent(s.queue)' <=> Recent(s.queue)
    BY DEF Recent
  <1>2. Agrees(s.queue)' <=> Agrees(s.queue)
    BY DEF Agrees
  <1>3. ReplayComplete(s.last)' <=> ReplayComplete(s.last)
    BY DEF ReplayComplete
  <1>4. ToldAgain(s.last)' = ToldAgain(s.last)
    BY DEF ToldAgain, ReplayedEvents
  <1>5. Queued(s)' = Queued(s)
    BY DEF Queued
  <1>6. ~stopped => Following(s)'
    BY <1>1, <1>2, <1>3, <1>4, <1>5 DEF Sound, Following
  <1> QED
    BY <1>6 DEF Sound

\* A dashboard written keeps the invariant.
LEMMA DashWritten ==
    ASSUME StreamInv, NEW d \in Dashboards, NEW new, Sound(new), dash' = [dash EXCEPT ![d] = new],
           UNCHANGED <<changes, inStore, owed, early, boots, seq, history, stopped>>
    PROVE  StreamInv'
  <1>1. new \in DashState
    BY DEF Sound
  <1>2. dash' \in [Dashboards -> DashState] /\ \A x \in Dashboards : dash'[x] = IF x = d THEN new ELSE dash[x]
    BY <1>1 DEF StreamInv
  <1>3. Out' = Out
    BY DEF Out
  <1>4. ASSUME NEW x \in Dashboards PROVE Sound(dash[x])'
    <2>1. PICK s : s = dash'[x]
      OBVIOUS
    <2>2. Sound(s)
      BY <1>2, <2>1 DEF StreamInv
    <2>3. Sound(s)'
      BY <1>3, <2>2, SoundKept
    <2> QED
      BY <2>1, <2>3 DEF Sound, Following, Recent, Agrees, Queued, ReplayComplete, ToldAgain, ReplayedEvents
  <1>5. BrokerSound'
    BY DEF StreamInv, BrokerSound, Recent
  <1> QED
    BY <1>2, <1>4, <1>5 DEF StreamInv

\* The ids of the events of such a sequence.
LEMMA RecentIds ==
    ASSUME NEW q \in Seq(Event), Recent(q), seq \in Nat
    PROVE  /\ Len(q) \in Nat
           /\ \A e \in Range(q) : e \in Event /\ e.id \in Int /\ seq - Len(q) < e.id /\ e.id <= seq
           /\ \A k \in Int : seq - Len(q) < k /\ k <= seq => \E e \in Range(q) : e.id = k
  <1>1. Len(q) \in Nat /\ Range(q) = {q[i] : i \in 1..Len(q)} /\ \A i \in 1..Len(q) : q[i] \in Event
    BY LenProperties, ElementOfSeq DEF Range
  <1>2. ASSUME NEW i \in 1..Len(q) PROVE q[i].id \in Int /\ seq - Len(q) < q[i].id /\ q[i].id <= seq
    <2>1. q[i].id = seq - Len(q) + i
      BY DEF Recent
    <2>2. i \in Int /\ i >= 1 /\ i <= Len(q)
      BY <1>1
    <2> QED
      BY <1>1, <2>1, <2>2
  <1>3. ASSUME NEW k \in Int, seq - Len(q) < k, k <= seq PROVE \E e \in Range(q) : e.id = k
    <2>0. Len(q) \in Int /\ seq \in Int
      BY <1>1
    <2>1. PICK i \in Int : i = k - seq + Len(q)
      BY <2>0
    <2>2. i \in 1..Len(q)
      BY <1>1, <1>3, <2>1
    <2>3. q[i].id = seq - Len(q) + i
      BY <2>2 DEF Recent
    <2>4. q[i].id = k
      BY <1>1, <2>1, <2>3
    <2> QED
      BY <1>1, <2>2, <2>4
  <1> QED
    BY <1>1, <1>2, <1>3

\* When the ring still holds the event after the one named.
LEMMA ReplayMeans ==
    ASSUME history \in Seq(Event), Recent(history), seq \in Nat, NEW after \in Nat
    PROVE  ReplayComplete(after) <=> after >= seq - Len(history)
  <1>1. Len(history) \in Nat /\ (history = <<>> <=> Len(history) = 0)
    BY LenProperties, EmptySeq
  <1>2. ASSUME history # <<>> PROVE history[1].id = seq - Len(history) + 1
    <2>1. 1 \in 1..Len(history)
      BY <1>1, <1>2
    <2> QED
      BY <2>1 DEF Recent
  <1> QED
    BY <1>1, <1>2 DEF ReplayComplete

\* What is still in a queue the ring holds too, if it holds what comes after an
\* event that is before the queue.
LEMMA QueuedReplayed ==
    ASSUME history \in Seq(Event), Recent(history), seq \in Nat, NEW q \in Seq(Event), Recent(q), Agrees(q),
           NEW after \in Nat, after <= seq - Len(q), ReplayComplete(after)
    PROVE  \A e \in Range(q) : e.change \in ToldAgain(after)
  <1> SUFFICES ASSUME NEW e \in Range(q) PROVE e.change \in ToldAgain(after)
    OBVIOUS
  <1>1. Len(history) \in Nat /\ after >= seq - Len(history)
    BY ReplayMeans, LenProperties
  <1>2. Len(q) \in Nat /\ e.id \in Int /\ seq - Len(q) < e.id /\ e.id <= seq
    BY RecentIds
  <1>3. PICK k \in Int : k = e.id
    BY <1>2
  <1>4. seq - Len(history) < k /\ k <= seq /\ k > after
    BY <1>1, <1>2, <1>3
  <1>5. PICK f \in Range(history) : f.id = k
    BY <1>4, RecentIds
  <1>6. e.change = f.change
    BY <1>3, <1>5 DEF Agrees
  <1>7. f \in ReplayedEvents(after)
    BY <1>4, <1>5 DEF ReplayedEvents
  <1> QED
    BY <1>6, <1>7 DEF ToldAgain

\* A new event is at the end of the sequence, which may have lost its first.
LEMMA RecentShifted ==
    ASSUME NEW q \in Seq(Event), Recent(q), NEW e \in Event, e.id = seq + 1, seq \in Nat, seq' = seq + 1,
           NEW n, n = Append(q, e) \/ (q # <<>> /\ n = Append(Tail(q), e))
    PROVE  /\ n \in Seq(Event) /\ Recent(n)' /\ e \in Range(n) /\ Range(n) \subseteq Range(q) \cup {e}
           /\ n = Append(q, e) => Range(q) \subseteq Range(n) /\ Len(n) = Len(q) + 1
           /\ q # <<>> /\ n = Append(Tail(q), e) => Len(n) = Len(q) /\ \A f \in Range(q) : f = q[1] \/ f \in Range(n)
  <1>1. /\ Len(q) \in Nat /\ \A i \in 1..Len(q) : q[i] \in Event /\ q[i].id = seq - Len(q) + i
        /\ Range(q) = {q[i] : i \in 1..Len(q)}
    BY LenProperties, ElementOfSeq DEF Recent, Range
  <1>2. ASSUME n = Append(q, e)
        PROVE  /\ n \in Seq(Event) /\ Recent(n)' /\ e \in Range(n) /\ Range(n) \subseteq Range(q) \cup {e}
               /\ Range(q) \subseteq Range(n) /\ Len(n) = Len(q) + 1
    <2>1. n \in Seq(Event) /\ Len(n) = Len(q) + 1 /\ \A i \in 1..Len(n) : n[i] = IF i <= Len(q) THEN q[i] ELSE e
      BY <1>2, <1>1, AppendProperties
    <2>2. Range(n) = {n[i] : i \in 1..Len(n)}
      BY <2>1, LenProperties DEF Range
    <2>3. \A i \in 1..Len(q) : i \in 1..Len(n) /\ n[i] = q[i]
      BY <1>1, <2>1
    <2>4. Len(n) \in 1..Len(n) /\ n[Len(n)] = e
      BY <1>1, <2>1
    <2>5. \A i \in 1..Len(n) : i \in 1..Len(q) \/ n[i] = e
      BY <1>1, <2>1
    <2>6. Range(n) \subseteq Range(q) \cup {e}
      BY <1>1, <2>2, <2>3, <2>5
    <2>7. ASSUME NEW i \in 1..Len(n) PROVE n[i].id = seq' - Len(n) + i
      <3>1. CASE i \in 1..Len(q)
        <4>1. n[i].id = seq - Len(q) + i
          BY <3>1, <1>1, <2>3
        <4> QED
          BY <4>1, <1>1, <2>1
      <3>2. CASE i \notin 1..Len(q)
        <4>1. n[i] = e /\ i = Len(n)
          BY <3>2, <1>1, <2>1
        <4> QED
          BY <4>1, <1>1, <2>1
      <3> QED
        BY <3>1, <3>2
    <2> QED
      BY <1>1, <2>1, <2>2, <2>3, <2>4, <2>6, <2>7 DEF Recent
  <1>3. ASSUME q # <<>>, n = Append(Tail(q), e)
        PROVE  /\ n \in Seq(Event) /\ Recent(n)' /\ e \in Range(n) /\ Range(n) \subseteq Range(q) \cup {e}
               /\ Len(n) = Len(q) /\ \A f \in Range(q) : f = q[1] \/ f \in Range(n)
    <2>1. PICK t : t = Tail(q)
      OBVIOUS
    <2>2. Len(q) >= 1 /\ t \in Seq(Event) /\ Len(t) = Len(q) - 1 /\ \A i \in 1..Len(t) : t[i] = q[i+1]
      BY <1>3, <1>1, <2>1, HeadTailProperties, EmptySeq
    <2>3. n = Append(t, e)
      BY <1>3, <2>1, Zenon
    <2>4. n \in Seq(Event) /\ Len(n) = Len(q) /\ \A i \in 1..Len(n) : n[i] = IF i <= Len(t) THEN t[i] ELSE e
      BY <1>1, <2>2, <2>3, AppendProperties
    <2>5. Range(n) = {n[i] : i \in 1..Len(n)}
      BY <2>4, LenProperties DEF Range
    <2>6. \A i \in 1..Len(t) : i \in 1..Len(n) /\ i + 1 \in 1..Len(q) /\ n[i] = q[i+1]
      BY <1>1, <2>2, <2>4
    <2>7. Len(n) \in 1..Len(n) /\ n[Len(n)] = e
      BY <1>1, <2>2, <2>4
    <2>8. \A i \in 1..Len(n) : i \in 1..Len(t) \/ (i = Len(n) /\ n[i] = e)
      BY <1>1, <2>2, <2>4
    <2>9. Range(n) \subseteq Range(q) \cup {e}
      BY <1>1, <2>5, <2>6, <2>8
    <2>10. ASSUME NEW i \in 1..Len(n) PROVE n[i].id = seq' - Len(n) + i
      <3>1. CASE i \in 1..Len(t)
        <4>1. n[i].id = seq - Len(q) + (i + 1)
          BY <3>1, <1>1, <2>6
        <4> QED
          BY <4>1, <1>1, <2>4
      <3>2. CASE i \notin 1..Len(t)
        <4>1. n[i] = e /\ i = Len(n)
          BY <3>2, <2>8
        <4> QED
          BY <4>1, <1>1, <2>4
      <3> QED
        BY <3>1, <3>2
    <2>11. ASSUME NEW i \in 1..Len(q) PROVE q[i] = q[1] \/ q[i] \in Range(n)
      <3>1. CASE i = 1
        BY <3>1
      <3>2. CASE i # 1
        <4>1. i - 1 \in 1..Len(t) /\ (i - 1) + 1 = i
          BY <3>2, <1>1, <2>2
        <4>2. i - 1 \in 1..Len(n) /\ n[i - 1] = q[i]
          <5>1. PICK j \in Int : j = i - 1
            BY <4>1
          <5> QED
            BY <4>1, <5>1, <2>6
        <4> QED
          BY <4>2, <2>5
      <3> QED
        BY <3>1, <3>2
    <2>12. Recent(n)'
      BY <2>10 DEF Recent
    <2>13. e \in Range(n)
      BY <2>5, <2>7
    <2>14. \A f \in Range(q) : f = q[1] \/ f \in Range(n)
      BY <1>1, <2>11
    <2> QED
      BY <2>4, <2>9, <2>12, <2>13, <2>14
  <1> QED
    BY <1>2, <1>3

\* The ring after an event: it holds what a replay that is complete now would
\* have told of before, and the event.
LEMMA HistoryShifted ==
    ASSUME BrokerSound, ~stopped, NEW e \in Event, e.id = seq + 1, seq' = seq + 1, history' = appendHistory(e)
    PROVE  /\ history' \in Seq(Event) /\ Len(history') <= HistoryCap /\ Recent(history)'
           /\ Range(history') \subseteq Range(history) \cup {e}
           /\ \A after \in Nat : after <= seq /\ ReplayComplete(after)' =>
                 ReplayComplete(after) /\ ToldAgain(after) \cup {e.change} \subseteq ToldAgain(after)'
  <1>1. history \in Seq(Event) /\ Len(history) <= HistoryCap /\ Recent(history) /\ Len(history) \in Nat /\ HistoryCap \in Nat /\ seq \in Nat
    BY StreamAssumption, LenProperties DEF BrokerSound
  <1>2. PICK h : h = history'
    OBVIOUS
  <1>3. CASE HistoryCap = 0
    <2>1. h = <<>>
      BY <1>2, <1>3 DEF appendHistory
    <2>2. history' = <<>> /\ Len(history') = 0 /\ Range(history') = {} /\ history' \in Seq(Event)
      BY <1>2, <2>1 DEF Range
    <2>3. Recent(history)'
      BY <2>2 DEF Recent
    <2>4. \A after \in Nat : after <= seq => ~ReplayComplete(after)'
      BY <1>1, <2>2 DEF ReplayComplete
    <2> QED
      BY <1>1, <2>2, <2>3, <2>4
  <1>4. ASSUME HistoryCap # 0,
               \/ h = Append(history, e) /\ Len(history) < HistoryCap
               \/ history # <<>> /\ h = Append(Tail(history), e)
        PROVE  /\ h \in Seq(Event) /\ Len(h) <= HistoryCap /\ Recent(h)' /\ Range(h) \subseteq Range(history) \cup {e}
               /\ \A after \in Nat : after <= seq /\ after >= seq' - Len(h) =>
                     /\ after >= seq - Len(history) /\ e \in Range(h)
                     /\ \A f \in Range(history) : f.id > after => f \in Range(h)
    <2>1. /\ h \in Seq(Event) /\ Recent(h)' /\ e \in Range(h) /\ Range(h) \subseteq Range(history) \cup {e}
          /\ h = Append(history, e) => Range(history) \subseteq Range(h) /\ Len(h) = Len(history) + 1
          /\ history # <<>> /\ h = Append(Tail(history), e) =>
                Len(h) = Len(history) /\ \A f \in Range(history) : f = history[1] \/ f \in Range(h)
      BY <1>1, <1>4, RecentShifted
    <2>2. CASE h = Append(history, e) /\ Len(history) < HistoryCap
      BY <1>1, <2>1, <2>2
    <2>3. CASE history # <<>> /\ h = Append(Tail(history), e)
      <3>1. Len(h) = Len(history) /\ \A f \in Range(history) : f = history[1] \/ f \in Range(h)
        BY <2>1, <2>3
      <3>2. history[1].id = seq - Len(history) + 1
        <4>1. 1 \in 1..Len(history)
          BY <1>1, <2>3, EmptySeq
        <4> QED
          BY <4>1, <1>1 DEF Recent
      <3>3. ASSUME NEW after \in Nat, after >= seq' - Len(h), NEW f \in Range(history), f.id > after PROVE f \in Range(h)
        <4>1. ~(history[1].id > after)
          BY <1>1, <3>1, <3>2, <3>3
        <4> QED
          BY <3>1, <3>3, <4>1
      <3>4. \A after \in Nat : after >= seq' - Len(h) => after >= seq - Len(history)
        BY <1>1, <3>1
      <3>5. Len(h) <= HistoryCap
        BY <1>1, <3>1
      <3>6. h \in Seq(Event) /\ Recent(h)' /\ e \in Range(h) /\ Range(h) \subseteq Range(history) \cup {e}
        BY <2>1
      <3> QED
        BY <3>3, <3>4, <3>5, <3>6
    <2> QED
      BY <1>4, <2>2, <2>3
  <1>5. CASE HistoryCap # 0
    <2>1. \/ h = Append(history, e) /\ Len(history) < HistoryCap
          \/ history # <<>> /\ h = Append(Tail(history), e)
      <3>1. CASE Len(history) < HistoryCap
        BY <1>2, <1>5, <3>1 DEF appendHistory
      <3>2. CASE ~(Len(history) < HistoryCap)
        <4>1. history # <<>>
          BY <1>1, <1>5, <3>2, EmptySeq
        <4>2. h = Append(Tail(history), e)
          BY <1>2, <1>5, <3>2, Zenon DEF appendHistory
        <4> QED
          BY <4>1, <4>2
      <3> QED
        BY <3>1, <3>2
    <2>2. /\ h \in Seq(Event) /\ Len(h) <= HistoryCap /\ Recent(h)' /\ Range(h) \subseteq Range(history) \cup {e}
          /\ \A after \in Nat : after <= seq /\ after >= seq' - Len(h) =>
                /\ after >= seq - Len(history) /\ e \in Range(h)
                /\ \A f \in Range(history) : f.id > after => f \in Range(h)
      BY <1>4, <1>5, <2>1
    <2>3. Recent(history)'
      BY <1>2, <2>2 DEF Recent
    <2>4. ASSUME NEW after \in Nat, after <= seq, ReplayComplete(after)'
          PROVE  ReplayComplete(after) /\ ToldAgain(after) \cup {e.change} \subseteq ToldAgain(after)'
      <3>1. after >= seq' - Len(h)
        <4>1. Len(h) \in Nat /\ seq' \in Nat /\ (h = <<>> <=> Len(h) = 0)
          BY <1>1, <2>2, LenProperties, EmptySeq
        <4>2. h # <<>> => h[1].id = seq' - Len(h) + 1
          <5>1. h # <<>> => 1 \in 1..Len(h)
            BY <4>1
          <5> QED
            BY <5>1, <2>2 DEF Recent
        <4>3. IF h = <<>> THEN after >= seq' ELSE after + 1 >= h[1].id
          BY <1>2, <2>4 DEF ReplayComplete
        <4> QED
          BY <4>1, <4>2, <4>3
      <3>2. /\ after >= seq - Len(history) /\ e \in Range(h)
            /\ \A f \in Range(history) : f.id > after => f \in Range(h)
        BY <2>2, <2>4, <3>1
      <3>3. ReplayComplete(after)
        BY <1>1, <3>2, ReplayMeans
      <3>4. ToldAgain(after)' = {f.change : f \in {g \in Range(h) : g.id > after}}
        BY <1>2 DEF ToldAgain, ReplayedEvents
      <3>5. e \in {g \in Range(h) : g.id > after}
        BY <1>1, <2>4, <3>2
      <3>6. ToldAgain(after) \subseteq ToldAgain(after)'
        BY <3>2, <3>4 DEF ToldAgain, ReplayedEvents
      <3> QED
        BY <3>3, <3>4, <3>5, <3>6
    <2> QED
      BY <1>2, <2>2, <2>3, <2>4
  <1> QED
    BY <1>3, <1>5

\* The queue after its head was taken.
LEMMA RecentTail ==
    ASSUME NEW q \in Seq(Event), q # <<>>
    PROVE  /\ Tail(q) \in Seq(Event) /\ Len(Tail(q)) = Len(q) - 1 /\ Len(q) \in Nat /\ Len(q) >= 1 /\ Head(q) \in Event
           /\ Range(q) = Range(Tail(q)) \cup {Head(q)}
           /\ Recent(q) /\ seq \in Nat => Recent(Tail(q)) /\ Head(q).id = seq - Len(Tail(q))
  <1>1. Len(q) \in Nat /\ Len(q) >= 1 /\ Head(q) = q[1] /\ \A i \in 1..Len(q) : q[i] \in Event
    BY LenProperties, ElementOfSeq, EmptySeq
  <1>2. Tail(q) \in Seq(Event) /\ Len(Tail(q)) = Len(q) - 1 /\ \A i \in 1..Len(Tail(q)) : Tail(q)[i] = q[i+1] /\ i + 1 \in 1..Len(q)
    BY <1>1, HeadTailProperties
  <1>3. 1 \in 1..Len(q)
    BY <1>1
  <1>4. Range(q) = Range(Tail(q)) \cup {Head(q)}
    <2>1. Range(q) = {q[i] : i \in 1..Len(q)} /\ Range(Tail(q)) = {Tail(q)[i] : i \in 1..Len(Tail(q))}
      BY <1>2, LenProperties DEF Range
    <2>2. ASSUME NEW i \in 1..Len(q) PROVE q[i] = q[1] \/ q[i] \in Range(Tail(q))
      <3>1. CASE i # 1
        <4>1. PICK j \in Int : j = i - 1
          OBVIOUS
        <4>2. j \in 1..Len(Tail(q)) /\ j + 1 = i
          BY <4>1, <3>1, <1>1, <1>2
        <4> QED
          BY <4>2, <1>2, <2>1
      <3> QED
        BY <3>1
    <2>3. \A i \in 1..Len(Tail(q)) : Tail(q)[i] \in Range(q)
      BY <1>2, <2>1
    <2> QED
      BY <1>1, <1>3, <2>1, <2>2, <2>3
  <1>5. ASSUME Recent(q), seq \in Nat PROVE Recent(Tail(q)) /\ Head(q).id = seq - Len(Tail(q))
    <2>1. Head(q).id = seq - Len(q) + 1
      BY <1>1, <1>3, <1>5 DEF Recent
    <2>2. Head(q).id = seq - Len(Tail(q))
      BY <1>1, <1>2, <1>5, <2>1
    <2>3. ASSUME NEW i \in 1..Len(Tail(q)) PROVE Tail(q)[i].id = seq - Len(Tail(q)) + i
      <3>1. Tail(q)[i].id = seq - Len(q) + (i + 1)
        BY <1>2, <1>5 DEF Recent
      <3> QED
        BY <3>1, <1>1, <1>2, <1>5
    <2> QED
      BY <2>2, <2>3 DEF Recent
  <1> QED
    BY <1>1, <1>2, <1>4, <1>5

\* A client that is subscribed is offered an event.
LEMMA OfferSound ==
    ASSUME BrokerSound, ~stopped, NEW s, Sound(s), s.at # "off", NEW e \in Event, e.id = seq + 1, seq' = seq + 1,
           history' = appendHistory(e), Out' = Out \cup {e.change}, UNCHANGED <<boots, stopped>>,
           NEW n, n = Offered(s, e)
    PROVE  n \in DashState /\ Sound(n)'
  <1>0. seq \in Nat /\ seq' \in Nat /\ QueueSize \in Nat /\ QueueSize >= 1
    BY StreamAssumption DEF BrokerSound
  <1>1. /\ s \in DashState /\ s.queue \in Seq(Event) /\ Len(s.queue) <= QueueSize /\ Recent(s.queue) /\ Agrees(s.queue)
        /\ s.of <= boots /\ Following(s) /\ Len(s.queue) \in Nat /\ s.last \in Nat
    BY LenProperties DEF Sound, Following, DashState
  <1>2. PICK q : q = IF Len(s.queue) < QueueSize THEN Append(s.queue, e) ELSE Append(Tail(s.queue), e)
    OBVIOUS
  <1>3. \/ q = Append(s.queue, e) /\ Len(s.queue) < QueueSize
        \/ s.queue # <<>> /\ q = Append(Tail(s.queue), e) /\ ~(Len(s.queue) < QueueSize)
    <2>1. ~(Len(s.queue) < QueueSize) => s.queue # <<>>
      BY <1>0, <1>1, EmptySeq
    <2> QED
      BY <1>2, <2>1, Zenon
  <1>4. /\ q \in Seq(Event) /\ Recent(q)' /\ e \in Range(q) /\ Range(q) \subseteq Range(s.queue) \cup {e}
        /\ q = Append(s.queue, e) => Range(s.queue) \subseteq Range(q) /\ Len(q) = Len(s.queue) + 1
        /\ s.queue # <<>> /\ q = Append(Tail(s.queue), e) => Len(q) = Len(s.queue)
    <2>1. q = Append(s.queue, e) \/ (s.queue # <<>> /\ q = Append(Tail(s.queue), e))
      BY <1>3
    <2> QED
      BY <2>1, <1>0, <1>1, RecentShifted
  <1>5. /\ n.queue = q /\ n.at = s.at /\ n.known = s.known /\ n.of = s.of /\ n.last = s.last /\ n.closed = s.closed
        /\ n.unseen = s.unseen /\ n.blind = s.blind /\ n.cut = s.cut /\ (n.lossy <=> s.lossy \/ ~(Len(s.queue) < QueueSize)) /\ n \in DashState
    BY <1>1, <1>2, <1>4 DEF Offered, DashState
  <1>6. Len(q) <= QueueSize /\ Len(q) \in Nat /\ q # <<>>
    <2>1. Len(q) \in Nat /\ (q = <<>> => Len(q) = 0)
      BY <1>4, LenProperties
    <2>2. \/ Len(q) = Len(s.queue) + 1 /\ Len(s.queue) < QueueSize
          \/ Len(q) = Len(s.queue) /\ ~(Len(s.queue) < QueueSize)
      BY <1>3, <1>4
    <2> QED
      BY <1>0, <1>1, <2>1, <2>2
  <1>7. /\ Range(history') \subseteq Range(history) \cup {e}
        /\ \A after \in Nat : after <= seq /\ ReplayComplete(after)' =>
              ReplayComplete(after) /\ ToldAgain(after) \cup {e.change} \subseteq ToldAgain(after)'
    BY HistoryShifted
  <1>8. Agrees(q)'
    <2>1. ASSUME NEW f \in Range(q), NEW g \in Range(history'), f.id = g.id PROVE f.change = g.change
      <3>1. \A x \in Range(s.queue) : x.id \in Int /\ x.id <= seq
        BY <1>0, <1>1, RecentIds
      <3>2. \A x \in Range(history) : x.id \in Int /\ x.id <= seq
        BY <1>0, RecentIds DEF BrokerSound
      <3>3. (f \in Range(s.queue) \/ f = e) /\ (g \in Range(history) \/ g = e)
        BY <1>4, <1>7
      <3>4. f = e <=> g = e
        BY <1>0, <2>1, <3>1, <3>2, <3>3
      <3> QED
        BY <1>1, <2>1, <3>3, <3>4 DEF Agrees
    <2> QED
      BY <2>1 DEF Agrees
  <1>9. Following(n)'
    <2>1. ~n.closed /\ (n.at = "off" => n.queue = <<>>)
      BY <1>1, <1>5 DEF Following
    <2>2. n.of = boots' => n.last <= seq'
      BY <1>0, <1>1, <1>5 DEF Following
    <2>3. ASSUME n.at = "run", ~n.blind, ~n.cut, n.queue = <<>> \/ ~n.lossy
          PROVE  Out' \subseteq n.known \cup n.unseen \cup Queued(n)
      <3>1. ~s.lossy /\ Len(s.queue) < QueueSize
        BY <2>3, <1>5, <1>6
      <3>2. Out \subseteq s.known \cup s.unseen \cup Queued(s)
        BY <3>1, <2>3, <1>1, <1>5 DEF Following
      <3>3. Queued(s) \cup {e.change} \subseteq Queued(n)
        BY <3>1, <1>3, <1>4, <1>5 DEF Queued
      <3> QED
        BY <3>2, <3>3, <1>5
    <2>4. ASSUME n.at # "resync", n.of = boots', n.last > 0, ~n.blind, ~n.cut, ReplayComplete(n.last)'
          PROVE  Out' \subseteq n.known \cup n.unseen \cup ToldAgain(n.last)'
      <3>1. PICK a \in Nat : a = s.last
        BY <1>1
      <3>2. ReplayComplete(a)' /\ a <= seq /\ a > 0
        BY <2>4, <1>1, <1>5, <3>1 DEF Following, ReplayComplete
      <3>3. ReplayComplete(a) /\ ToldAgain(a) \cup {e.change} \subseteq ToldAgain(a)'
        BY <3>2, <1>7
      <3>4. Out \subseteq s.known \cup s.unseen \cup ToldAgain(a)
        BY <3>1, <3>2, <3>3, <2>4, <1>1, <1>5 DEF Following
      <3>5. ToldAgain(n.last)' = ToldAgain(a)'
        BY <1>5, <3>1 DEF ToldAgain, ReplayedEvents
      <3> QED
        BY <3>3, <3>4, <3>5, <1>5
    <2>5. ASSUME n.at = "resync" PROVE n.of = boots' /\ n.last <= seq' - Len(n.queue)
      <3>1. s.of = boots /\ s.last <= seq - Len(s.queue)
        BY <2>5, <1>1, <1>5 DEF Following
      <3>2. Len(q) <= Len(s.queue) + 1
        BY <1>1, <1>3, <1>4
      <3> QED
        BY <3>1, <3>2, <1>0, <1>1, <1>5, <1>6
    <2>6. Recent(n.queue)' /\ Agrees(n.queue)'
      BY <1>4, <1>5, <1>8 DEF Recent, Agrees
    <2>7. (Queued(n))' = Queued(n)
      BY DEF Queued
    <2> QED
      BY <2>1, <2>2, <2>3, <2>4, <2>5, <2>6, <2>7 DEF Following
  <1> QED
    BY <1>1, <1>5, <1>6, <1>9 DEF Sound

\* An event that a dashboard is not offered.
LEMMA UnofferedSound ==
    ASSUME BrokerSound, ~stopped, NEW s, Sound(s), s.at = "off", NEW e \in Event, e.id = seq + 1, seq' = seq + 1,
           history' = appendHistory(e), Out' = Out \cup {e.change}, UNCHANGED <<boots, stopped>>
    PROVE  Sound(s)'
  <1>0. seq \in Nat /\ seq' \in Nat
    BY DEF BrokerSound
  <1>1. s \in DashState /\ s.queue = <<>> /\ Following(s) /\ s.last \in Nat /\ Len(s.queue) = 0
    BY DEF Sound, Following, DashState
  <1>2. \A after \in Nat : after <= seq /\ ReplayComplete(after)' =>
              ReplayComplete(after) /\ ToldAgain(after) \cup {e.change} \subseteq ToldAgain(after)'
    BY HistoryShifted
  <1>3. Recent(s.queue)' /\ Agrees(s.queue)'
    BY <1>1 DEF Recent, Agrees, Range
  <1>4. s.of = boots' => s.last <= seq'
    BY <1>0, <1>1 DEF Following
  <1>5. ASSUME s.of = boots', s.last > 0, ~s.blind, ~s.cut, ReplayComplete(s.last)'
        PROVE  Out' \subseteq s.known \cup s.unseen \cup ToldAgain(s.last)'
    <2>1. ReplayComplete(s.last) /\ ToldAgain(s.last) \cup {e.change} \subseteq ToldAgain(s.last)'
      <3>1. s.last <= seq
        BY <1>1, <1>5 DEF Following
      <3> QED
        BY <3>1, <1>1, <1>2, <1>5
    <2>2. Out \subseteq s.known \cup s.unseen \cup ToldAgain(s.last)
      BY <2>1, <1>1, <1>5 DEF Following
    <2> QED
      BY <2>1, <2>2
  <1>6. Following(s)'
    BY <1>1, <1>3, <1>4, <1>5 DEF Following
  <1> QED
    BY <1>1, <1>6 DEF Sound

\* A stop closes the subscriptions.
LEMMA StopSound ==
    ASSUME NEW s, Sound(s), stopped' = TRUE, UNCHANGED boots,
           NEW n, n = s \/ n = [s EXCEPT !.closed = TRUE]
    PROVE  n \in DashState /\ Sound(n)'
  <1>1. /\ n \in DashState /\ n.queue = s.queue /\ n.of = s.of
    BY DEF Sound, DashState
  <1> QED
    BY <1>1 DEF Sound

\* A stream that is over.
LEMMA GoneIs ==
    ASSUME NEW s \in DashState, NEW n, n = Gone(s)
    PROVE  /\ n \in DashState /\ n.at = "off" /\ n.queue = <<>> /\ ~n.lossy /\ ~n.closed /\ n.known = s.known
           /\ n.last = s.last /\ n.of = s.of /\ n.unseen = s.unseen /\ n.blind = s.blind
           /\ (n.cut <=> s.cut \/ s.at = "resync") /\ Len(n.queue) = 0
  <1>1. <<>> \in Seq(Event) /\ Len(<<>>) = 0
    OBVIOUS
  <1>2. /\ s.queue \in Seq(Event) /\ s.lossy \in BOOLEAN /\ s.closed \in BOOLEAN /\ s.known \in SUBSET (1..MaxChanges)
        /\ s.last \in 0..MaxChanges /\ s.of \in 0..MaxBoots /\ s.unseen \in SUBSET (1..MaxChanges)
        /\ s.blind \in BOOLEAN /\ s.cut \in BOOLEAN
    BY DEF DashState
  <1>3. PICK c \in BOOLEAN : c = (s.cut \/ s.at = "resync")
    BY <1>2
  <1>4. n = [at |-> "off", queue |-> <<>>, lossy |-> FALSE, closed |-> FALSE, known |-> s.known, last |-> s.last,
             of |-> s.of, unseen |-> s.unseen, blind |-> s.blind, cut |-> c]
    BY <1>3 DEF Gone, DashState
  <1>5. n \in DashState
    BY <1>1, <1>2, <1>4 DEF DashState
  <1>6. /\ n.at = "off" /\ n.queue = <<>> /\ ~n.lossy /\ ~n.closed /\ n.known = s.known
        /\ n.last = s.last /\ n.of = s.of /\ n.unseen = s.unseen /\ n.blind = s.blind
    BY <1>4
  <1>7. n.cut <=> s.cut \/ s.at = "resync"
    <2>1. n.cut = c
      BY <1>4
    <2>2. n.cut = (s.cut \/ s.at = "resync")
      BY <2>1, <1>3, Zenon
    <2> QED
      BY <2>2, Zenon
  <1> QED
    BY <1>1, <1>5, <1>6, <1>7

\* A new process knows nothing of the streams of the old one.
LEMMA RebootSound ==
    ASSUME BrokerSound, NEW s, Sound(s), NEW n, n = Gone(s), boots' = boots + 1
    PROVE  n \in DashState /\ Sound(n)'
  <1>1. /\ n \in DashState /\ n.at = "off" /\ n.queue = <<>> /\ ~n.closed /\ n.of = s.of /\ Len(n.queue) = 0
    BY GoneIs DEF Sound
  <1>2. boots \in Int /\ n.of \in Int /\ n.of <= boots /\ 0 <= QueueSize
    BY <1>1, StreamAssumption DEF Sound, BrokerSound, DashState
  <1>3. n.of # boots' /\ n.of <= boots'
    BY <1>2
  <1>4. Recent(n.queue)' /\ Agrees(n.queue)'
    BY <1>1 DEF Recent, Agrees, Range
  <1>5. Following(n)'
    BY <1>1, <1>3, <1>4 DEF Following
  <1> QED
    BY <1>1, <1>2, <1>3, <1>5 DEF Sound

\* A client that left.
LEMMA LeftSound ==
    ASSUME NEW s, Sound(s), NEW n, n = Gone(s)
    PROVE  Sound(n)
  <1>1. /\ n \in DashState /\ n.at = "off" /\ n.queue = <<>> /\ ~n.lossy /\ ~n.closed /\ n.known = s.known
        /\ n.last = s.last /\ n.of = s.of /\ n.unseen = s.unseen /\ n.blind = s.blind
        /\ (n.cut <=> s.cut \/ s.at = "resync") /\ Len(n.queue) = 0
    BY GoneIs DEF Sound
  <1>2. Recent(n.queue) /\ Agrees(n.queue) /\ 0 <= QueueSize
    BY <1>1, StreamAssumption DEF Recent, Agrees, Range
  <1>3. ~stopped => Following(n)
    BY <1>1, <1>2 DEF Sound, Following
  <1> QED
    BY <1>1, <1>2, <1>3 DEF Sound

\* A client that connects.
LEMMA ConnectedSound ==
    ASSUME NEW s, Sound(s), s.at = "off", stopped \in BOOLEAN,
           NEW n, n = [s EXCEPT !.at = "greet", !.queue = <<>>, !.lossy = FALSE, !.closed = stopped]
    PROVE  Sound(n)
  <1>1. /\ n \in DashState /\ n.at = "greet" /\ n.queue = <<>> /\ ~n.lossy /\ (n.closed <=> stopped) /\ n.known = s.known
        /\ n.last = s.last /\ n.of = s.of /\ n.unseen = s.unseen /\ n.blind = s.blind /\ n.cut = s.cut /\ Len(n.queue) = 0
    <2>1. <<>> \in Seq(Event) /\ Len(<<>>) = 0 /\ s \in DashState
      BY DEF Sound
    <2>2. n \in DashState
      BY <2>1 DEF DashState
    <2>3. /\ n.at = "greet" /\ n.queue = <<>> /\ ~n.lossy /\ n.known = s.known
          /\ n.last = s.last /\ n.of = s.of /\ n.unseen = s.unseen /\ n.blind = s.blind /\ n.cut = s.cut /\ n.closed = stopped
      BY <2>1 DEF DashState
    <2> QED
      BY <2>1, <2>2, <2>3
  <1>2. Recent(n.queue) /\ Agrees(n.queue) /\ 0 <= QueueSize
    BY <1>1, StreamAssumption DEF Recent, Agrees, Range
  <1>3. ~stopped => Following(n)
    BY <1>1, <1>2 DEF Sound, Following
  <1> QED
    BY <1>1, <1>2, <1>3 DEF Sound

\* A snapshot that was written, or could not be read.
LEMMA SnapshotSound ==
    ASSUME BrokerSound, NEW s, Sound(s), s.at = "resync" \/ (s.at = "greet" /\ ~(s.last > 0 /\ ReplayComplete(s.last))),
           NEW n, \/ n = [s EXCEPT !.at = "run", !.known = inStore, !.unseen = early \ Queued(s), !.blind = FALSE, !.cut = FALSE]
                  \/ n = [s EXCEPT !.at = "run", !.blind = TRUE]
    PROVE  Sound(n)
  <1>0. /\ inStore \in SUBSET (1..MaxChanges) /\ early \in SUBSET (1..MaxChanges)
        /\ seq \in Nat /\ history \in Seq(Event)
    BY OwedFinite DEF BrokerSound
  <1>1. s \in DashState /\ s.last \in Nat /\ s.queue \in Seq(Event)
    BY DEF Sound, DashState
  <1>2. /\ n \in DashState /\ n.at = "run" /\ n.queue = s.queue /\ n.closed = s.closed
        /\ n.last = s.last /\ n.of = s.of /\ (n.blind \/ (n.known = inStore /\ n.unseen = early \ Queued(s)))
    <2>1. PICK u : u = early \ Queued(s)
      OBVIOUS
    <2>2. u \in SUBSET (1..MaxChanges)
      BY <1>0, <2>1
    <2>3. \/ n = [s EXCEPT !.at = "run", !.known = inStore, !.unseen = u, !.blind = FALSE, !.cut = FALSE]
          \/ n = [s EXCEPT !.at = "run", !.blind = TRUE]
      BY <2>1
    <2>4. /\ n \in DashState /\ n.at = "run" /\ n.queue = s.queue /\ n.closed = s.closed
          /\ n.last = s.last /\ n.of = s.of /\ (n.blind \/ (n.known = inStore /\ n.unseen = u))
      BY <1>0, <1>1, <2>2, <2>3 DEF DashState
    <2> QED
      BY <2>1, <2>4
  <1>3. ASSUME ~stopped PROVE Following(n)
    <2>1. Following(s) /\ Recent(s.queue) /\ Agrees(s.queue) /\ Recent(history)
      BY <1>3 DEF Sound, Following, BrokerSound
    <2>2. Queued(n) = Queued(s)
      BY <1>2 DEF Queued
    <2>3. ~n.blind => Out \subseteq n.known \cup n.unseen \cup Queued(n)
      BY <1>2, <2>2 DEF Out
    <2>4. ASSUME n.last > 0, ~n.blind, ReplayComplete(n.last)
          PROVE  Out \subseteq n.known \cup n.unseen \cup ToldAgain(n.last)
      <3>1. s.at = "resync" /\ ReplayComplete(s.last)
        BY <1>2, <2>4
      <3>2. s.last <= seq - Len(s.queue)
        BY <2>1, <3>1 DEF Following
      <3>3. \A e \in Range(s.queue) : e.change \in ToldAgain(s.last)
        BY <1>0, <1>1, <2>1, <3>1, <3>2, QueuedReplayed
      <3>4. Queued(s) \subseteq ToldAgain(n.last)
        BY <1>2, <3>3 DEF Queued
      <3> QED
        BY <1>2, <2>4, <3>4 DEF Out
    <2> QED
      BY <1>2, <2>1, <2>3, <2>4 DEF Following
  <1> QED
    BY <1>2, <1>3 DEF Sound

\* One event that was written to the client.
LEMMA PumpSound ==
    ASSUME BrokerSound, NEW s, Sound(s), s.at = "run", s.queue # <<>>,
           NEW w, w = Written(s, Head(s.queue)),
           NEW n, n = [w EXCEPT !.queue = Tail(@), !.at = IF w.lossy THEN "resync" ELSE "run"]
    PROVE  Sound(n)
  <1>0. seq \in Nat /\ boots \in 0..MaxBoots /\ MaxBoots \in Nat /\ MaxChanges \in Nat /\ history \in Seq(Event)
    BY StreamAssumption DEF BrokerSound
  <1>1. /\ s \in DashState /\ s.queue \in Seq(Event) /\ Len(s.queue) <= QueueSize
        /\ s.known \in SUBSET (1..MaxChanges) /\ s.lossy \in BOOLEAN
    BY DEF Sound, DashState
  <1>2. PICK q, e : q = Tail(s.queue) /\ e = Head(s.queue)
    OBVIOUS
  <1>3. /\ q \in Seq(Event) /\ Len(q) = Len(s.queue) - 1 /\ Len(s.queue) \in Nat /\ Len(s.queue) >= 1
        /\ e \in Event /\ Range(s.queue) = Range(q) \cup {e}
        /\ Recent(s.queue) => Recent(q) /\ e.id = seq - Len(q)
    BY <1>0, <1>1, <1>2, RecentTail
  <1>4. e.id \in 1..MaxChanges /\ e.change \in 1..MaxChanges
    BY <1>3 DEF Event
  <1>5. w = [s EXCEPT !.known = s.known \cup {e.change}, !.last = e.id, !.of = boots]
    BY <1>2 DEF Written
  <1>6. /\ n \in DashState /\ n.queue = q /\ n.at = (IF s.lossy THEN "resync" ELSE "run") /\ n.known = s.known \cup {e.change}
        /\ n.last = e.id /\ n.of = boots /\ n.closed = s.closed /\ n.lossy = s.lossy /\ n.unseen = s.unseen
        /\ n.blind = s.blind /\ n.cut = s.cut
    <2>1. s.known \cup {e.change} \in SUBSET (1..MaxChanges) /\ e.id \in 0..MaxChanges
      BY <1>0, <1>1, <1>4
    <2>2. /\ w \in DashState /\ w.queue = s.queue /\ w.known = s.known \cup {e.change} /\ w.last = e.id /\ w.of = boots
          /\ w.closed = s.closed /\ w.lossy = s.lossy /\ w.unseen = s.unseen /\ w.blind = s.blind /\ w.cut = s.cut
      BY <1>0, <1>1, <1>5, <2>1 DEF DashState
    <2>3. n = [w EXCEPT !.queue = q, !.at = IF s.lossy THEN "resync" ELSE "run"]
      BY <1>2, <2>2
    <2>4. n \in DashState
      BY <1>3, <2>2, <2>3 DEF DashState
    <2>5. /\ n.queue = q /\ n.at = (IF s.lossy THEN "resync" ELSE "run") /\ n.known = w.known /\ n.last = w.last
          /\ n.of = w.of /\ n.closed = w.closed /\ n.lossy = w.lossy /\ n.unseen = w.unseen /\ n.blind = w.blind /\ n.cut = w.cut
      BY <2>2, <2>3 DEF DashState
    <2> QED
      BY <2>2, <2>4, <2>5
  <1>7. Len(n.queue) <= QueueSize /\ n.of <= boots /\ e.id \in Nat /\ Len(q) \in Nat
    <2>1. QueueSize \in Int /\ boots \in Int
      BY <1>0, StreamAssumption
    <2>2. Len(q) <= QueueSize /\ Len(q) \in Nat
      BY <1>1, <1>3, <2>1
    <2> QED
      BY <1>0, <1>4, <1>6, <2>1, <2>2
  <1>8. ASSUME ~stopped PROVE Following(n)
    <2>1. Following(s) /\ Recent(s.queue) /\ Agrees(s.queue) /\ Recent(history)
      BY <1>8 DEF Sound, Following, BrokerSound
    <2>2. Recent(q) /\ e.id = seq - Len(q) /\ Agrees(q)
      BY <1>3, <2>1 DEF Agrees
    <2>3. ASSUME n.at = "run", ~n.blind, ~n.cut PROVE Out \subseteq n.known \cup n.unseen \cup Queued(n)
      <3>1. Out \subseteq s.known \cup s.unseen \cup Queued(s)
        BY <1>6, <2>1, <2>3 DEF Following
      <3>2. Queued(s) \subseteq Queued(n) \cup {e.change}
        BY <1>3, <1>6 DEF Queued
      <3> QED
        BY <1>6, <3>1, <3>2
    <2>4. ASSUME ReplayComplete(n.last) PROVE Queued(n) \subseteq ToldAgain(n.last)
      <3>1. \A f \in Range(q) : f.change \in ToldAgain(e.id)
        <4>1. PICK a \in Nat : a = e.id
          BY <1>7
        <4>2. a <= seq - Len(q) /\ ReplayComplete(a)
          BY <1>0, <1>6, <1>7, <2>2, <2>4, <4>1
        <4>3. \A f \in Range(q) : f.change \in ToldAgain(a)
          BY <1>0, <1>3, <2>1, <2>2, <4>2, QueuedReplayed
        <4> QED
          BY <4>1, <4>3
      <3> QED
        BY <1>6, <3>1 DEF Queued
    <2>5. n.at # "resync" => n.at = "run"
      BY <1>6
    <2>6. n.last <= seq /\ n.last <= seq - Len(n.queue)
      BY <1>0, <1>6, <1>7, <2>2
    <2> QED
      BY <1>6, <2>1, <2>2, <2>3, <2>4, <2>5, <2>6 DEF Following
  <1> QED
    BY <1>6, <1>7, <1>8 DEF Sound

\* A client that resumes and missed nothing that is gone.
LEMMA ReplaySound ==
    ASSUME BrokerSound, NEW s, Sound(s), s.at = "greet", s.last > 0, ReplayComplete(s.last),
           NEW w, w = Replayed(s), NEW n, n = [w EXCEPT !.at = "run", !.cut = @ \/ s.of # boots]
    PROVE  Sound(n)
  <1>0. /\ seq \in Nat /\ MaxChanges \in Nat /\ boots \in 0..MaxBoots /\ MaxBoots \in Nat
        /\ history \in Seq(Event) /\ Len(history) \in Nat /\ \A i \in 1..Len(history) : history[i] \in Event
        /\ Range(history) = {history[i] : i \in 1..Len(history)}
    BY StreamAssumption, LenProperties, ElementOfSeq DEF BrokerSound, Range
  <1>1. /\ s \in DashState /\ Len(s.queue) <= QueueSize
        /\ s.known \in SUBSET (1..MaxChanges) /\ s.last \in Nat
        /\ s.of <= boots /\ s.blind \in BOOLEAN /\ s.cut \in BOOLEAN
    BY DEF Sound, DashState
  <1>2. PICK got : got = ToldAgain(s.last)
    OBVIOUS
  <1>3. got \in SUBSET (1..MaxChanges)
    <2>1. \A x \in Event : x.change \in 1..MaxChanges
      BY DEF Event
    <2> QED
      BY <1>0, <1>2, <2>1 DEF ToldAgain, ReplayedEvents
  <1>4. PICK b : b = (s.cut \/ s.of # boots)
    OBVIOUS
  <1>5. /\ n \in DashState /\ n.at = "run" /\ n.queue = s.queue /\ n.closed = s.closed /\ n.lossy = s.lossy
        /\ n.unseen = s.unseen /\ n.blind = s.blind
        /\ n.cut = b /\ got \cup s.known \subseteq n.known /\ n.of <= boots
        /\ \/ n.last = s.last /\ n.of = s.of
           \/ history # <<>> /\ n.last = history[Len(history)].id /\ n.of = boots
    <2>b. b \in BOOLEAN
      BY <1>4
    <2>1. ASSUME ReplayedEvents(s.last) = {}
          PROVE  /\ n \in DashState /\ n.at = "run" /\ n.queue = s.queue /\ n.closed = s.closed /\ n.lossy = s.lossy
                 /\ n.unseen = s.unseen /\ n.blind = s.blind
                 /\ n.cut = b /\ n.known = s.known /\ n.last = s.last /\ n.of = s.of /\ got = {}
      <3>1. w = s /\ got = {}
        BY <2>1, <1>2 DEF Replayed, ToldAgain
      <3>2. n = [s EXCEPT !.at = "run", !.cut = b]
        BY <3>1, <1>4
      <3> QED
        BY <3>1, <3>2, <2>b, <1>1 DEF DashState
    <2>2. ASSUME ReplayedEvents(s.last) # {}
          PROVE  /\ n \in DashState /\ n.at = "run" /\ n.queue = s.queue /\ n.closed = s.closed /\ n.lossy = s.lossy
                 /\ n.unseen = s.unseen /\ n.blind = s.blind
                 /\ n.cut = b /\ got \cup s.known \subseteq n.known
                 /\ history # <<>> /\ n.last = history[Len(history)].id /\ n.of = boots
      <3>1. history # <<>> /\ Len(history) \in 1..Len(history)
        <4>1. 1..Len(history) # {}
          BY <2>2, <1>0 DEF ReplayedEvents
        <4> QED
          BY <4>1, <1>0
      <3>2. PICK l : l = history[Len(history)]
        OBVIOUS
      <3>3. l \in Event /\ l.id \in 0..MaxChanges /\ l.change \in 1..MaxChanges
        <4>1. l \in Event
          BY <1>0, <3>1, <3>2
        <4>2. l.id \in 1..MaxChanges /\ l.change \in 1..MaxChanges
          BY <4>1 DEF Event
        <4> QED
          BY <1>0, <4>1, <4>2
      <3>4. PICK k : k = s.known \cup {l.change} \cup got
        OBVIOUS
      <3>5. k \in SUBSET (1..MaxChanges) /\ got \cup s.known \subseteq k
        BY <1>1, <1>3, <3>3, <3>4
      <3>6. w = [[s EXCEPT !.known = s.known \cup {l.change}, !.last = l.id, !.of = boots] EXCEPT !.known = @ \cup got]
        BY <2>2, <1>2, <3>2 DEF Replayed, Written, Last, ToldAgain
      <3>7. w = [s EXCEPT !.known = k, !.last = l.id, !.of = boots]
        BY <3>4, <3>6, <1>1 DEF DashState
      <3>8. /\ w \in DashState /\ w.queue = s.queue /\ w.known = k /\ w.last = l.id /\ w.of = boots /\ w.cut = s.cut
            /\ w.closed = s.closed /\ w.lossy = s.lossy /\ w.unseen = s.unseen /\ w.blind = s.blind
        BY <3>3, <3>5, <3>7, <1>0, <1>1 DEF DashState
      <3>9. n = [w EXCEPT !.at = "run", !.cut = b]
        BY <3>8, <1>4
      <3>10. /\ n.at = "run" /\ n.queue = w.queue /\ n.closed = w.closed /\ n.lossy = w.lossy /\ n.unseen = w.unseen
             /\ n.blind = w.blind /\ n.cut = b /\ n.known = w.known /\ n.last = w.last /\ n.of = w.of /\ n \in DashState
        BY <3>8, <3>9, <2>b DEF DashState
      <3> QED
        BY <3>1, <3>2, <3>5, <3>8, <3>10
    <2>3. boots \in Int
      BY <1>0
    <2> QED
      BY <2>1, <2>2, <2>3, <1>1
  <1>6. ASSUME ~stopped PROVE Following(n)
    <2>1. Following(s) /\ Recent(s.queue) /\ Agrees(s.queue) /\ Recent(history)
      BY <1>6 DEF Sound, Following, BrokerSound
    <2>2. n.of = boots => n.last <= seq
      <3>1. history # <<>> => history[Len(history)].id = seq
        <4>1. history # <<>> => Len(history) \in 1..Len(history)
          BY <1>0, EmptySeq
        <4>2. history # <<>> => history[Len(history)].id = seq - Len(history) + Len(history)
          BY <4>1, <2>1 DEF Recent
        <4> QED
          BY <4>2, <1>0
      <3> QED
        BY <3>1, <1>0, <1>5, <2>1 DEF Following
    <2>3. ASSUME ~n.blind, ~n.cut PROVE Out \subseteq n.known \cup n.unseen
      <3>1. ~s.blind /\ ~s.cut /\ s.of = boots
        <4>1. ~b
          BY <2>3, <1>5
        <4>2. ~(s.cut \/ s.of # boots)
          BY <4>1, <1>4, Zenon
        <4> QED
          BY <4>2, <2>3, <1>5
      <3>2. Out \subseteq s.known \cup s.unseen \cup got
        BY <2>1, <3>1, <1>2 DEF Following
      <3> QED
        BY <3>2, <1>5
    <2> QED
      BY <1>5, <2>1, <2>2, <2>3 DEF Following
  <1> QED
    BY <1>1, <1>5, <1>6 DEF Sound

\* A change that is written before its event, or after it, is out neither more
\* nor less than before.
LEMMA WritesKeepOut ==
    ASSUME BrokerSound,
           \/ ChangeWritten
           \/ \E c \in 1..MaxChanges : WritePublished(c)
    PROVE  BrokerSound' /\ Out' = Out /\ UNCHANGED <<boots, seq, history, stopped, dash>>
  <1>0. /\ IsFiniteSet(owed) /\ Cardinality(owed) \in Nat /\ changes \in Nat /\ MaxChanges \in Nat
        /\ inStore \subseteq 1..changes /\ owed \subseteq inStore /\ early \subseteq (1..changes) \ inStore
    BY OwedFinite DEF BrokerSound
  <1>1. CASE ChangeWritten
    <2>1. /\ changes < MaxChanges /\ changes' = changes + 1 /\ inStore' = inStore \cup {changes + 1} /\ owed' = owed \cup {changes + 1}
          /\ UNCHANGED <<early, boots, seq, history, stopped, dash>>
      BY <1>1 DEF ChangeWritten, MayBegin
    <2>2. changes + 1 \notin inStore \cup owed \cup early
      BY <1>0
    <2>3. Cardinality(owed') = Cardinality(owed) + 1
      BY <1>0, <2>1, <2>2, FS_AddElement
    <2>4. inStore' \subseteq 1..changes' /\ owed' \subseteq inStore' /\ early' \subseteq (1..changes') \ inStore'
      BY <1>0, <2>1, <2>2
    <2>5. changes' \in 0..MaxChanges /\ seq' + Cardinality(owed') <= changes'
      BY <1>0, <2>1, <2>3 DEF BrokerSound
    <2>6. BrokerSound'
      BY <2>1, <2>4, <2>5 DEF BrokerSound, Recent
    <2> QED
      BY <2>1, <2>2, <2>6 DEF Out
  <1>2. ASSUME NEW c \in 1..MaxChanges, WritePublished(c)
        PROVE  BrokerSound' /\ Out' = Out /\ UNCHANGED <<boots, seq, history, stopped, dash>>
    <2>1. /\ c \in early /\ early' = early \ {c} /\ inStore' = inStore \cup {c}
          /\ UNCHANGED <<changes, owed, boots, seq, history, stopped, dash>>
      BY <1>2 DEF WritePublished
    <2>2. c \notin inStore /\ c \notin owed /\ c \in 1..changes
      BY <1>0, <2>1
    <2>3. inStore' \subseteq 1..changes' /\ owed' \subseteq inStore' /\ early' \subseteq (1..changes') \ inStore'
      BY <1>0, <2>1, <2>2
    <2>4. BrokerSound'
      BY <2>1, <2>3 DEF BrokerSound, Recent
    <2> QED
      BY <2>1, <2>2, <2>4 DEF Out
  <1> QED
    BY <1>1, <1>2

\* An event that goes out, of a change written before it or of one that is not.
LEMMA EventGoesOut ==
    ASSUME StreamInv, NEW c \in 1..MaxChanges, Publish(c), Out' = Out \cup {c}, UNCHANGED <<boots, stopped>>, seq < MaxChanges
    PROVE  /\ stopped \/ seq' = seq + 1
           /\ stopped => seq' = seq
           /\ history' \in Seq(Event) /\ Len(history') <= HistoryCap /\ (~stopped => Recent(history)')
           /\ dash' \in [Dashboards -> DashState] /\ \A d \in Dashboards : Sound(dash[d])'
  <1>b. BrokerSound /\ dash \in [Dashboards -> DashState] /\ \A d \in Dashboards : Sound(dash[d])
    BY DEF StreamInv
  <1>n. seq \in Nat /\ MaxChanges \in Nat /\ stopped \in BOOLEAN /\ history \in Seq(Event) /\ Len(history) <= HistoryCap
    BY <1>b, StreamAssumption DEF BrokerSound
  <1>1. CASE stopped
    <2>1. UNCHANGED <<seq, history, dash>>
      BY <1>1 DEF Publish
    <2>2. ASSUME NEW d \in Dashboards PROVE Sound(dash[d])'
      <3>1. Sound(dash[d])
        BY <1>b
      <3> QED
        BY <3>1, <1>1, <2>1 DEF Sound
    <2> QED
      BY <1>b, <1>n, <1>1, <2>1, <2>2
  <1>2. CASE ~stopped
    <2>1. PICK e : e = [id |-> seq + 1, change |-> c]
      OBVIOUS
    <2>2. e \in Event /\ e.id = seq + 1 /\ e.change = c
      <3>1. seq + 1 \in 1..MaxChanges
        BY <1>n
      <3> QED
        BY <2>1, <3>1 DEF Event
    <2>3. /\ seq' = seq + 1 /\ history' = appendHistory(e)
          /\ dash' = [d \in Dashboards |-> IF Subscribed(d) THEN Offered(dash[d], e) ELSE dash[d]]
      BY <1>2, <2>1 DEF Publish
    <2>4. history' \in Seq(Event) /\ Len(history') <= HistoryCap /\ Recent(history)'
      BY <1>b, <1>2, <2>2, <2>3, HistoryShifted
    <2>5. ASSUME NEW d \in Dashboards PROVE \E n \in DashState : dash'[d] = n /\ Sound(n)'
      <3>1. PICK s : s = dash[d]
        OBVIOUS
      <3>2. Sound(s) /\ s \in DashState /\ ~s.closed
        BY <1>b, <1>2, <3>1 DEF Sound, Following
      <3>3. PICK n : n = Offered(s, e)
        OBVIOUS
      <3>4. CASE s.at # "off"
        <4>1. dash'[d] = n
          BY <2>3, <3>1, <3>2, <3>3, <3>4 DEF Subscribed
        <4>2. Out' = Out \cup {e.change}
          BY <2>2
        <4>3. n \in DashState /\ Sound(n)'
          BY <1>b, <1>2, <2>2, <2>3, <3>2, <3>3, <3>4, <4>2, OfferSound
        <4> QED
          BY <4>1, <4>3
      <3>5. CASE s.at = "off"
        <4>1. dash'[d] = s
          BY <2>3, <3>1, <3>5 DEF Subscribed
        <4>2. Out' = Out \cup {e.change}
          BY <2>2
        <4>3. Sound(s)'
          BY <1>b, <1>2, <2>2, <2>3, <3>2, <3>5, <4>2, UnofferedSound
        <4> QED
          BY <3>2, <4>1, <4>3
      <3> QED
        BY <3>4, <3>5
    <2>6. dash' \in [Dashboards -> DashState]
      <3>1. dash' = [d \in Dashboards |-> dash'[d]]
        BY <2>3
      <3>2. \A d \in Dashboards : dash'[d] \in DashState
        BY <2>5
      <3> QED
        BY <3>1, <3>2, Zenon
    <2>7. ASSUME NEW d \in Dashboards PROVE Sound(dash[d])'
      <3>1. PICK n \in DashState : dash'[d] = n /\ Sound(n)'
        BY <2>5
      <3> QED
        BY <3>1 DEF Sound, Following, Recent, Agrees, Queued, ReplayComplete, ToldAgain, ReplayedEvents
    <2> QED
      BY <1>2, <2>3, <2>4, <2>6, <2>7
  <1> QED
    BY <1>1, <1>2

\* The changes begun and the events that went out, under an event.
LEMMA PublishStep ==
    ASSUME StreamInv,
           \/ PublishUnwritten
           \/ \E c \in 1..MaxChanges : PublishWritten(c)
    PROVE  StreamInv'
  <1>0. /\ IsFiniteSet(owed) /\ Cardinality(owed) \in Nat /\ changes \in Nat /\ changes <= MaxChanges /\ MaxChanges \in Nat
        /\ inStore \subseteq 1..changes /\ owed \subseteq inStore /\ early \subseteq (1..changes) \ inStore
        /\ seq \in Nat /\ seq + Cardinality(owed) <= changes /\ stopped \in BOOLEAN /\ BrokerSound
    BY OwedFinite DEF StreamInv, BrokerSound
  <1>1. CASE PublishUnwritten
    <2>1. /\ changes < MaxChanges /\ changes' = changes + 1 /\ early' = early \cup {changes + 1} /\ Publish(changes + 1)
          /\ UNCHANGED <<inStore, owed, boots, stopped>>
      BY <1>1 DEF PublishUnwritten, MayBegin
    <2>2. PICK c \in 1..MaxChanges : c = changes + 1
      BY <1>0, <2>1
    <2>3. Out' = Out \cup {c} /\ Publish(c) /\ seq < MaxChanges
      BY <1>0, <2>1, <2>2 DEF Out
    <2>4. /\ stopped \/ seq' = seq + 1
          /\ stopped => seq' = seq
          /\ history' \in Seq(Event) /\ Len(history') <= HistoryCap /\ (~stopped => Recent(history)')
          /\ dash' \in [Dashboards -> DashState] /\ \A d \in Dashboards : Sound(dash[d])'
      BY <2>1, <2>3, EventGoesOut
    <2>5. seq' \in Nat /\ seq' + Cardinality(owed') <= changes' /\ changes' \in 0..MaxChanges
      BY <1>0, <2>1, <2>4
    <2>6. inStore' \subseteq 1..changes' /\ owed' \subseteq inStore' /\ early' \subseteq (1..changes') \ inStore'
      BY <1>0, <2>1
    <2>7. BrokerSound'
      BY <1>0, <2>1, <2>4, <2>5, <2>6 DEF BrokerSound
    <2> QED
      BY <2>4, <2>7 DEF StreamInv
  <1>2. ASSUME NEW c \in 1..MaxChanges, PublishWritten(c) PROVE StreamInv'
    <2>1. c \in owed /\ owed' = owed \ {c} /\ Publish(c) /\ UNCHANGED <<changes, inStore, early, boots, stopped>>
      BY <1>2 DEF PublishWritten
    <2>2. Cardinality(owed') = Cardinality(owed) - 1
      BY <1>0, <2>1, FS_RemoveElement
    <2>3. Cardinality(owed') \in Nat
      BY <1>0, <2>1, FS_RemoveElement, FS_CardinalityType
    <2>4. Out' = Out \cup {c} /\ seq < MaxChanges
      BY <1>0, <2>1, <2>2, <2>3 DEF Out
    <2>5. /\ stopped \/ seq' = seq + 1
          /\ stopped => seq' = seq
          /\ history' \in Seq(Event) /\ Len(history') <= HistoryCap /\ (~stopped => Recent(history)')
          /\ dash' \in [Dashboards -> DashState] /\ \A d \in Dashboards : Sound(dash[d])'
      BY <2>1, <2>4, EventGoesOut
    <2>6. seq' \in Nat /\ seq' + Cardinality(owed') <= changes'
      BY <1>0, <2>1, <2>2, <2>5
    <2>7. inStore' \subseteq 1..changes' /\ owed' \subseteq inStore' /\ early' \subseteq (1..changes') \ inStore'
      BY <1>0, <2>1
    <2>8. BrokerSound'
      BY <1>0, <2>1, <2>5, <2>6, <2>7 DEF BrokerSound
    <2> QED
      BY <2>5, <2>8 DEF StreamInv
  <1> QED
    BY <1>1, <1>2

\* Event stream: every step keeps the invariant.
LEMMA StreamStepInv == StreamInv /\ [StreamNext]_streamVars => StreamInv'
  <1> SUFFICES ASSUME StreamInv, [StreamNext]_streamVars PROVE StreamInv'
    OBVIOUS
  <1>b. BrokerSound /\ dash \in [Dashboards -> DashState] /\ \A d \in Dashboards : Sound(dash[d])
    BY DEF StreamInv
  <1>n. stopped \in BOOLEAN /\ boots \in Nat /\ changes \in Nat
    BY <1>b, OwedFinite DEF BrokerSound
  <1>w. ASSUME \A d \in Dashboards : \E n \in DashState : dash'[d] = n /\ Sound(n)',
               dash' = [d \in Dashboards |-> dash'[d]]
        PROVE  dash' \in [Dashboards -> DashState] /\ \A d \in Dashboards : Sound(dash[d])'
    <2>1. dash' \in [Dashboards -> DashState]
      <3>1. \A d \in Dashboards : dash'[d] \in DashState
        BY <1>w
      <3> QED
        BY <1>w, <3>1, Zenon
    <2>2. ASSUME NEW d \in Dashboards PROVE Sound(dash[d])'
      <3>1. PICK n \in DashState : dash'[d] = n /\ Sound(n)'
        BY <1>w
      <3> QED
        BY <3>1 DEF Sound, Following, Recent, Agrees, Queued, ReplayComplete, ToldAgain, ReplayedEvents
    <2> QED
      BY <2>1, <2>2
  <1>1. ASSUME ChangeWritten \/ \E c \in 1..MaxChanges : WritePublished(c) PROVE StreamInv'
    <2>1. BrokerSound' /\ Out' = Out /\ UNCHANGED <<boots, seq, history, stopped, dash>>
      BY <1>1, <1>b, WritesKeepOut
    <2>2. ASSUME NEW d \in Dashboards PROVE \E n \in DashState : dash'[d] = n /\ Sound(n)'
      <3>1. PICK s : s = dash[d]
        OBVIOUS
      <3>2. Sound(s) /\ s \in DashState
        BY <1>b, <3>1
      <3>3. Sound(s)'
        BY <2>1, <3>2, SoundKept
      <3> QED
        BY <2>1, <3>1, <3>2, <3>3
    <2>3. dash' = [d \in Dashboards |-> dash'[d]]
      BY <1>b, <2>1
    <2> QED
      BY <1>w, <2>1, <2>2, <2>3 DEF StreamInv
  <1>2. ASSUME PublishUnwritten \/ \E c \in 1..MaxChanges : PublishWritten(c) PROVE StreamInv'
    BY <1>2, PublishStep
  <1>3. ASSUME StopBroker PROVE StreamInv'
    <2>1. /\ stopped' = TRUE /\ UNCHANGED <<changes, inStore, owed, early, boots, seq, history>>
          /\ dash' = [d \in Dashboards |-> IF Subscribed(d) THEN [dash[d] EXCEPT !.closed = TRUE] ELSE dash[d]]
      BY <1>3 DEF StopBroker
    <2>2. ASSUME NEW d \in Dashboards PROVE \E n \in DashState : dash'[d] = n /\ Sound(n)'
      <3>1. PICK s : s = dash[d]
        OBVIOUS
      <3>2. PICK n : n = dash'[d]
        OBVIOUS
      <3>3. n = s \/ n = [s EXCEPT !.closed = TRUE]
        BY <2>1, <3>1, <3>2
      <3>4. n \in DashState /\ Sound(n)'
        BY <1>b, <2>1, <3>1, <3>3, StopSound
      <3> QED
        BY <3>2, <3>4
    <2>3. dash' \in [Dashboards -> DashState] /\ \A d \in Dashboards : Sound(dash[d])'
      <3>1. dash' = [d \in Dashboards |-> dash'[d]]
        BY <2>1
      <3> QED
        BY <1>w, <2>2, <3>1
    <2>4. BrokerSound'
      BY <1>b, <2>1 DEF BrokerSound
    <2> QED
      BY <2>3, <2>4 DEF StreamInv
  <1>4. ASSUME Reboot PROVE StreamInv'
    <2>1. /\ boots < MaxBoots /\ boots' = boots + 1 /\ seq' = 0 /\ history' = <<>> /\ stopped' = FALSE
          /\ owed' = {} /\ early' = {} /\ UNCHANGED <<changes, inStore>>
          /\ dash' = [d \in Dashboards |-> Gone(dash[d])]
      BY <1>4 DEF Reboot
    <2>2. ASSUME NEW d \in Dashboards PROVE \E n \in DashState : dash'[d] = n /\ Sound(n)'
      <3>1. PICK s : s = dash[d]
        OBVIOUS
      <3>2. PICK n : n = Gone(s)
        OBVIOUS
      <3>3. n \in DashState /\ Sound(n)'
        BY <1>b, <2>1, <3>1, <3>2, RebootSound
      <3> QED
        BY <2>1, <3>1, <3>2, <3>3
    <2>3. dash' \in [Dashboards -> DashState] /\ \A d \in Dashboards : Sound(dash[d])'
      <3>1. dash' = [d \in Dashboards |-> dash'[d]]
        BY <2>1
      <3> QED
        BY <1>w, <2>2, <3>1
    <2>4. BrokerSound'
      <3>0. Cardinality({}) = 0
        BY FS_EmptySet
      <3>1. Cardinality(owed') = 0
        BY <2>1, <3>0
      <3>2. boots' \in 0..MaxBoots /\ seq' \in Nat /\ seq' + Cardinality(owed') <= changes' /\ 0 <= HistoryCap
        BY <1>n, <2>1, <3>1, StreamAssumption
      <3>3. history' \in Seq(Event) /\ Len(history') = 0
        BY <2>1
      <3>4. Recent(history)'
        BY <3>3 DEF Recent
      <3>5. inStore' \subseteq 1..changes' /\ owed' \subseteq inStore' /\ early' \subseteq (1..changes') \ inStore'
        BY <1>b, <2>1 DEF BrokerSound
      <3>6. changes' \in 0..MaxChanges /\ stopped' \in BOOLEAN /\ Len(history') <= HistoryCap
        BY <1>b, <2>1, <3>2, <3>3 DEF BrokerSound
      <3> QED
        BY <3>2, <3>3, <3>4, <3>5, <3>6 DEF BrokerSound
    <2> QED
      BY <2>3, <2>4 DEF StreamInv
  <1>5. ASSUME NEW d \in Dashboards, Connect(d) PROVE StreamInv'
    <2>1. PICK s, n : /\ s = dash[d]
                      /\ n = [s EXCEPT !.at = "greet", !.queue = <<>>, !.lossy = FALSE, !.closed = stopped]
      OBVIOUS
    <2>2. Sound(n)
      BY <1>5, <1>b, <1>n, <2>1, ConnectedSound DEF Connect
    <2>3. dash' = [dash EXCEPT ![d] = n] /\ UNCHANGED <<changes, inStore, owed, early, boots, seq, history, stopped>>
      BY <1>5, <1>b, <2>1 DEF Connect
    <2> QED
      BY <2>2, <2>3, DashWritten
  <1>6. ASSUME NEW d \in Dashboards, Replay(d) PROVE StreamInv'
    <2>0. PICK s : s = dash[d]
      OBVIOUS
    <2>1. PICK w : w = Replayed(s)
      OBVIOUS
    <2>2. PICK n : n = [w EXCEPT !.at = "run", !.cut = @ \/ s.of # boots]
      OBVIOUS
    <2>3. s.at = "greet" /\ s.last > 0 /\ ReplayComplete(s.last)
      BY <1>6, <2>0 DEF Replay, Resumes
    <2>4. Sound(n)
      BY <1>b, <2>0, <2>1, <2>2, <2>3, ReplaySound
    <2>5. dash' = [dash EXCEPT ![d] = n] /\ UNCHANGED <<changes, inStore, owed, early, boots, seq, history, stopped>>
      BY <1>6, <2>0, <2>1, <2>2 DEF Replay
    <2> QED
      BY <2>4, <2>5, DashWritten
  <1>7. ASSUME NEW d \in Dashboards, WriteSnapshot(d) \/ SnapshotFails(d) PROVE StreamInv'
    <2>0. PICK s : s = dash[d]
      OBVIOUS
    <2>1. PICK n : /\ dash' = [dash EXCEPT ![d] = n]
                   /\ \/ n = [s EXCEPT !.at = "run", !.known = inStore, !.unseen = early \ Queued(s), !.blind = FALSE, !.cut = FALSE]
                      \/ n = [s EXCEPT !.at = "run", !.blind = TRUE]
      <3>1. ASSUME WriteSnapshot(d)
            PROVE  dash' = [dash EXCEPT ![d] = [s EXCEPT !.at = "run", !.known = inStore, !.unseen = early \ Queued(s),
                                                        !.blind = FALSE, !.cut = FALSE]]
        BY <3>1, <1>b, <2>0 DEF WriteSnapshot
      <3>2. ASSUME SnapshotFails(d) PROVE dash' = [dash EXCEPT ![d] = [s EXCEPT !.at = "run", !.blind = TRUE]]
        BY <3>2, <1>b, <2>0 DEF SnapshotFails
      <3> QED
        BY <1>7, <3>1, <3>2
    <2>2. /\ s.at = "resync" \/ (s.at = "greet" /\ ~(s.last > 0 /\ ReplayComplete(s.last)))
          /\ UNCHANGED <<changes, inStore, owed, early, boots, seq, history, stopped>>
      BY <1>7, <2>0 DEF WriteSnapshot, SnapshotFails, SnapshotDue, Resumes
    <2>3. Sound(n)
      BY <1>b, <2>0, <2>1, <2>2, SnapshotSound
    <2> QED
      BY <2>1, <2>2, <2>3, DashWritten
  <1>8. ASSUME NEW d \in Dashboards, Pump(d) PROVE StreamInv'
    <2>0. PICK s : s = dash[d]
      OBVIOUS
    <2>1. PICK w : w = Written(s, Head(s.queue))
      OBVIOUS
    <2>2. PICK n : n = [w EXCEPT !.queue = Tail(@), !.at = IF w.lossy THEN "resync" ELSE "run"]
      OBVIOUS
    <2>3. s.at = "run" /\ s.queue # <<>>
      BY <1>8, <2>0 DEF Pump
    <2>4. Sound(n)
      BY <1>b, <2>0, <2>1, <2>2, <2>3, PumpSound
    <2>5. dash' = [dash EXCEPT ![d] = n] /\ UNCHANGED <<changes, inStore, owed, early, boots, seq, history, stopped>>
      BY <1>8, <2>0, <2>1, <2>2 DEF Pump
    <2> QED
      BY <2>4, <2>5, DashWritten
  <1>9. ASSUME NEW d \in Dashboards, StreamEnds(d) \/ Disconnect(d) PROVE StreamInv'
    <2>0. PICK s, n : s = dash[d] /\ n = Gone(s)
      OBVIOUS
    <2>1. dash' = [dash EXCEPT ![d] = n] /\ UNCHANGED <<changes, inStore, owed, early, boots, seq, history, stopped>>
      BY <1>9, <2>0 DEF StreamEnds, Disconnect
    <2>2. Sound(n)
      BY <1>b, <2>0, LeftSound
    <2> QED
      BY <2>1, <2>2, DashWritten
  <1>10. ASSUME UNCHANGED streamVars PROVE StreamInv'
    <2>1. UNCHANGED <<changes, inStore, owed, early, boots, seq, history, stopped, dash>>
      BY <1>10 DEF streamVars
    <2>2. Out' = Out
      BY <2>1 DEF Out
    <2>3. ASSUME NEW d \in Dashboards PROVE \E n \in DashState : dash'[d] = n /\ Sound(n)'
      <3>1. PICK s : s = dash[d]
        OBVIOUS
      <3>2. Sound(s) /\ s \in DashState
        BY <1>b, <3>1
      <3>3. Sound(s)'
        BY <2>1, <2>2, <3>2, SoundKept
      <3> QED
        BY <2>1, <3>1, <3>2, <3>3
    <2>4. dash' = [d \in Dashboards |-> dash'[d]]
      BY <1>b, <2>1
    <2>5. BrokerSound'
      BY <1>b, <2>1 DEF BrokerSound, Recent
    <2> QED
      BY <1>w, <2>3, <2>4, <2>5 DEF StreamInv
  <1> QED
    BY <1>1, <1>2, <1>3, <1>4, <1>5, <1>6, <1>7, <1>8, <1>9, <1>10 DEF StreamNext, HandlerStep

-----------------------------------------------------------------------------
(* The dispatcher and its cache of channels.                               *)

\* The dispatcher loads the list only while nothing fresh is cached, and what it
\* read and is about to cache is current unless an invalidation came between, but
\* for the channels that another core edited since.
LoadedIsCurrent ==
    /\ run.at \in {"load", "cache"} => ~cached.fresh
    /\ run.at = "cache" /\ invalidating = 0 /\ ~cacheRaced
          => \A ch \in Channels \ distant : ch \in run.list <=> ch \in enabled

NotifyInv == NotifyTypeOK /\ LoadedIsCurrent /\ CacheFollowsEdits

\* Notifications: initially.
LEMMA NotifyInitInv == NotifyInit => NotifyInv
  <1> SUFFICES ASSUME NotifyInit PROVE NotifyInv
    OBVIOUS
  <1> USE NotificationsAssumption
  <1>1. notices \in Seq(Notices) /\ Len(notices) = 0
    BY EmptySeq DEF NotifyInit
  <1>2. 0 \in 0..MaxEdits /\ 0 \in 0..0 /\ 0 \in 0..Attempts /\ 0 <= NoticeBuffer
    OBVIOUS
  <1>3. edits = 0 /\ invalidating = 0
    BY DEF NotifyInit
  <1>4. /\ cached \in [fresh : BOOLEAN, list : SUBSET Channels] /\ run \in RunState
        /\ cached.fresh = FALSE /\ run.at = "idle" /\ stopping \in BOOLEAN /\ cacheRaced \in BOOLEAN
        /\ enabled \subseteq Channels /\ unpublished \subseteq Notices /\ distant = {}
    BY DEF NotifyInit, RunState
  <1>5. delivery \in [Notices \X Channels -> DeliveryState]
    BY <1>2 DEF NotifyInit, DeliveryState
  <1>6. NotifyTypeOK
    BY <1>1, <1>2, <1>3, <1>4, <1>5 DEF NotifyTypeOK
  <1>7. LoadedIsCurrent /\ CacheFollowsEdits
    BY <1>4 DEF LoadedIsCurrent, CacheFollowsEdits
  <1> QED
    BY <1>6, <1>7 DEF NotifyInv

\* A delivery is written, and the dispatcher may take a channel off its list.
LEMMA DeliveryWritten ==
    ASSUME NotifyInv, NEW d, NEW new \in DeliveryState, delivery' = [delivery EXCEPT ![d] = new],
           run' \in RunState, run'.at = run.at, run.at = "cache" => run' = run,
           UNCHANGED <<unpublished, notices, enabled, edits, invalidating, cached, stopping, cacheRaced, distant>>
    PROVE  NotifyInv'
  <1>1. delivery' \in [Notices \X Channels -> DeliveryState]
    BY DEF NotifyInv, NotifyTypeOK
  <1>2. NotifyTypeOK'
    BY <1>1 DEF NotifyInv, NotifyTypeOK
  <1>3. LoadedIsCurrent' /\ CacheFollowsEdits'
    BY DEF NotifyInv, LoadedIsCurrent, CacheFollowsEdits
  <1> QED
    BY <1>2, <1>3 DEF NotifyInv

\* The dispatcher goes on to something that is not caching a list.
LEMMA RunMoves ==
    ASSUME NotifyInv, run' \in RunState, run'.at # "cache", run'.at = "load" => ~cached.fresh,
           notices' \in Seq(Notices), Len(notices') <= NoticeBuffer,
           UNCHANGED <<unpublished, enabled, edits, invalidating, cached, delivery, stopping, cacheRaced, distant>>
    PROVE  NotifyInv'
  <1>2. NotifyTypeOK'
    BY DEF NotifyInv, NotifyTypeOK
  <1>3. LoadedIsCurrent' /\ CacheFollowsEdits'
    BY DEF NotifyInv, LoadedIsCurrent, CacheFollowsEdits
  <1> QED
    BY <1>2, <1>3 DEF NotifyInv

\* The inductive step of the dispatcher.
LEMMA NotifyStepInv == NotifyInv /\ [NotifyNext]_notifyVars => NotifyInv'
  <1> SUFFICES ASSUME NotifyInv, [NotifyNext]_notifyVars PROVE NotifyInv'
    OBVIOUS
  <1>0. /\ NoticeBuffer \in Nat /\ NoticeBuffer > 0 /\ Attempts \in Nat /\ Attempts > 0 /\ MaxEdits \in Nat
        /\ unpublished \subseteq Notices /\ notices \in Seq(Notices) /\ Len(notices) <= NoticeBuffer
        /\ enabled \subseteq Channels /\ edits \in 0..MaxEdits /\ invalidating \in 0..edits
        /\ cached \in [fresh : BOOLEAN, list : SUBSET Channels] /\ run \in RunState
        /\ delivery \in [Notices \X Channels -> DeliveryState]
        /\ stopping \in BOOLEAN /\ cacheRaced \in BOOLEAN /\ distant \subseteq Channels
    BY NotificationsAssumption DEF NotifyInv, NotifyTypeOK
  <1>a. PICK none, stale : none = [at |-> "idle", notice |-> Nil, list |-> {}] /\ stale = [fresh |-> FALSE, list |-> {}]
    OBVIOUS
  <1>b. /\ none \in RunState /\ none.at = "idle"
        /\ stale \in [fresh : BOOLEAN, list : SUBSET Channels] /\ stale.fresh = FALSE
    BY <1>a DEF RunState
  <1>1. ASSUME UNCHANGED notifyVars PROVE NotifyInv'
    BY <1>1 DEF notifyVars, NotifyInv, NotifyTypeOK, LoadedIsCurrent, CacheFollowsEdits
  <1>2. ASSUME NEW n \in Notices, Notify(n) PROVE NotifyInv'
    <2>1. /\ unpublished' = unpublished \ {n}
          /\ notices' = IF Len(notices) < NoticeBuffer THEN Append(notices, n) ELSE Append(Tail(notices), n)
          /\ UNCHANGED <<enabled, edits, invalidating, cached, run, delivery, stopping, cacheRaced, distant>>
      BY <1>2 DEF Notify
    <2>2. Len(notices) \in Nat
      BY <1>0, LenProperties
    <2>3. notices' \in Seq(Notices) /\ Len(notices') <= NoticeBuffer
      <3>1. CASE Len(notices) < NoticeBuffer
        <4>1. notices' = Append(notices, n)
          BY <2>1, <3>1
        <4>2. notices' \in Seq(Notices) /\ Len(notices') = Len(notices) + 1
          BY <1>0, <4>1, AppendProperties
        <4> QED
          BY <1>0, <2>2, <3>1, <4>2
      <3>2. CASE ~(Len(notices) < NoticeBuffer)
        <4>1. notices' = Append(Tail(notices), n)
          BY <2>1, <3>2
        <4>2. notices # <<>>
          BY <1>0, <2>2, <3>2, EmptySeq
        <4>3. Tail(notices) \in Seq(Notices) /\ Len(Tail(notices)) = Len(notices) - 1
          BY <1>0, <4>2, HeadTailProperties
        <4>4. notices' \in Seq(Notices) /\ Len(notices') = Len(Tail(notices)) + 1
          BY <4>1, <4>3, AppendProperties
        <4> QED
          BY <1>0, <2>2, <4>3, <4>4
      <3> QED
        BY <3>1, <3>2
    <2>4. NotifyTypeOK'
      BY <1>0, <2>1, <2>3 DEF NotifyTypeOK
    <2> QED
      BY <2>1, <2>4 DEF NotifyInv, LoadedIsCurrent, CacheFollowsEdits
  <1>3. ASSUME NEW ch \in Channels, EditChannel(ch) PROVE NotifyInv'
    <2>1. /\ edits < MaxEdits /\ edits' = edits + 1 /\ invalidating' = invalidating + 1
          /\ enabled' = IF ch \in enabled THEN enabled \ {ch} ELSE enabled \cup {ch}
          /\ UNCHANGED <<unpublished, notices, cached, run, delivery, stopping, cacheRaced, distant>>
      BY <1>3 DEF EditChannel
    <2>2. edits' \in 0..MaxEdits /\ invalidating' \in 0..edits' /\ invalidating' # 0
      BY <1>0, <2>1
    <2>3. enabled' \subseteq Channels
      BY <1>0, <2>1
    <2>4. NotifyTypeOK'
      BY <1>0, <2>1, <2>2, <2>3 DEF NotifyTypeOK
    <2> QED
      BY <2>1, <2>2, <2>4 DEF NotifyInv, LoadedIsCurrent, CacheFollowsEdits
  <1>15. ASSUME NEW ch \in Channels, EditChannelElsewhere(ch) PROVE NotifyInv'
    <2>1. /\ edits < MaxEdits /\ edits' = edits + 1 /\ distant' = distant \cup {ch}
          /\ enabled' = IF ch \in enabled THEN enabled \ {ch} ELSE enabled \cup {ch}
          /\ UNCHANGED <<unpublished, notices, invalidating, cached, run, delivery, stopping, cacheRaced>>
      BY <1>15 DEF EditChannelElsewhere
    <2>2. edits' \in 0..MaxEdits /\ invalidating' \in 0..edits' /\ enabled' \subseteq Channels /\ distant' \subseteq Channels
      BY <1>0, <2>1
    <2>3. NotifyTypeOK'
      BY <1>0, <2>1, <2>2 DEF NotifyTypeOK
    <2>4. \A x \in Channels \ distant' : x \notin distant /\ (x \in enabled' <=> x \in enabled)
      BY <2>1
    <2>5. LoadedIsCurrent' /\ CacheFollowsEdits'
      BY <2>1, <2>4 DEF NotifyInv, LoadedIsCurrent, CacheFollowsEdits
    <2> QED
      BY <2>3, <2>5 DEF NotifyInv
  <1>4. ASSUME InvalidateChannels PROVE NotifyInv'
    <2>1. /\ invalidating > 0 /\ invalidating' = invalidating - 1 /\ cached' = stale
          /\ cacheRaced' = (cacheRaced \/ run.at = "cache")
          /\ UNCHANGED <<unpublished, notices, enabled, edits, run, delivery, stopping, distant>>
      BY <1>4, <1>a DEF InvalidateChannels
    <2>2. invalidating' \in 0..edits
      BY <1>0, <2>1
    <2>3. cacheRaced' \in BOOLEAN /\ (run.at = "cache" => cacheRaced')
      BY <2>1
    <2>4. NotifyTypeOK'
      BY <1>0, <1>b, <2>1, <2>2, <2>3 DEF NotifyTypeOK
    <2> QED
      BY <1>b, <2>1, <2>3, <2>4 DEF NotifyInv, LoadedIsCurrent, CacheFollowsEdits
  <1>5. ASSUME CacheAges PROVE NotifyInv'
    <2>1. /\ cached.fresh /\ cached' = stale
          /\ cacheRaced' = (cacheRaced /\ run.at = "cache")
          /\ UNCHANGED <<unpublished, notices, enabled, edits, invalidating, run, delivery, stopping, distant>>
      BY <1>5, <1>a DEF CacheAges
    <2>2. run.at # "cache" /\ run.at # "load"
      BY <2>1 DEF NotifyInv, LoadedIsCurrent
    <2>3. cacheRaced' \in BOOLEAN
      BY <2>1
    <2>4. NotifyTypeOK'
      BY <1>0, <1>b, <2>1, <2>3 DEF NotifyTypeOK
    <2> QED
      BY <1>b, <2>1, <2>2, <2>4 DEF NotifyInv, LoadedIsCurrent, CacheFollowsEdits
  <1>6. ASSUME TakeNotice PROVE NotifyInv'
    <2>1. /\ notices # <<>> /\ notices' = Tail(notices)
          /\ UNCHANGED <<unpublished, enabled, edits, invalidating, cached, delivery, stopping, cacheRaced, distant>>
      BY <1>6 DEF TakeNotice
    <2>2. Head(notices) \in Notices /\ Tail(notices) \in Seq(Notices) /\ Len(Tail(notices)) = Len(notices) - 1
      BY <1>0, <2>1, HeadTailProperties
    <2>3. PICK n \in Notices : n = Head(notices)
      BY <2>2
    <2>4. run' = IF cached.fresh THEN [at |-> "fan", notice |-> n, list |-> cached.list]
                 ELSE [at |-> "load", notice |-> n, list |-> {}]
      BY <1>6, <2>3 DEF TakeNotice
    <2>5. run' \in RunState /\ run'.at # "cache" /\ (run'.at = "load" => ~cached.fresh)
      <3>1. CASE cached.fresh
        BY <1>0, <2>4, <3>1 DEF RunState
      <3>2. CASE ~cached.fresh
        BY <1>0, <2>4, <3>2 DEF RunState
      <3> QED
        BY <3>1, <3>2
    <2>6. Len(notices') <= NoticeBuffer /\ notices' \in Seq(Notices)
      <3>1. Len(notices) \in Nat
        BY <1>0, LenProperties
      <3> QED
        BY <1>0, <2>1, <2>2, <3>1
    <2> QED
      BY <2>1, <2>5, <2>6, RunMoves
  <1>7. ASSUME ListChannels PROVE NotifyInv'
    <2>1. /\ run.at = "load" /\ run' = [run EXCEPT !.at = "cache", !.list = enabled] /\ cacheRaced' = FALSE /\ distant' = {}
          /\ UNCHANGED <<unpublished, notices, enabled, edits, invalidating, cached, delivery, stopping>>
      BY <1>7 DEF ListChannels
    <2>2. run' \in RunState /\ run'.at = "cache" /\ run'.list = enabled
      BY <1>0, <2>1 DEF RunState
    <2>3. ~cached.fresh
      BY <2>1 DEF NotifyInv, LoadedIsCurrent
    <2>4. NotifyTypeOK'
      BY <1>0, <2>1, <2>2 DEF NotifyTypeOK
    <2> QED
      BY <2>1, <2>2, <2>3, <2>4 DEF NotifyInv, LoadedIsCurrent, CacheFollowsEdits
  <1>8. ASSUME ListFails \/ Handled PROVE NotifyInv'
    <2>1. run' = none /\ UNCHANGED <<unpublished, notices, enabled, edits, invalidating, cached, delivery, stopping, cacheRaced, distant>>
      BY <1>8, <1>a DEF ListFails, Handled
    <2> QED
      BY <1>0, <1>b, <2>1, RunMoves
  <1>9. ASSUME CacheList PROVE NotifyInv'
    <2>1. /\ run.at = "cache" /\ cached' = [fresh |-> TRUE, list |-> run.list] /\ run' = [run EXCEPT !.at = "fan"]
          /\ UNCHANGED <<unpublished, notices, enabled, edits, invalidating, delivery, stopping, cacheRaced, distant>>
      BY <1>9 DEF CacheList
    <2>2. run' \in RunState /\ run'.at = "fan" /\ cached' \in [fresh : BOOLEAN, list : SUBSET Channels] /\ cached'.list = run.list
      BY <1>0, <2>1 DEF RunState
    <2>3. NotifyTypeOK'
      BY <1>0, <2>1, <2>2 DEF NotifyTypeOK
    <2> QED
      BY <2>1, <2>2, <2>3 DEF NotifyInv, LoadedIsCurrent, CacheFollowsEdits
  <1>10. ASSUME NEW ch \in Channels, StartDelivery(ch) PROVE NotifyInv'
    <2>1. /\ run.at = "fan" /\ run' = [run EXCEPT !.list = run.list \ {ch}]
          /\ delivery' = [delivery EXCEPT ![<<run.notice, ch>>] = [at |-> "send", attempt |-> 1]]
          /\ UNCHANGED <<unpublished, notices, enabled, edits, invalidating, cached, stopping, cacheRaced, distant>>
      BY <1>10 DEF StartDelivery
    <2>2. run' \in RunState /\ run'.at = run.at
      BY <1>0, <2>1 DEF RunState
    <2>3. [at |-> "send", attempt |-> 1] \in DeliveryState
      BY <1>0 DEF DeliveryState
    <2> QED
      BY <2>1, <2>2, <2>3, DeliveryWritten
  <1>11. ASSUME StopDispatcher PROVE NotifyInv'
    BY <1>0, <1>11 DEF StopDispatcher, NotifyInv, NotifyTypeOK, LoadedIsCurrent, CacheFollowsEdits
  <1>12. ASSUME RunEnds PROVE NotifyInv'
    <2>1. PICK ended : ended = [at |-> "ended", notice |-> Nil, list |-> {}]
      OBVIOUS
    <2>2. ended \in RunState /\ ended.at = "ended"
      BY <2>1 DEF RunState
    <2>3. run' = ended /\ UNCHANGED <<unpublished, notices, enabled, edits, invalidating, cached, delivery, stopping, cacheRaced, distant>>
      BY <1>12, <2>1 DEF RunEnds
    <2> QED
      BY <1>0, <2>2, <2>3, RunMoves
  <1>13. ASSUME NEW d \in DOMAIN delivery, DeliveryStep(d) PROVE NotifyInv'
    <2>0. delivery[d] \in DeliveryState
      BY <1>0
    <2>1. PICK new \in DeliveryState : SetDelivery(d, new)
      <3>1. CASE SendSucceeds(d)
        <4>1. [delivery[d] EXCEPT !.at = "sent"] \in DeliveryState
          BY <2>0 DEF DeliveryState
        <4> QED
          BY <3>1, <4>1 DEF SendSucceeds
      <3>2. CASE SendFails(d)
        <4>1. [delivery[d] EXCEPT !.at = AfterFailure(delivery[d].attempt)] \in DeliveryState
          BY <2>0 DEF DeliveryState, AfterFailure
        <4> QED
          BY <3>2, <4>1 DEF SendFails
      <3>3. CASE RetryDelivery(d)
        <4>1. delivery[d].attempt + 1 \in 0..Attempts
          BY <1>0, <2>0, <3>3 DEF RetryDelivery, DeliveryState
        <4>2. [at |-> "send", attempt |-> delivery[d].attempt + 1] \in DeliveryState
          BY <4>1 DEF DeliveryState
        <4> QED
          BY <3>3, <4>2 DEF RetryDelivery
      <3>4. CASE GiveUpAtShutdown(d)
        <4>1. [delivery[d] EXCEPT !.at = "failed"] \in DeliveryState
          BY <2>0 DEF DeliveryState
        <4> QED
          BY <3>4, <4>1 DEF GiveUpAtShutdown
      <3> QED
        BY <1>13, <3>1, <3>2, <3>3, <3>4 DEF DeliveryStep
    <2> QED
      BY <1>0, <2>1, DeliveryWritten DEF SetDelivery
  <1>14. NotifyNext => NotifyInv'
    BY <1>2, <1>3, <1>4, <1>5, <1>6, <1>7, <1>8, <1>9, <1>10, <1>11, <1>12, <1>13, <1>15 DEF NotifyNext, RunStep
  <1> QED
    BY <1>1, <1>14

-----------------------------------------------------------------------------
(* The check of CA certificates.                                           *)

\* A run has read a row whose record of alerts was published.
RunsRecall ==
    \A r \in CARuns : caRun[r].at # "idle" => caRun[r].ca \in CAs /\ caRun[r].row.last \in announced[caRun[r].ca] \cup {Nil}

CAInv == CATypeOK /\ AnnouncedWhatWasCrossed /\ RunsRecall

\* The values that stand for no row and no run.
LEMMA CANothing ==
    /\ UnknownCA \in CARow /\ UnknownCA.last = Nil
    /\ IdleRun \in CARunState /\ IdleRun.at = "idle"
    /\ \A k \in {"no", "yes", "deleted"}, s \in CAStatus :
          /\ [UnknownCA EXCEPT !.known = k, !.status = s] \in CARow
          /\ [UnknownCA EXCEPT !.known = k, !.status = s].last = Nil
  BY DEF UnknownCA, IdleRun, CARow, CARunState, CAStatus, Alert

\* The status of an authority is one of the four.
LEMMA StatusIsOne == \A days : statusFor(days) \in CAStatus /\ CheckedStatus(days) \in CAStatus
  BY DEF statusFor, CheckedStatus, CAStatus

\* The alert that is due was crossed.
LEMMA DueIsCrossed ==
    ASSUME NEW days, Crossed(days) # {}
    PROVE  DueAlert(days) \in CAThresholds /\ days <= DueAlert(days)
  <1>1. Crossed(days) \in SUBSET Nat
    BY CAAssumption DEF Crossed
  <1>2. PICK x \in Crossed(days) : \A y \in Crossed(days) : x <= y
    BY <1>1, LeastNatural
  <1>3. Min(Crossed(days)) \in Crossed(days)
    BY <1>2 DEF Min
  <1> QED
    BY <1>3 DEF DueAlert, Crossed

\* Authorities: initially.
LEMMA CAInitInv == CAInit => CAInv
  <1> SUFFICES ASSUME CAInit PROVE CAInv
    OBVIOUS
  <1>0. CADays \in -1..CADays
    BY CAAssumption
  <1>1. CATypeOK
    BY <1>0, CANothing DEF CAInit, CATypeOK
  <1>2. AnnouncedWhatWasCrossed /\ RunsRecall
    BY CANothing DEF CAInit, AnnouncedWhatWasCrossed, RunsRecall
  <1> QED
    BY <1>1, <1>2 DEF CAInv

\* A run that is at nothing, or carries a row whose record was published.
LEMMA RunWritten ==
    ASSUME CAInv, NEW r \in CARuns, NEW new \in CARunState, caRun' = [caRun EXCEPT ![r] = new],
           new.at # "idle" => new.ca \in CAs /\ new.row.last \in announced[new.ca] \cup {Nil},
           UNCHANGED <<daysLeft, caRow, announced>>
    PROVE  CAInv'
  <1>1. caRun' \in [CARuns -> CARunState] /\ \A q \in CARuns : caRun'[q] = IF q = r THEN new ELSE caRun[q]
    BY DEF CAInv, CATypeOK
  <1>2. RunsRecall'
    BY <1>1 DEF CAInv, RunsRecall
  <1> QED
    BY <1>1, <1>2 DEF CAInv, CATypeOK, AnnouncedWhatWasCrossed

\* A row is written whose record was published.
LEMMA RowWritten ==
    ASSUME CAInv, NEW c \in CAs, NEW new \in CARow, caRow' = [caRow EXCEPT ![c] = new],
           new.last \in announced[c] \cup {Nil}, UNCHANGED <<daysLeft, caRun, announced>>
    PROVE  CAInv'
  <1>1. caRow' \in [CAs -> CARow] /\ \A d \in CAs : caRow'[d] = IF d = c THEN new ELSE caRow[d]
    BY DEF CAInv, CATypeOK
  <1>2. AnnouncedWhatWasCrossed'
    BY <1>1 DEF CAInv, AnnouncedWhatWasCrossed
  <1> QED
    BY <1>1, <1>2 DEF CAInv, CATypeOK, RunsRecall

\* The inductive step of the authorities.
LEMMA CAStepInv == CAInv /\ [CANext]_caVars => CAInv'
  <1> SUFFICES ASSUME CAInv, [CANext]_caVars PROVE CAInv'
    OBVIOUS
  <1>0. /\ daysLeft \in [CAs -> -1..CADays] /\ caRow \in [CAs -> CARow] /\ caRun \in [CARuns -> CARunState]
        /\ announced \in [CAs -> SUBSET CAThresholds] /\ CADays \in Nat /\ CAThresholds \subseteq Nat /\ Nil \notin CAThresholds
        /\ \A c \in CAs : (\A t \in announced[c] : daysLeft[c] <= t) /\ caRow[c].last \in announced[c] \cup {Nil}
    BY CAAssumption DEF CAInv, CATypeOK, AnnouncedWhatWasCrossed
  <1>1. ASSUME UNCHANGED caVars PROVE CAInv'
    BY <1>1 DEF caVars, CAInv, CATypeOK, AnnouncedWhatWasCrossed, RunsRecall
  <1>2. ASSUME NEW c \in CAs, DayPasses(c) PROVE CAInv'
    <2>1. /\ daysLeft[c] > -1 /\ UNCHANGED <<caRow, caRun, announced>>
          /\ \A d \in CAs : daysLeft'[d] = IF d = c THEN daysLeft[c] - 1 ELSE daysLeft[d]
          /\ daysLeft' = [daysLeft EXCEPT ![c] = daysLeft[c] - 1]
      BY <1>0, <1>2 DEF DayPasses
    <2>2. daysLeft[c] - 1 \in -1..CADays
      BY <1>0, <2>1
    <2>3. CATypeOK'
      BY <1>0, <2>1, <2>2 DEF CATypeOK
    <2>4. AnnouncedWhatWasCrossed'
      <3>1. ASSUME NEW d \in CAs, NEW t \in announced[d] PROVE daysLeft'[d] <= t
        <4>1. daysLeft[d] \in Int /\ t \in Nat /\ daysLeft[d] <= t
          BY <1>0
        <4> QED
          BY <2>1, <4>1
      <3> QED
        BY <1>0, <2>1, <3>1 DEF AnnouncedWhatWasCrossed
    <2> QED
      BY <2>1, <2>3, <2>4 DEF CAInv, RunsRecall
  <1>3. ASSUME NEW c \in CAs, AddIssuer(c) PROVE CAInv'
    <2>1. PICK row : row = [UnknownCA EXCEPT !.known = "yes", !.status = statusFor(daysLeft[c])]
      OBVIOUS
    <2>2. row \in CARow /\ row.last = Nil
      BY <2>1, CANothing, StatusIsOne
    <2>3. caRow' = [caRow EXCEPT ![c] = row] /\ UNCHANGED <<daysLeft, caRun, announced>>
      BY <1>3, <2>1 DEF AddIssuer
    <2> QED
      BY <2>2, <2>3, RowWritten
  <1>4. ASSUME NEW c \in CAs, DeleteCAAuthority(c) PROVE CAInv'
    <2>1. PICK row : row = [caRow[c] EXCEPT !.known = "deleted"]
      OBVIOUS
    <2>2. row \in CARow /\ row.last = caRow[c].last
      BY <1>0, <2>1 DEF CARow
    <2>3. caRow' = [caRow EXCEPT ![c] = row] /\ UNCHANGED <<daysLeft, caRun, announced>>
      BY <1>4, <2>1 DEF DeleteCAAuthority
    <2> QED
      BY <1>0, <2>2, <2>3, RowWritten
  <1>5. ASSUME NEW r \in CARuns, UpdateCAAuthority(r) PROVE CAInv'
    <2>1. PICK c, row : c = caRun[r].ca /\ row = caRun[r].row
      OBVIOUS
    <2>2. c \in CAs /\ row \in CARow /\ row.last \in announced[c] \cup {Nil} /\ caRun[r].at = "save"
      BY <1>0, <1>5, <2>1 DEF UpdateCAAuthority, CAInv, RunsRecall, CARunState
    <2>3. /\ caRow' = IF Known(c) THEN [caRow EXCEPT ![c] = row] ELSE caRow
          /\ caRun' = [caRun EXCEPT ![r] = IdleRun] /\ UNCHANGED <<daysLeft, announced>>
      BY <1>5, <2>1 DEF UpdateCAAuthority
    <2>4. /\ caRow' \in [CAs -> CARow]
          /\ \A d \in CAs : caRow'[d].last \in announced[d] \cup {Nil}
      BY <1>0, <2>2, <2>3
    <2>5. caRun' \in [CARuns -> CARunState] /\ \A q \in CARuns : caRun'[q] = IF q = r THEN IdleRun ELSE caRun[q]
      BY <1>0, <2>3, CANothing
    <2>6. RunsRecall'
      BY <2>3, <2>5, CANothing DEF CAInv, RunsRecall
    <2>7. CATypeOK'
      BY <1>0, <2>3, <2>4, <2>5 DEF CATypeOK
    <2>8. AnnouncedWhatWasCrossed'
      BY <1>0, <2>3, <2>4 DEF AnnouncedWhatWasCrossed
    <2> QED
      BY <2>6, <2>7, <2>8 DEF CAInv
  <1>6. ASSUME NEW r \in CARuns, RunLost(r) PROVE CAInv'
    BY <1>6, CANothing, RunWritten DEF RunLost
  <1>7. ASSUME NEW r \in CARuns, NEW c \in CAs, NEW at \in {"check", "save"}, BeginRun(r, c, at, caRow[c]) PROVE CAInv'
    <2>1. PICK new : new = [at |-> at, ca |-> c, row |-> caRow[c]]
      OBVIOUS
    <2>2. new \in CARunState /\ new.ca = c /\ new.row = caRow[c]
      BY <1>0, <2>1 DEF CARunState
    <2>3. caRun' = [caRun EXCEPT ![r] = new] /\ UNCHANGED <<daysLeft, caRow, announced>>
      BY <1>7, <2>1 DEF BeginRun
    <2> QED
      BY <1>0, <2>2, <2>3, RunWritten
  <1>8. ASSUME NEW r \in CARuns, NEW c \in CAs, CreateCA(r, c) PROVE CAInv'
    <2>1. PICK row : row = [UnknownCA EXCEPT !.known = "yes", !.status = statusFor(daysLeft[c])]
      OBVIOUS
    <2>2. row \in CARow /\ row.last = Nil
      BY <2>1, CANothing, StatusIsOne
    <2>3. PICK new : new = [at |-> "check", ca |-> c, row |-> row]
      OBVIOUS
    <2>4. new \in CARunState /\ new.ca = c /\ new.row = row
      BY <2>2, <2>3 DEF CARunState
    <2>5. /\ caRow' = [caRow EXCEPT ![c] = row] /\ caRun' = [caRun EXCEPT ![r] = new]
          /\ UNCHANGED <<daysLeft, announced>>
      BY <1>8, <2>1, <2>3 DEF CreateCA
    <2>6. caRow' \in [CAs -> CARow] /\ \A d \in CAs : caRow'[d] = IF d = c THEN row ELSE caRow[d]
      BY <1>0, <2>2, <2>5
    <2>7. caRun' \in [CARuns -> CARunState] /\ \A q \in CARuns : caRun'[q] = IF q = r THEN new ELSE caRun[q]
      BY <1>0, <2>4, <2>5
    <2>8. RunsRecall'
      BY <2>2, <2>4, <2>5, <2>7 DEF CAInv, RunsRecall
    <2>9. CATypeOK'
      BY <1>0, <2>5, <2>6, <2>7 DEF CATypeOK
    <2>10. AnnouncedWhatWasCrossed'
      BY <1>0, <2>2, <2>5, <2>6 DEF AnnouncedWhatWasCrossed
    <2> QED
      BY <2>8, <2>9, <2>10 DEF CAInv
  <1>9. ASSUME NEW r \in CARuns, CheckCA(r) PROVE CAInv'
    <2>1. PICK c, row : c = caRun[r].ca /\ row = caRun[r].row
      OBVIOUS
    <2>2. PICK days, status : days = (IF daysLeft[c] < 0 THEN 0 ELSE daysLeft[c]) /\ status = CheckedStatus(daysLeft[c])
      OBVIOUS
    <2>3. c \in CAs /\ row \in CARow /\ row.last \in announced[c] \cup {Nil} /\ caRun[r].at = "check" /\ status \in CAStatus
      BY <1>0, <1>9, <2>1, <2>2, StatusIsOne DEF CheckCA, CAInv, RunsRecall, CARunState
    <2>4. PICK checked : checked = [row EXCEPT !.status = status]
      OBVIOUS
    <2>5. checked \in CARow /\ checked.last = row.last
      BY <2>3, <2>4 DEF CARow
    <2>6. UNCHANGED <<daysLeft, caRow>>
      BY <1>9 DEF CheckCA
    <2>7. ASSUME Crossed(days) = {} \/ AlreadySent(checked.last, DueAlert(days)) PROVE CAInv'
      <3>1. PICK new : new = [caRun[r] EXCEPT !.at = "save", !.row = checked]
        OBVIOUS
      <3>2. new \in CARunState /\ new.ca = c /\ new.row = checked
        BY <1>0, <2>1, <2>5, <3>1 DEF CARunState
      <3>3. caRun' = [caRun EXCEPT ![r] = new] /\ UNCHANGED announced
        BY <1>9, <2>1, <2>2, <2>4, <2>7, <3>1 DEF CheckCA
      <3> QED
        BY <2>3, <2>5, <2>6, <3>2, <3>3, RunWritten
    <2>8. ASSUME ~(Crossed(days) = {} \/ AlreadySent(checked.last, DueAlert(days))) PROVE CAInv'
      <3>1. PICK t : t = DueAlert(days)
        OBVIOUS
      <3>2. t \in CAThresholds /\ days <= t /\ t \in Nat
        BY <1>0, <2>8, <3>1, DueIsCrossed
      <3>3. daysLeft[c] \in Int /\ daysLeft[c] <= t
        BY <1>0, <2>2, <2>3, <3>2
      <3>4. PICK sent : sent = [checked EXCEPT !.last = t]
        OBVIOUS
      <3>5. sent \in CARow /\ sent.last = t
        BY <2>5, <3>2, <3>4 DEF CARow, Alert
      <3>6. PICK new : new = [caRun[r] EXCEPT !.at = "save", !.row = sent]
        OBVIOUS
      <3>7. new \in CARunState /\ new.ca = c /\ new.row = sent
        BY <1>0, <2>1, <3>5, <3>6 DEF CARunState
      <3>8. caRun' = [caRun EXCEPT ![r] = new] /\ announced' = [announced EXCEPT ![c] = announced[c] \cup {t}]
        BY <1>9, <2>1, <2>2, <2>4, <2>8, <3>1, <3>4, <3>6 DEF CheckCA
      <3>9. caRun' \in [CARuns -> CARunState] /\ \A q \in CARuns : caRun'[q] = IF q = r THEN new ELSE caRun[q]
        BY <1>0, <3>7, <3>8
      <3>10. /\ announced' \in [CAs -> SUBSET CAThresholds]
             /\ \A d \in CAs : announced'[d] = IF d = c THEN announced[c] \cup {t} ELSE announced[d]
        BY <1>0, <2>3, <3>2, <3>8
      <3>11. CATypeOK'
        BY <1>0, <2>6, <3>9, <3>10 DEF CATypeOK
      <3>12. AnnouncedWhatWasCrossed'
        BY <1>0, <2>6, <3>3, <3>10 DEF AnnouncedWhatWasCrossed
      <3>13. RunsRecall'
        BY <2>3, <3>5, <3>7, <3>9, <3>10 DEF CAInv, RunsRecall
      <3> QED
        BY <3>11, <3>12, <3>13 DEF CAInv
    <2> QED
      BY <2>7, <2>8
  <1>10. ASSUME CANext PROVE CAInv'
    <2>1. \A r \in CARuns, c \in CAs : RefreshIssuer(r, c) \/ SetOwner(r, c) \/ BeginCheck(r, c) => CAInv'
      BY <1>7 DEF RefreshIssuer, SetOwner, BeginCheck
    <2> QED
      BY <1>2, <1>3, <1>4, <1>5, <1>6, <1>8, <1>9, <1>10, <2>1 DEF CANext, CheckStep
  <1> QED
    BY <1>1, <1>10

-----------------------------------------------------------------------------
(* The renewal advice.                                                     *)

\* An instant that comes nearer is still an instant.
LEMMA NearerStays ==
    ASSUME NEW n \in Nat, NEW t \in {Nil} \cup 0..n
    PROVE  Nearer(t) \in {Nil} \cup 0..n
  BY DEF Nearer

\* A row whose instants come nearer is still a row.
LEMMA NearerRowStays ==
    ASSUME NEW r \in AdviceRow
    PROVE  NearerRow(r) \in AdviceRow
  <1>1. Life \in Nat /\ LongWait \in Nat
    BY AdviceAssumption
  <1>2. r.sched \in {Nil} \cup 0..Life /\ r.next \in {Nil} \cup 0..LongWait
    BY DEF AdviceRow, Instants
  <1>3. Nearer(r.sched) \in Instants /\ Nearer(r.next) \in {Nil} \cup 0..LongWait
    BY <1>1, <1>2, NearerStays DEF Instants
  <1> QED
    BY <1>3 DEF NearerRow, AdviceRow

\* The values that stand for no advice and nobody asking.
LEMMA AdviceNothing == Unadvised \in AdviceRow /\ NotAsking \in AskerState
  BY DEF Unadvised, NotAsking, AdviceRow, AskerState, Instants

\* Advice: the asker's state written keeps the type.
LEMMA AskWritten ==
    ASSUME NEW a \in Askers, NEW new \in AskerState, asking \in [Askers -> AskerState],
           asking' = [asking EXCEPT ![a] = new]
    PROVE  asking' \in [Askers -> AskerState]
  OBVIOUS

\* What a refresh writes is a row.
LEMMA UpdateIsRow ==
    ASSUME NEW gotten \in AskerState, NEW wait \in MinWait..LongWait
    PROVE  Update(gotten, wait) \in AdviceRow
  <1>1. MinWait \in 0..LongWait /\ LongWait \in 0..LongWait /\ wait \in 0..LongWait
    BY AdviceAssumption
  <1>2. gotten.row \in AdviceRow /\ gotten.answer \in Instants /\ gotten.failed \in BOOLEAN
    BY DEF AskerState
  <1>3. [gotten.row EXCEPT !.next = MinWait] \in AdviceRow
    BY <1>1, <1>2 DEF AdviceRow
  <1>4. /\ [sched |-> Nil, window |-> FALSE, next |-> LongWait, supported |-> FALSE] \in AdviceRow
        /\ [sched |-> gotten.answer, window |-> TRUE, next |-> wait, supported |-> TRUE] \in AdviceRow
    BY <1>1, <1>2 DEF AdviceRow, Instants
  <1> QED
    BY <1>2, <1>3, <1>4 DEF Update

\* Advice: initially.
LEMMA AdviceInitType == AdviceInit => AdviceTypeOK
  <1>1. Life \in 0..Life /\ 0 \in 0..MaxRefresh
    BY AdviceAssumption
  <1>2. AdviceInit => asking \in [Askers -> AskerState]
    BY AdviceNothing DEF AdviceInit
  <1> QED
    BY <1>1, <1>2, AdviceNothing DEF AdviceInit, AdviceTypeOK

\* Advice: every step keeps the type.
LEMMA AdviceStepType == AdviceTypeOK /\ [AdviceNext]_adviceVars => AdviceTypeOK'
  <1> SUFFICES ASSUME AdviceTypeOK, [AdviceNext]_adviceVars PROVE AdviceTypeOK'
    OBVIOUS
  <1>n. Life \in Nat /\ MaxRefresh \in Nat
    BY AdviceAssumption
  <1>a. \A a \in Askers : /\ asking[a] \in AskerState /\ asking[a].row \in AdviceRow
                          /\ asking[a].answer \in Instants
    BY DEF AdviceTypeOK, AskerState
  <1>1. ASSUME NEW days \in BOOLEAN, Tick(days) PROVE AdviceTypeOK'
    <2>1. lifeLeft' \in 0..Life
      <3>1. lifeLeft \in 0..Life /\ (lifeLeft' = lifeLeft \/ lifeLeft' = Nearer(lifeLeft))
        BY <1>1 DEF Tick, AdviceTypeOK
      <3>2. Nearer(lifeLeft) \in 0..Life
        BY <3>1, <1>n DEF Nearer
      <3> QED
        BY <3>1, <3>2
    <2>2. advRow' \in AdviceRow
      BY <1>1, NearerRowStays DEF Tick, AdviceTypeOK
    <2>3. ASSUME NEW a \in Askers
          PROVE  [asking[a] EXCEPT !.row = NearerRow(@), !.answer = Nearer(@)] \in AskerState
      <3>1. NearerRow(asking[a].row) \in AdviceRow
        BY <1>a, NearerRowStays
      <3>2. Nearer(asking[a].answer) \in Instants
        BY <1>a, <1>n, NearerStays DEF Instants
      <3> QED
        BY <1>a, <3>1, <3>2 DEF AskerState
    <2>4. asking' \in [Askers -> AskerState]
      BY <1>1, <2>3 DEF Tick
    <2> QED
      BY <1>1, <2>1, <2>2, <2>4 DEF Tick, AdviceTypeOK
  <1>2. PullWindow => AdviceTypeOK'
    BY DEF PullWindow, AdviceTypeOK
  <1>3. RenewDue => AdviceTypeOK'
    <2> SUFFICES ASSUME RenewDue PROVE AdviceTypeOK'
      OBVIOUS
    <2>1. \A a \in Askers : [asking[a] EXCEPT !.own = FALSE] \in AskerState
      BY <1>a DEF AskerState
    <2>2. asking' \in [Askers -> AskerState]
      BY <2>1 DEF RenewDue
    <2>3. lifeLeft' \in 0..Life
      BY <1>n DEF RenewDue
    <2> QED
      BY <2>2, <2>3 DEF RenewDue, AdviceTypeOK
  <1>4. ASSUME NEW a \in Askers, BeginRefresh(a) PROVE AdviceTypeOK'
    <2>1. PICK new : new = [at |-> "fetch", row |-> advRow, own |-> TRUE, failed |-> FALSE, answer |-> Nil]
      OBVIOUS
    <2>2. new \in AskerState
      BY <2>1 DEF AskerState, Instants, AdviceTypeOK
    <2>3. asking' = [asking EXCEPT ![a] = new]
      BY <1>4, <2>1 DEF BeginRefresh
    <2>4. asking' \in [Askers -> AskerState]
      BY <2>2, <2>3, AskWritten DEF AdviceTypeOK
    <2>5. refreshes' \in 0..MaxRefresh
      BY <1>4, <1>n DEF BeginRefresh, AdviceTypeOK
    <2> QED
      BY <1>4, <2>4, <2>5 DEF BeginRefresh, AdviceTypeOK
  <1>5. ASSUME NEW a \in Askers, Fetch(a) PROVE AdviceTypeOK'
    <2>1. PICK x \in Instants : asking' = [asking EXCEPT ![a].at = "record", ![a].row = Unadvised, ![a].answer = x]
      BY <1>5 DEF Fetch
    <2>2. PICK new : new = [asking[a] EXCEPT !.at = "record", !.row = Unadvised, !.answer = x]
      OBVIOUS
    <2>3. new \in AskerState
      BY <1>a, <2>2, AdviceNothing DEF AskerState
    <2>4. asking' = [asking EXCEPT ![a] = new]
      BY <2>1, <2>2 DEF AdviceTypeOK
    <2>5. asking' \in [Askers -> AskerState]
      BY <2>3, <2>4, AskWritten DEF AdviceTypeOK
    <2> QED
      BY <1>5, <2>5 DEF Fetch, AdviceTypeOK
  <1>6. ASSUME NEW a \in Askers, FetchFails(a) PROVE AdviceTypeOK'
    <2>2. PICK new : new = [asking[a] EXCEPT !.at = "record", !.failed = TRUE]
      OBVIOUS
    <2>3. new \in AskerState
      BY <1>a, <2>2 DEF AskerState
    <2>4. asking' = [asking EXCEPT ![a] = new]
      BY <1>6, <2>2 DEF AdviceTypeOK, FetchFails
    <2>5. asking' \in [Askers -> AskerState]
      BY <2>3, <2>4, AskWritten DEF AdviceTypeOK
    <2> QED
      BY <1>6, <2>5 DEF FetchFails, AdviceTypeOK
  <1>7. ASSUME NEW a \in Askers, RecordAdvice(a) PROVE AdviceTypeOK'
    <2>1. advRow' \in AdviceRow
      BY <1>7, <1>a, UpdateIsRow DEF RecordAdvice
    <2>2. asking' \in [Askers -> AskerState]
      BY <1>7, AdviceNothing, AskWritten DEF RecordAdvice, AdviceTypeOK
    <2>3. unasked' \in BOOLEAN
      BY <1>7 DEF RecordAdvice
    <2> QED
      BY <1>7, <2>1, <2>2, <2>3 DEF RecordAdvice, AdviceTypeOK
  <1>8. ASSUME NEW a \in Askers, RecordLost(a) PROVE AdviceTypeOK'
    <2>2. asking' \in [Askers -> AskerState]
      BY <1>8, AdviceNothing, AskWritten DEF RecordLost, AdviceTypeOK
    <2> QED
      BY <1>8, <2>2 DEF RecordLost, AdviceTypeOK
  <1>9. UNCHANGED adviceVars => AdviceTypeOK'
    BY DEF adviceVars, AdviceTypeOK
  <1> QED
    BY <1>1, <1>2, <1>3, <1>4, <1>5, <1>6, <1>7, <1>8, <1>9 DEF AdviceNext

-----------------------------------------------------------------------------
(* The whole. A step of the background services is a step or a stutter of  *)
(* each of them.                                                           *)

\* One step, seen by each service.
LEMMA BackgroundProjects ==
    [Next]_vars =>
        /\ [ScansNext]_scansVars
        /\ [NotifyNext]_notifyVars
        /\ [StreamNext]_streamVars
        /\ [AdviceNext]_adviceVars
        /\ [VerificationNext]_verifyVars
        /\ [GatewayNext]_gatewayVars
        /\ [AcmeNext]_acmeVars
        /\ [FleetNext]_fleetVars
        /\ [CANext]_caVars
  <1>1. ASSUME UNCHANGED vars
        PROVE
          /\ UNCHANGED scansVars
          /\ UNCHANGED notifyVars
          /\ UNCHANGED streamVars
          /\ UNCHANGED adviceVars
          /\ UNCHANGED verifyVars
          /\ UNCHANGED gatewayVars
          /\ UNCHANGED acmeVars
          /\ UNCHANGED fleetVars
          /\ UNCHANGED caVars
    BY <1>1 DEF vars
  <1>2. ASSUME Next
        PROVE
          /\ (ScansNext \/ UNCHANGED scansVars)
          /\ (NotifyNext \/ UNCHANGED notifyVars)
          /\ (StreamNext \/ UNCHANGED streamVars)
          /\ (AdviceNext \/ UNCHANGED adviceVars)
          /\ (VerificationNext \/ UNCHANGED verifyVars)
          /\ (GatewayNext \/ UNCHANGED gatewayVars)
          /\ (AcmeNext \/ UNCHANGED acmeVars)
          /\ (FleetNext \/ UNCHANGED fleetVars)
          /\ (CANext \/ UNCHANGED caVars)
    <2>1. ScansNext \/ UNCHANGED scansVars
      BY <1>2 DEF Next, RestUnchanged
    <2>2. NotifyNext \/ UNCHANGED notifyVars
      BY <1>2 DEF Next, RestUnchanged
    <2>3. StreamNext \/ UNCHANGED streamVars
      BY <1>2 DEF Next, RestUnchanged
    <2>4. AdviceNext \/ UNCHANGED adviceVars
      BY <1>2 DEF Next, RestUnchanged
    <2>5. VerificationNext \/ UNCHANGED verifyVars
      BY <1>2 DEF Next, RestUnchanged
    <2>6. GatewayNext \/ UNCHANGED gatewayVars
      BY <1>2 DEF Next, RestUnchanged
    <2>7. AcmeNext \/ UNCHANGED acmeVars
      BY <1>2 DEF Next, RestUnchanged
    <2>8. FleetNext \/ UNCHANGED fleetVars
      BY <1>2 DEF Next, RestUnchanged
    <2>9. CANext \/ UNCHANGED caVars
      BY <1>2 DEF Next, RestUnchanged
    <2> QED
      BY <2>1, <2>2, <2>3, <2>4, <2>5, <2>6, <2>7, <2>8, <2>9
  <1> QED
    BY <1>1, <1>2

\* Initially every service is in one of its own initial states.
LEMMA BackgroundInitial ==
    Init => ScansInit /\ NotifyInit /\ StreamInit /\ AdviceInit /\ VerificationInit /\ GatewayInit /\ AcmeInit /\ FleetInit /\ CAInit
  BY DEF Init

\* What the background services promise together, and why.
BackgroundInv ==
    /\ ScansInv /\ NotifyInv /\ StreamInv /\ AdviceTypeOK /\ VerifyInv
    /\ GatewayInv /\ AcmeInv /\ FleetInv /\ CAInv

\* The background services keep their invariants, whatever is left to do.
LEMMA BackgroundAlways == Spec => []BackgroundInv
  <1>1. Init => BackgroundInv
    BY BackgroundInitial, ScansInitInv, NotifyInitInv, StreamInitInv, AdviceInitType, VerificationInitInv,
       GatewayInitInv, AcmeInitInv, FleetInitInv, CAInitInv
    DEF BackgroundInv
  <1>2. BackgroundInv /\ [Next]_vars => BackgroundInv'
    <2> SUFFICES ASSUME BackgroundInv, [Next]_vars PROVE BackgroundInv'
      OBVIOUS
    <2>1. ScansInv'
      BY BackgroundProjects, ScansStepInv DEF BackgroundInv
    <2>2. NotifyInv'
      BY BackgroundProjects, NotifyStepInv DEF BackgroundInv
    <2>3. StreamInv'
      BY BackgroundProjects, StreamStepInv DEF BackgroundInv
    <2>4. AdviceTypeOK'
      BY BackgroundProjects, AdviceStepType DEF BackgroundInv
    <2>5. VerifyInv'
      BY BackgroundProjects, VerificationStepInv DEF BackgroundInv
    <2>6. GatewayInv'
      BY BackgroundProjects, GatewayStepInv DEF BackgroundInv
    <2>7. AcmeInv'
      BY BackgroundProjects, AcmeStepInv DEF BackgroundInv
    <2>8. FleetInv'
      BY BackgroundProjects, FleetStepInv DEF BackgroundInv
    <2>9. CAInv'
      BY BackgroundProjects, CAStepInv DEF BackgroundInv
    <2> QED
      BY <2>1, <2>2, <2>3, <2>4, <2>5, <2>6, <2>7, <2>8, <2>9 DEF BackgroundInv
  <1> QED
    BY <1>1, <1>2, PTL DEF Spec

\* What is published and edited is not missed in silence (broker.go Publish and
\* Replay, events.go Stream, dispatcher.go loadChannels and InvalidateChannels,
\* ca_monitor.go): a settled dashboard knows every change that is written and
\* whose event is out, but those published before they were written around whose
\* event and write its snapshot was read; the cache of channels holds what this
\* core's edits left, and what another core edits from the next load on; and an
\* alert on record was crossed.
THEOREM NothingIsMissed == Spec => []NothingMissed
  <1>1. BackgroundInv => NothingMissed
    <2> SUFFICES ASSUME BackgroundInv PROVE NothingMissed
      OBVIOUS
    <2>1. StreamTypeOK /\ NoSilentGap
      BY StreamInvSays DEF BackgroundInv
    <2>2. /\ NotifyTypeOK /\ CacheFollowsEdits /\ CATypeOK /\ AnnouncedWhatWasCrossed
      BY DEF BackgroundInv, NotifyInv, CAInv
    <2>3. /\ ScansTypeOK /\ AdviceTypeOK /\ VerificationTypeOK /\ GatewayTypeOK /\ AcmeTypeOK /\ FleetTypeOK
      BY DEF BackgroundInv, ScansInv, VerifyInv, GatewayInv, AcmeInv, FleetInv
    <2> QED
      BY <2>1, <2>2, <2>3 DEF NothingMissed, TypeOK
  <1> QED
    BY <1>1, BackgroundAlways, PTL
=============================================================================
