---------------------------- MODULE FleetProofs ----------------------------
(***************************************************************************)
(* Inductive invariants of the services that watch hosts and networks: the *)
(* agent fleet, discovery scans and their schedules, the verification of   *)
(* what was deployed and the connections to gateways. ServicesProofs lifts *)
(* them to the specification that the runs check.                          *)
(***************************************************************************)
EXTENDS AgentFleet, DiscoveryScans, DiscoverySchedules, Verification,
        GatewayManager, FiniteSetTheorems, WellFoundedInduction, TLAPS

-----------------------------------------------------------------------------
(* Schedules. A replica's next attempt is bounded from below by the row it *)
(* marked, and by what it had read as due.                                 *)

\* The intervals that count are ones operators may ask for.
IntervalsValid ==
    /\ \A s \in Schedules : schedule[s].exists => schedule[s].interval \in Nat /\ schedule[s].interval >= MinInterval
    /\ \A r \in Schedulers, s \in Schedules :
          s \in pass[r].todo \/ (pass[r].at = "mark" /\ pass[r].doing = s) =>
              pass[r].read[s] \in Nat /\ pass[r].read[s] >= MinInterval

PassesAreMeant ==
    /\ \A r \in Schedulers : pass[r].at = "mark" => pass[r].doing \in Schedules
    /\ \A r \in Schedulers : pass[r].at = "idle" => pass[r].todo = {}
    /\ \A r \in Schedulers, s \in Schedules : lastStart[r][s].at # Nil => lastStart[r][s].at <= clock

\* What a replica attempted is marked or being marked, and what it is about to
\* attempt again was due when the shortest interval had passed.
Paced ==
    \A r \in Schedulers, s \in Schedules :
        lastStart[r][s].at # Nil /\ s \notin loose =>
            /\ s \in pass[r].todo => clock >= lastStart[r][s].at + MinInterval
            /\ ~(pass[r].at = "mark" /\ pass[r].doing = s) =>
                  schedule[s].exists /\ schedule[s].next \in Nat /\ schedule[s].next >= lastStart[r][s].at + MinInterval

SchedulesInv == SchedulesTypeOK /\ IntervalsValid /\ PassesAreMeant /\ Paced

\* SchedulesInv holds before anything is scheduled.
LEMMA SchedulesInitInv == SchedulesInit => SchedulesInv
  <1> SUFFICES ASSUME SchedulesInit PROVE SchedulesInv
    OBVIOUS
  <1> USE SchedulesAssumption
  <1>1. SchedulesTypeOK
    BY DEF SchedulesInit, SchedulesTypeOK, Times, ScheduleRow, PassState, Start, NoSchedule, NoPass
  <1>2. IntervalsValid /\ PassesAreMeant /\ Paced
    BY DEF SchedulesInit, IntervalsValid, PassesAreMeant, Paced, NoSchedule, NoPass
  <1> QED
    BY <1>1, <1>2 DEF SchedulesInv

\* A step of an operator or of a replica's scheduler preserves SchedulesInv.
LEMMA SchedulesStepInv == SchedulesInv /\ [SchedulesNext]_schedulesVars => SchedulesInv'
  <1> SUFFICES ASSUME SchedulesInv, [SchedulesNext]_schedulesVars PROVE SchedulesInv'
    OBVIOUS
  <1> USE SchedulesAssumption
  <1>a. SchedulesTypeOK /\ IntervalsValid /\ PassesAreMeant /\ Paced
    BY DEF SchedulesInv
  <1> USE <1>a DEF SchedulesTypeOK, Times
  <1>1. ASSUME UNCHANGED schedulesVars PROVE SchedulesInv'
    BY <1>1, <1>a DEF schedulesVars, SchedulesInv, IntervalsValid, PassesAreMeant, Paced
  <1>2. ASSUME TimePasses PROVE SchedulesInv'
    <2>1. SchedulesTypeOK'
      BY <1>2 DEF TimePasses
    <2>2. IntervalsValid' /\ PassesAreMeant'
      BY <1>2 DEF TimePasses, IntervalsValid, PassesAreMeant, Start
    <2>3. Paced'
      BY <1>2 DEF TimePasses, Paced, Start
    <2> QED
      BY <2>1, <2>2, <2>3 DEF SchedulesInv
  <1>3. ASSUME NEW s \in Schedules, NEW i \in Intervals, CreateSchedule(s, i) PROVE SchedulesInv'
    <2>0. /\ ~schedule[s].exists /\ i >= MinInterval /\ i \in Nat
          /\ schedule' = [schedule EXCEPT ![s] = [exists |-> TRUE, enabled |-> TRUE, interval |-> i, next |-> Nil]]
          /\ UNCHANGED <<clock, pass, lastStart, loose>>
      BY <1>3 DEF CreateSchedule, ValidInterval
    <2>1. SchedulesTypeOK'
      BY <2>0 DEF ScheduleRow
    <2>2. IntervalsValid' /\ PassesAreMeant'
      BY <2>0 DEF IntervalsValid, PassesAreMeant
    <2>3. Paced'
      BY <2>0 DEF Paced
    <2> QED
      BY <2>1, <2>2, <2>3 DEF SchedulesInv
  <1>4. ASSUME NEW s \in Schedules, NEW i \in Intervals, NEW on \in BOOLEAN, UpdateSchedule(s, i, on) PROVE SchedulesInv'
    <2>0. /\ schedule[s].exists /\ i >= MinInterval /\ i \in Nat
          /\ schedule' = [schedule EXCEPT ![s] = UpdatedSchedule(schedule[s], i, on)]
          /\ UNCHANGED <<clock, pass, lastStart, loose>>
      BY <1>4 DEF UpdateSchedule, ValidInterval
    <2> DEFINE row == UpdatedSchedule(schedule[s], i, on)
    <2>a. schedule[s] \in ScheduleRow
      OBVIOUS
    <2>b. row \in ScheduleRow /\ row.exists = schedule[s].exists /\ row.next = schedule[s].next /\ row.interval = i
      BY <2>a DEF ScheduleRow, UpdatedSchedule
    <2>c. schedule' = [schedule EXCEPT ![s] = row]
      BY <2>0
    <2> HIDE DEF row
    <2>1. SchedulesTypeOK'
      BY <2>0, <2>b, <2>c
    <2>2. IntervalsValid' /\ PassesAreMeant'
      BY <2>0, <2>b, <2>c DEF IntervalsValid, PassesAreMeant
    <2>3. Paced'
      BY <2>0, <2>b, <2>c, ZenonT(30) DEF Paced
    <2> QED
      BY <2>1, <2>2, <2>3 DEF SchedulesInv
  <1>5. ASSUME NEW s \in Schedules, DeleteSchedule(s) PROVE SchedulesInv'
    <2>1. SchedulesTypeOK'
      BY <1>5 DEF DeleteSchedule, NoSchedule, ScheduleRow
    <2>2. IntervalsValid' /\ PassesAreMeant'
      BY <1>5 DEF DeleteSchedule, NoSchedule, IntervalsValid, PassesAreMeant
    <2>3. Paced'
      BY <1>5 DEF DeleteSchedule, NoSchedule, Paced
    <2> QED
      BY <2>1, <2>2, <2>3 DEF SchedulesInv
  <1>6. ASSUME NEW r \in Schedulers, BeginPass(r) PROVE SchedulesInv'
    <2>0. /\ pass[r].at = "idle" /\ pass[r].todo = {}
          /\ pass' \in [Schedulers -> PassState]
          /\ pass'[r].at = "trigger" /\ pass'[r].todo = {s \in Schedules : Due(s)}
          /\ \A s \in Schedules : Due(s) => pass'[r].read[s] = schedule[s].interval
          /\ \A q \in Schedulers \ {r} : pass'[q] = pass[q]
          /\ UNCHANGED <<clock, schedule, lastStart, loose>>
      BY <1>6 DEF BeginPass, PassState, ScheduleRow, PassesAreMeant
    <2>1. SchedulesTypeOK'
      BY <2>0
    <2>2. IntervalsValid'
      BY <2>0 DEF IntervalsValid, Due
    <2>3. PassesAreMeant'
      BY <2>0 DEF PassesAreMeant
    <2>4. ASSUME NEW s \in Schedules, lastStart[r][s].at # Nil, s \notin loose, Due(s)
          PROVE  clock >= lastStart[r][s].at + MinInterval
      <3>1. lastStart[r][s].at \in Nat
        BY <2>4 DEF Start
      <3> QED
        BY <2>0, <2>4, <3>1 DEF Paced, Due
    <2>5. Paced'
      BY <2>0, <2>4 DEF Paced
    <2> QED
      BY <2>1, <2>2, <2>3, <2>5 DEF SchedulesInv
  <1>7. ASSUME NEW r \in Schedulers, EndPass(r) PROVE SchedulesInv'
    <2>0. pass'[r].at = "idle" /\ pass'[r].todo = {} /\ pass[r].at # "mark" /\ \A q \in Schedulers \ {r} : pass'[q] = pass[q]
      BY <1>7 DEF EndPass, NoPass
    <2>1. SchedulesTypeOK'
      BY <1>7 DEF EndPass, NoPass, PassState
    <2>2. IntervalsValid' /\ PassesAreMeant'
      BY <1>7, <2>0 DEF EndPass, IntervalsValid, PassesAreMeant
    <2>3. Paced'
      BY <1>7, <2>0 DEF EndPass, Paced
    <2> QED
      BY <2>1, <2>2, <2>3 DEF SchedulesInv
  <1>8. ASSUME NEW r \in Schedulers, NEW s \in Schedules, Trigger(r, s) PROVE SchedulesInv'
    <2>a. pass[r] \in PassState
      OBVIOUS
    <2>0. /\ pass[r].at = "trigger" /\ s \in pass[r].todo
          /\ pass'[r].at = "mark" /\ pass'[r].doing = s /\ pass'[r].todo = pass[r].todo \ {s} /\ pass'[r].read = pass[r].read
          /\ pass' \in [Schedulers -> PassState]
          /\ \A q \in Schedulers \ {r} : pass'[q] = pass[q]
          /\ UNCHANGED <<clock, schedule, loose>>
      BY <1>8, <2>a, SMTT(20) DEF Trigger, AfterStart, PassState
    <2>b. lastStart[r] \in [Schedules -> Start]
      OBVIOUS
    <2>c. lastStart[r][s].turn \in {0, 1}
      BY <2>b DEF Start
    <2>1. /\ lastStart' \in [Schedulers -> [Schedules -> Start]]
          /\ lastStart'[r][s].at = clock
          /\ \A q \in Schedulers, t \in Schedules : q # r \/ t # s => lastStart'[q][t] = lastStart[q][t]
      BY <1>8, <2>b, <2>c DEF Trigger, Start
    <2>2. SchedulesTypeOK'
      BY <2>0, <2>1
    <2>3. IntervalsValid' /\ PassesAreMeant'
      <3>1. IntervalsValid'
        <4>1. \A q \in Schedulers, t \in Schedules :
                 t \in pass'[q].todo \/ (pass'[q].at = "mark" /\ pass'[q].doing = t) =>
                     /\ t \in pass[q].todo \/ (pass[q].at = "mark" /\ pass[q].doing = t)
                     /\ pass'[q].read = pass[q].read
          BY <2>0
        <4> QED
          BY <2>0, <4>1 DEF SchedulesInv, IntervalsValid
      <3>2. PassesAreMeant'
        <4>1. \A q \in Schedulers : pass'[q].at = "mark" => pass'[q].doing \in Schedules
          BY <2>0 DEF PassesAreMeant
        <4>2. \A q \in Schedulers : pass'[q].at = "idle" => pass'[q].todo = {}
          BY <2>0 DEF PassesAreMeant
        <4>3. \A q \in Schedulers, t \in Schedules : lastStart'[q][t].at # Nil => lastStart'[q][t].at <= clock'
          BY <2>0, <2>1 DEF PassesAreMeant
        <4> QED
          BY <4>1, <4>2, <4>3 DEF PassesAreMeant
      <3> QED
        BY <3>1, <3>2
    <2>4. Paced'
      <3>1. ASSUME NEW q \in Schedulers, NEW t \in Schedules, lastStart'[q][t].at # Nil, t \notin loose'
            PROVE  /\ t \in pass'[q].todo => clock' >= lastStart'[q][t].at + MinInterval
                   /\ ~(pass'[q].at = "mark" /\ pass'[q].doing = t) =>
                         schedule'[t].exists /\ schedule'[t].next \in Nat /\ schedule'[t].next >= lastStart'[q][t].at + MinInterval
        <4>1. CASE q = r /\ t = s
          BY <2>0, <2>1, <4>1
        <4>2. CASE q = r /\ t # s
          BY <2>0, <2>1, <3>1, <4>2 DEF Paced
        <4>3. CASE q # r
          BY <2>0, <2>1, <3>1, <4>3 DEF Paced
        <4> QED
          BY <4>1, <4>2, <4>3
      <3> QED
        BY <3>1 DEF Paced
    <2> QED
      BY <2>2, <2>3, <2>4 DEF SchedulesInv
  <1>9. ASSUME NEW r \in Schedulers, MarkRun(r) PROVE SchedulesInv'
    <2>a. PICK s \in Schedules : s = pass[r].doing
      BY <1>9 DEF MarkRun, PassesAreMeant
    <2>b. pass[r] \in PassState /\ schedule[s] \in ScheduleRow
      OBVIOUS
    <2>c. pass[r].read[s] \in Nat /\ pass[r].read[s] >= MinInterval /\ pass[r].now \in Nat
      BY <1>9, <2>a, <2>b DEF MarkRun, IntervalsValid, PassState
    <2>d. PICK n \in Nat : n = pass[r].now + pass[r].read[s]
      BY <2>c
    <2>0. /\ pass[r].at = "mark"
          /\ pass'[r].at = "trigger" /\ pass'[r].todo = pass[r].todo /\ pass'[r].read = pass[r].read
          /\ pass' \in [Schedulers -> PassState]
          /\ \A q \in Schedulers \ {r} : pass'[q] = pass[q]
          /\ UNCHANGED <<clock, lastStart>>
      BY <1>9, <2>b DEF MarkRun, PassState
    <2>1. /\ schedule' \in [Schedules -> ScheduleRow]
          /\ \A t \in Schedules : /\ schedule'[t].exists = schedule[t].exists
                                  /\ schedule'[t].interval = schedule[t].interval
                                  /\ t # s => schedule'[t].next = schedule[t].next
          /\ schedule[s].exists => schedule'[s].next = n
      BY <1>9, <2>a, <2>b, <2>d DEF MarkRun, ScheduleRow
    <2>2. /\ loose' \subseteq Schedules /\ \A t \in Schedules \ {s} : t \in loose' <=> t \in loose
          /\ s \notin loose' =>
                /\ schedule[s].exists /\ pass[r].now = clock
                /\ s \in loose => \A q \in Schedulers : s \notin pass[q].todo
      BY <1>9, <2>a DEF MarkRun
    <2>3. SchedulesTypeOK'
      BY <2>0, <2>1, <2>2
    <2>4. IntervalsValid' /\ PassesAreMeant'
      <3>1. IntervalsValid'
        <4>1. \A t \in Schedules : schedule'[t].exists => schedule'[t].interval \in Nat /\ schedule'[t].interval >= MinInterval
          BY <2>1 DEF IntervalsValid
        <4>2. \A q \in Schedulers, t \in Schedules :
                 t \in pass'[q].todo \/ (pass'[q].at = "mark" /\ pass'[q].doing = t) =>
                     pass'[q].read[t] \in Nat /\ pass'[q].read[t] >= MinInterval
          BY <2>0 DEF IntervalsValid
        <4> QED
          BY <4>1, <4>2 DEF IntervalsValid
      <3>2. PassesAreMeant'
        BY <2>0, <2>1 DEF PassesAreMeant
      <3> QED
        BY <3>1, <3>2
    <2>5. ASSUME NEW q \in Schedulers, NEW t \in Schedules, lastStart[q][t].at # Nil, t \notin loose'
          PROVE  /\ t \in pass'[q].todo => clock >= lastStart[q][t].at + MinInterval
                 /\ ~(pass'[q].at = "mark" /\ pass'[q].doing = t) =>
                       schedule'[t].exists /\ schedule'[t].next \in Nat /\ schedule'[t].next >= lastStart[q][t].at + MinInterval
      <3>a. lastStart[q][t].at \in Nat /\ lastStart[q][t].at <= clock
        BY <2>5 DEF Start, PassesAreMeant
      <3>b. pass'[q].todo = pass[q].todo
        BY <2>0
      <3>1. CASE t # s
        <4>1. t \notin loose
          BY <2>2, <2>5, <3>1
        <4>2. ~(pass'[q].at = "mark" /\ pass'[q].doing = t) => ~(pass[q].at = "mark" /\ pass[q].doing = t)
          BY <2>0, <2>a, <3>1
        <4> QED
          BY <2>1, <2>5, <3>1, <3>b, <4>1, <4>2 DEF Paced
      <3>2. CASE t = s
        <4>1. schedule'[t].exists /\ schedule'[t].next = n /\ n = clock + pass[r].read[s]
          BY <2>1, <2>2, <2>5, <2>d, <3>2
        <4>2. n >= lastStart[q][t].at + MinInterval
          BY <2>c, <3>a, <4>1
        <4>3. t \in pass[q].todo => t \notin loose
          BY <2>2, <2>5, <3>2
        <4> QED
          BY <2>5, <3>b, <4>1, <4>2, <4>3 DEF Paced
      <3> QED
        BY <3>1, <3>2
    <2>6. Paced'
      BY <2>0, <2>5 DEF Paced
    <2> QED
      BY <2>3, <2>4, <2>6 DEF SchedulesInv
  <1>10. ASSUME NEW r \in Schedulers, MarkFails(r) \/ SchedulerRestarts(r) PROVE SchedulesInv'
    <2>b. pass[r] \in PassState
      OBVIOUS
    <2>0. /\ pass'[r].at \in {"trigger", "idle"} /\ pass'[r].todo \subseteq pass[r].todo
          /\ pass'[r].at = "idle" => pass'[r].todo = {}
          /\ pass'[r].todo # {} => pass'[r].read = pass[r].read
          /\ pass' \in [Schedulers -> PassState]
          /\ \A q \in Schedulers \ {r} : pass'[q] = pass[q]
          /\ UNCHANGED <<clock, schedule, lastStart>>
      <3>1. CASE MarkFails(r)
        BY <3>1, <2>b DEF MarkFails, PassState
      <3>2. CASE SchedulerRestarts(r)
        BY <3>2 DEF SchedulerRestarts, NoPass, PassState
      <3> QED
        BY <1>10, <3>1, <3>2
    <2>1. loose' \subseteq Schedules /\ loose \subseteq loose' /\ (pass[r].at = "mark" => pass[r].doing \in loose')
      BY <1>10 DEF MarkFails, SchedulerRestarts, PassesAreMeant
    <2>2. SchedulesTypeOK'
      BY <2>0, <2>1
    <2>3. IntervalsValid' /\ PassesAreMeant'
      BY <2>0 DEF IntervalsValid, PassesAreMeant
    <2>4. Paced'
      BY <2>0, <2>1 DEF Paced
    <2> QED
      BY <2>2, <2>3, <2>4 DEF SchedulesInv
  <1> QED
    BY <1>1, <1>2, <1>3, <1>4, <1>5, <1>6, <1>7, <1>8, <1>9, <1>10 DEF SchedulesNext

\* What a step may do to the attempts of a replica: PaceKept for one step.
LEMMA SchedulesKeepPace ==
    ASSUME SchedulesInv, [SchedulesNext]_schedulesVars, NEW r \in Schedulers, NEW s \in Schedules,
           lastStart'[r][s] # lastStart[r][s], lastStart[r][s].at # Nil, s \notin loose
    PROVE  clock >= lastStart[r][s].at + MinInterval
  <1>1. PICK q \in Schedulers, t \in Schedules : Trigger(q, t)
    <2>1. lastStart' # lastStart
      OBVIOUS
    <2> QED
      BY <2>1 DEF SchedulesNext, schedulesVars, TimePasses, CreateSchedule, UpdateSchedule, DeleteSchedule,
                  BeginPass, EndPass, MarkRun, MarkFails, SchedulerRestarts
  <1>2. q = r /\ t = s
    BY <1>1 DEF Trigger, SchedulesInv, SchedulesTypeOK
  <1> QED
    BY <1>1, <1>2 DEF Trigger, SchedulesInv, Paced

-----------------------------------------------------------------------------
(* Discovery scans.                                                        *)

\* A row names a certificate when, and only when, the endpoint answered.
RowMeant(row) == row.fp = Nil <=> row.state \in {"none", "UNREACHABLE"}

\* What was judged and not lost is stored or waits in the batch, and was
\* compared with the baseline of its scan.
JobMeant(job, recorded) ==
    /\ \A e \in Endpoints : RowMeant(job.base[e])
    /\ job.at = "run" =>
          /\ job.judged = Endpoints \ job.todo
          /\ job.batch \subseteq job.judged /\ job.stored \subseteq job.judged
          /\ ~job.failed => job.judged = job.stored \cup job.batch
          /\ \A e \in job.batch :
                /\ RowMeant(job.found[e]) /\ job.found[e].state # "none"
                /\ job.found[e].finding = Reconcile(job.base[e], job.found[e].state, job.found[e].fp)
                /\ job.found[e].state = "MANAGED" => job.found[e].fp \in recorded

RowsMeant == \A e \in Endpoints : RowMeant(latest[e])
JobsMeant == \A s \in Scans : JobMeant(probing[s], inventory)

\* The row of a scan at work says so, and a scan without a row has not begun.
StatusesMeant ==
    \A s \in Scans :
        /\ probing[s].at = "run" => scanStatus[s] = "RUNNING"
        /\ scanStatus[s] = "none" => probing[s].at = "none"

\* An import has read a row that names a certificate, and marks the row only
\* when the certificate is in the inventory.
ImportsMeant ==
    /\ \A i \in Imports : import[i].at # "idle" => import[i].endpoint \in Endpoints /\ import[i].fp \in Served
    /\ \A i \in Imports : import[i].at = "mark" => import[i].fp \in inventory
    /\ \A c \in Served : created[c] # 0 => c \in inventory

ScansInv ==
    /\ ScansTypeOK /\ RowsMeant /\ JobsMeant /\ StatusesMeant /\ ImportsMeant
    /\ ImportedOnce /\ FoundIsKept /\ ReplacementIsReported

\* What reconcile says is one of the findings, and it says "changed" of an
\* endpoint that answered both times with different certificates.
LEMMA ReconcileFinds ==
    ASSUME NEW previous \in ResultRow, NEW state, NEW fp
    PROVE  /\ Reconcile(previous, state, fp) \in {"none", "changed", "disappeared", "appeared"}
           /\ previous.state \notin {"none", "UNREACHABLE"} /\ state # "UNREACHABLE" /\ previous.fp \notin {Nil, fp} =>
                 Reconcile(previous, state, fp) = "changed"
  BY DEF Reconcile, ResultRow

\* A new entry in the inventory takes nothing from what a scan has judged.
LEMMA JobKept ==
    ASSUME NEW job, NEW recorded, NEW more, recorded \subseteq more, JobMeant(job, recorded)
    PROVE  JobMeant(job, more)
  BY DEF JobMeant

\* ScansInv holds before the first scan.
LEMMA ScansInitInv == ScansInit => ScansInv
  <1> SUFFICES ASSUME ScansInit PROVE ScansInv
    OBVIOUS
  <1> USE DiscoveryAssumption DEF ScansInit
  <1>1. NoResult \in ResultRow /\ RowMeant(NoResult)
    BY DEF NoResult, ResultRow, RowMeant
  <1>2. NoBaseline \in [Endpoints -> ResultRow] /\ \A e \in Endpoints : NoBaseline[e] = NoResult
    BY <1>1 DEF NoBaseline
  <1>3. NoJob \in ScanJob /\ NoJob.at = "none" /\ NoJob.base = NoBaseline
    BY <1>2 DEF NoJob, ScanJob
  <1>4. ScansTypeOK
    <2>1. serving \in [Endpoints -> Served \cup {Nil}]
      <3>1. (CHOOSE c \in Served : TRUE) \in Served
        OBVIOUS
      <3> QED
        BY <3>1
    <2>2. \A e \in Endpoints : latest[e].state = "UNREACHABLE" => latest[e].fp = Nil
      BY <1>2 DEF NoResult
    <2>3. import \in [Imports -> ImportState]
      BY DEF ImportState, NoImport
    <2> QED
      BY <1>2, <1>3, <2>1, <2>2, <2>3 DEF ScansTypeOK
  <1>5. RowsMeant /\ JobsMeant
    BY <1>1, <1>2, <1>3 DEF RowsMeant, JobsMeant, JobMeant
  <1>6. StatusesMeant /\ ImportsMeant
    BY <1>3 DEF StatusesMeant, ImportsMeant, NoImport
  <1>7. ImportedOnce /\ FoundIsKept /\ ReplacementIsReported
    BY <1>2 DEF ImportedOnce, FoundIsKept, ReplacementIsReported, NoResult
  <1> QED
    BY <1>4, <1>5, <1>6, <1>7 DEF ScansInv

\* A step of one scan, which replaces the goroutine's state by job and the
\* status in its row by status.
LEMMA ScanMoves ==
    ASSUME ScansInv, NEW s \in Scans, NEW job \in ScanJob, JobMeant(job, inventory), UNCHANGED inventory,
           NEW status \in {"RUNNING", "COMPLETED", "CANCELLED", "FAILED"},
           job.at = "run" => status = "RUNNING",
           status = "COMPLETED" => job.stored = Endpoints,
           status = "CANCELLED" => job.stored = job.judged,
           probing' = [probing EXCEPT ![s] = job], scanStatus' = [scanStatus EXCEPT ![s] = status]
    PROVE  /\ probing' \in [Scans -> ScanJob]
           /\ scanStatus' \in [Scans -> {"none", "RUNNING", "COMPLETED", "CANCELLED", "FAILED"}]
           /\ JobsMeant' /\ StatusesMeant' /\ FoundIsKept'
  <1> USE DEF ScansInv, ScansTypeOK
  <1>1. /\ probing' \in [Scans -> ScanJob]
        /\ scanStatus' \in [Scans -> {"none", "RUNNING", "COMPLETED", "CANCELLED", "FAILED"}]
    OBVIOUS
  <1>2. /\ probing'[s] = job /\ \A t \in Scans \ {s} : probing'[t] = probing[t]
        /\ scanStatus'[s] = status /\ \A t \in Scans \ {s} : scanStatus'[t] = scanStatus[t]
    OBVIOUS
  <1>3. JobsMeant'
    BY <1>2 DEF JobsMeant
  <1>4. StatusesMeant'
    BY <1>2 DEF StatusesMeant
  <1>5. FoundIsKept'
    BY <1>2 DEF FoundIsKept
  <1> QED
    BY <1>1, <1>3, <1>4, <1>5

\* A step of a scan that writes no result.
LEMMA ScanMovesAlone ==
    ASSUME ScansInv, NEW s \in Scans, NEW job \in ScanJob, JobMeant(job, inventory),
           NEW status \in {"RUNNING", "COMPLETED", "CANCELLED", "FAILED"},
           job.at = "run" => status = "RUNNING",
           status = "COMPLETED" => job.stored = Endpoints,
           status = "CANCELLED" => job.stored = job.judged,
           probing' = [probing EXCEPT ![s] = job], scanStatus' = [scanStatus EXCEPT ![s] = status],
           UNCHANGED <<serving, inventory, latest, import, moves, before, vague, created>>
    PROVE  ScansInv'
  <1>1. /\ probing' \in [Scans -> ScanJob]
        /\ scanStatus' \in [Scans -> {"none", "RUNNING", "COMPLETED", "CANCELLED", "FAILED"}]
        /\ JobsMeant' /\ StatusesMeant' /\ FoundIsKept'
    BY ScanMoves
  <1>2. ScansTypeOK'
    BY <1>1 DEF ScansInv, ScansTypeOK
  <1>3. RowsMeant' /\ ImportsMeant' /\ ImportedOnce' /\ ReplacementIsReported'
    BY DEF ScansInv, RowsMeant, ImportsMeant, ImportedOnce, ReplacementIsReported
  <1> QED
    BY <1>1, <1>2, <1>3 DEF ScansInv

\* A certificate enters the inventory.
LEMMA InventoryGrows ==
    ASSUME ScansInv, NEW c \in Served, c \notin inventory,
           inventory' = inventory \cup {c}, created' = [created EXCEPT ![c] = @ + 1],
           import' \in [Imports -> ImportState],
           \A i \in Imports : \/ import'[i] = import[i]
                              \/ import[i].at # "idle" /\ import'[i].endpoint = import[i].endpoint /\ import[i].fp = c /\ import'[i].fp = c,
           UNCHANGED <<serving, latest, probing, scanStatus, moves, before, vague>>
    PROVE  ScansInv'
  <1> USE DiscoveryAssumption DEF ScansInv
  <1>a. ScansTypeOK
    OBVIOUS
  <1>1. /\ created' \in [Served -> Nat] /\ created[c] = 0 /\ created'[c] = 1
        /\ \A d \in Served \ {c} : created'[d] = created[d]
    BY <1>a DEF ScansTypeOK, ImportsMeant
  <1>2. ScansTypeOK'
    BY <1>a, <1>1 DEF ScansTypeOK
  <1>3. RowsMeant' /\ StatusesMeant' /\ FoundIsKept' /\ ReplacementIsReported'
    BY DEF RowsMeant, StatusesMeant, FoundIsKept, ReplacementIsReported
  <1>4. JobsMeant'
    BY JobKept DEF JobsMeant
  <1>5. ImportsMeant'
    BY <1>1 DEF ImportsMeant
  <1>6. ImportedOnce'
    BY <1>1 DEF ImportedOnce
  <1> QED
    BY <1>2, <1>3, <1>4, <1>5, <1>6

\* A step of an import that leaves the inventory as it is.
LEMMA ImportMoves ==
    ASSUME ScansInv, NEW i \in Imports, NEW state \in ImportState,
           state.at # "idle" => state.endpoint \in Endpoints /\ state.fp \in Served,
           state.at = "mark" => state.fp \in inventory,
           import' = [import EXCEPT ![i] = state],
           UNCHANGED <<serving, inventory, latest, probing, scanStatus, moves, before, vague, created>>
    PROVE  ScansInv'
  <1> USE DEF ScansInv
  <1>1. ScansTypeOK'
    BY DEF ScansTypeOK
  <1>2. import'[i] = state /\ \A j \in Imports \ {i} : import'[j] = import[j]
    BY DEF ScansTypeOK
  <1>3. ImportsMeant'
    BY <1>2 DEF ImportsMeant
  <1>4. RowsMeant' /\ JobsMeant' /\ StatusesMeant' /\ ImportedOnce' /\ FoundIsKept' /\ ReplacementIsReported'
    BY DEF RowsMeant, JobsMeant, StatusesMeant, ImportedOnce, FoundIsKept, ReplacementIsReported
  <1> QED
    BY <1>1, <1>3, <1>4

\* A scan starts with what was seen last, or with nothing.
LEMMA StartScanKeeps ==
    ASSUME ScansInv, NEW s \in Scans, StartScan(s) PROVE ScansInv'
  <1>1. PICK base \in LoadBaseline :
           probing' = [probing EXCEPT ![s] = [NoJob EXCEPT !.at = "run", !.base = base, !.todo = Endpoints]]
    BY DEF StartScan
  <1>2. base \in [Endpoints -> ResultRow] /\ \A e \in Endpoints : RowMeant(base[e])
    BY DEF LoadBaseline, GetLatestDiscoveryResults, NoBaseline, NoResult, ResultRow, RowMeant, ScansInv, ScansTypeOK, RowsMeant
  <1>3. NoBaseline \in [Endpoints -> ResultRow]
    BY DEF NoBaseline, NoResult, ResultRow
  <1> DEFINE job == [NoJob EXCEPT !.at = "run", !.base = base, !.todo = Endpoints]
  <1>4. job \in ScanJob
    BY <1>2, <1>3 DEF NoJob, ScanJob
  <1>5. /\ job.at = "run" /\ job.base = base /\ job.todo = Endpoints /\ job.batch = {}
        /\ job.judged = {} /\ job.stored = {}
    BY DEF NoJob
  <1> HIDE DEF job
  <1>6. JobMeant(job, inventory)
    BY <1>2, <1>5 DEF JobMeant
  <1>7. /\ probing' = [probing EXCEPT ![s] = job] /\ scanStatus' = [scanStatus EXCEPT ![s] = "RUNNING"]
        /\ UNCHANGED <<serving, inventory, latest, import, moves, before, vague, created>>
    BY <1>1 DEF StartScan, RecordScan, job
  <1> QED
    BY <1>4, <1>6, <1>7, ScanMovesAlone

\* An endpoint is probed and judged against the baseline.
LEMMA ProbeKeeps ==
    ASSUME ScansInv, NEW s \in Scans, NEW e \in Endpoints, ProbeEndpoint(s, e) PROVE ScansInv'
  <1>1. PICK state \in ManagedStates(s, serving[e]) :
           probing' = [probing EXCEPT ![s] = [probing[s] EXCEPT !.todo = @ \ {e}, !.batch = @ \cup {e}, !.judged = @ \cup {e},
                            !.found[e] = [state |-> state, fp |-> serving[e],
                                          finding |-> Reconcile(probing[s].base[e], state, serving[e])]]]
    BY DEF ProbeEndpoint
  <1>2. probing[s] \in ScanJob /\ serving[e] \in Served \cup {Nil}
    BY DEF ScansInv, ScansTypeOK
  <1>3. PICK old \in ScanJob : old = probing[s]
    BY <1>2
  <1>4. PICK fp \in Served \cup {Nil} : fp = serving[e]
    BY <1>2
  <1> DEFINE row == [state |-> state, fp |-> fp, finding |-> Reconcile(old.base[e], state, fp)]
             job == [old EXCEPT !.todo = @ \ {e}, !.batch = @ \cup {e}, !.judged = @ \cup {e}, !.found[e] = row]
  <1>5. old.base \in [Endpoints -> ResultRow] /\ old.found \in [Endpoints -> ResultRow]
    BY DEF ScanJob
  <1>6. /\ state \in {"UNREACHABLE", "UNMANAGED", "MANAGED"} /\ (state = "UNREACHABLE" <=> fp = Nil)
        /\ state = "MANAGED" => fp \in inventory
    BY <1>4, DiscoveryAssumption DEF ManagedStates
  <1>7. row \in ResultRow /\ RowMeant(row) /\ row.state = state /\ row.fp = fp
    <2>1. Reconcile(old.base[e], state, fp) \in {"none", "changed", "disappeared", "appeared"}
      BY <1>5, ReconcileFinds
    <2> QED
      BY <1>6, <2>1 DEF ResultRow, RowMeant
  <1>8. row.finding = Reconcile(old.base[e], row.state, row.fp)
    OBVIOUS
  <1> HIDE DEF row
  <1>9. /\ job \in ScanJob /\ job.at = old.at /\ job.base = old.base /\ job.todo = old.todo \ {e} /\ job.batch = old.batch \cup {e}
        /\ job.judged = old.judged \cup {e} /\ job.stored = old.stored /\ job.failed = old.failed
        /\ job.found[e] = row /\ \A d \in Endpoints \ {e} : job.found[d] = old.found[d]
    BY <1>5, <1>7 DEF ScanJob
  <1>10. probing' = [probing EXCEPT ![s] = job]
    BY <1>1, <1>3, <1>4, Zenon DEF row
  <1> HIDE DEF job
  <1>11. JobMeant(old, inventory) /\ old.at = "run" /\ e \in old.todo /\ scanStatus[s] = "RUNNING"
    BY <1>3 DEF ProbeEndpoint, ScansInv, JobsMeant, StatusesMeant
  <1>12. JobMeant(job, inventory)
    <2>0. old.todo \subseteq Endpoints /\ old.batch \subseteq Endpoints
      BY DEF ScanJob
    <2>1. job.judged = Endpoints \ job.todo
      BY <1>9, <1>11, <2>0 DEF JobMeant
    <2>2. job.batch \subseteq job.judged /\ job.stored \subseteq job.judged
      BY <1>9, <1>11 DEF JobMeant
    <2>3. ~job.failed => job.judged = job.stored \cup job.batch
      BY <1>9, <1>11 DEF JobMeant
    <2>4. ASSUME NEW d \in job.batch
          PROVE  /\ RowMeant(job.found[d]) /\ job.found[d].state # "none"
                 /\ job.found[d].finding = Reconcile(job.base[d], job.found[d].state, job.found[d].fp)
                 /\ job.found[d].state = "MANAGED" => job.found[d].fp \in inventory
      <3>1. CASE d = e
        BY <3>1, <1>6, <1>7, <1>8, <1>9
      <3>2. CASE d # e
        <4>1. d \in old.batch /\ job.found[d] = old.found[d]
          BY <1>9, <2>0, <2>4, <3>2
        <4> QED
          BY <1>9, <1>11, <4>1 DEF JobMeant
      <3> QED
        BY <3>1, <3>2
    <2> QED
      BY <1>9, <1>11, <2>1, <2>2, <2>3, <2>4 DEF JobMeant
  <1>13. /\ scanStatus' = [scanStatus EXCEPT ![s] = "RUNNING"]
         /\ UNCHANGED <<serving, inventory, latest, import, moves, before, vague, created>>
    BY <1>11 DEF ProbeEndpoint, ScansInv, ScansTypeOK
  <1> QED
    BY <1>9, <1>10, <1>12, <1>13, ScanMovesAlone

\* A batch is lost, or the scan is cancelled.
LEMMA ScanSuffersKeeps ==
    ASSUME ScansInv, NEW s \in Scans, FlushFails(s) \/ CancelScan(s) PROVE ScansInv'
  <1>1. probing[s] \in ScanJob
    BY DEF ScansInv, ScansTypeOK
  <1>2. PICK old \in ScanJob : old = probing[s]
    BY <1>1
  <1>3. /\ old.at = "run" /\ scanStatus[s] = "RUNNING" /\ JobMeant(old, inventory)
        /\ UNCHANGED <<serving, inventory, latest, scanStatus, import, moves, before, vague, created>>
    BY <1>2 DEF FlushFails, CancelScan, ScansInv, StatusesMeant, JobsMeant
  <1>4. PICK job \in ScanJob :
           /\ probing' = [probing EXCEPT ![s] = job]
           /\ job.at = old.at /\ job.base = old.base /\ job.todo = old.todo /\ job.found = old.found
           /\ job.judged = old.judged /\ job.stored = old.stored
           /\ (job.batch = {} /\ job.failed) \/ (job.batch = old.batch /\ job.failed = old.failed)
    <2>1. CASE FlushFails(s)
      <3> DEFINE new == [old EXCEPT !.batch = {}, !.failed = TRUE]
      <3>1. /\ new \in ScanJob /\ new.at = old.at /\ new.base = old.base /\ new.todo = old.todo /\ new.found = old.found
            /\ new.judged = old.judged /\ new.stored = old.stored /\ new.batch = {} /\ new.failed
        BY DEF ScanJob
      <3>2. probing' = [probing EXCEPT ![s] = new]
        <4>1. probing' = [probing EXCEPT ![s] = [@ EXCEPT !.batch = {}, !.failed = TRUE]]
          BY <2>1 DEF FlushFails, ScansInv, ScansTypeOK
        <4> QED
          BY <4>1, <1>2 DEF ScansInv, ScansTypeOK
      <3> HIDE DEF new
      <3> QED
        BY <3>1, <3>2
    <2>2. CASE CancelScan(s)
      <3> DEFINE new == [old EXCEPT !.cancelled = TRUE]
      <3>1. /\ new \in ScanJob /\ new.at = old.at /\ new.base = old.base /\ new.todo = old.todo /\ new.found = old.found
            /\ new.judged = old.judged /\ new.stored = old.stored /\ new.batch = old.batch /\ new.failed = old.failed
        BY DEF ScanJob
      <3>2. probing' = [probing EXCEPT ![s] = new]
        BY <2>2, <1>1, <1>2 DEF CancelScan, ScansInv, ScansTypeOK, ScanJob
      <3> HIDE DEF new
      <3> QED
        BY <3>1, <3>2
    <2> QED
      BY <2>1, <2>2
  <1>5. JobMeant(job, inventory)
    BY <1>3, <1>4 DEF JobMeant
  <1>6. scanStatus' = [scanStatus EXCEPT ![s] = "RUNNING"]
    BY <1>3 DEF ScansInv, ScansTypeOK
  <1> QED
    BY <1>3, <1>4, <1>5, <1>6, ScanMovesAlone

\* A scan ends and says how, or its process dies.
LEMMA ScanEndsKeeps ==
    ASSUME ScansInv, NEW s \in Scans, FinishScan(s) \/ ScanDies(s) PROVE ScansInv'
  <1>1. probing[s] \in ScanJob
    BY DEF ScansInv, ScansTypeOK
  <1>2. PICK old \in ScanJob : old = probing[s]
    BY <1>1
  <1>3. /\ old.at = "run" /\ scanStatus[s] = "RUNNING" /\ JobMeant(old, inventory)
        /\ UNCHANGED <<serving, inventory, latest, import, moves, before, vague, created>>
    BY <1>2 DEF FinishScan, ScanDies, ScansInv, StatusesMeant, JobsMeant
  <1>4. /\ NoBaseline \in [Endpoints -> ResultRow] /\ \A e \in Endpoints : RowMeant(NoBaseline[e])
    BY DEF NoBaseline, NoResult, ResultRow, RowMeant
  <1>5. old.judged \subseteq Endpoints /\ old.stored \subseteq Endpoints
    BY DEF ScanJob
  <1>6. CASE FinishScan(s)
    <2> DEFINE job == [NoJob EXCEPT !.at = "ended", !.judged = old.judged, !.stored = old.stored]
    <2>1. job \in ScanJob /\ job.at = "ended" /\ job.base = NoBaseline /\ job.judged = old.judged /\ job.stored = old.stored
      BY <1>4, <1>5 DEF NoJob, ScanJob
    <2>2. probing' = [probing EXCEPT ![s] = job]
      BY <1>2, <1>6 DEF FinishScan
    <2> HIDE DEF job
    <2>3. JobMeant(job, inventory)
      BY <1>4, <2>1 DEF JobMeant
    <2>4. PICK status \in {"RUNNING", FinalStatus(old)} : scanStatus' = [scanStatus EXCEPT ![s] = status]
      BY <1>2, <1>3, <1>6 DEF FinishScan, ScansInv, ScansTypeOK
    <2>5. /\ status \in {"RUNNING", "COMPLETED", "CANCELLED", "FAILED"}
          /\ status \in {"COMPLETED", "CANCELLED"} => ~old.failed
          /\ status = "COMPLETED" => ~old.cancelled
      BY <2>4 DEF FinalStatus
    <2>6. (old.todo = {} \/ old.cancelled) /\ old.batch = {}
      BY <1>2, <1>6 DEF FinishScan, Finished
    <2>7. /\ status \in {"COMPLETED", "CANCELLED"} => old.stored = old.judged
          /\ status = "COMPLETED" => old.judged = Endpoints
      BY <1>3, <2>5, <2>6 DEF JobMeant
    <2> QED
      BY <1>3, <2>1, <2>2, <2>3, <2>4, <2>5, <2>7, ScanMovesAlone
  <1>7. CASE ScanDies(s)
    <2> DEFINE job == [NoJob EXCEPT !.at = "dead"]
    <2>1. job \in ScanJob /\ job.at = "dead" /\ job.base = NoBaseline
      BY <1>4 DEF NoJob, ScanJob
    <2>2. probing' = [probing EXCEPT ![s] = job]
      BY <1>7 DEF ScanDies
    <2> HIDE DEF job
    <2>3. JobMeant(job, inventory)
      BY <1>4, <2>1 DEF JobMeant
    <2>4. scanStatus' = [scanStatus EXCEPT ![s] = "RUNNING"]
      BY <1>3, <1>7 DEF ScanDies, ScansInv, ScansTypeOK
    <2> QED
      BY <1>3, <2>1, <2>2, <2>3, <2>4, ScanMovesAlone
  <1> QED
    BY <1>6, <1>7

\* A batch becomes the newest rows of its endpoints.
LEMMA FlushKeeps ==
    ASSUME ScansInv, NEW s \in Scans, FlushBatch(s) PROVE ScansInv'
  <1> USE DiscoveryAssumption
  <1>a. ScansTypeOK /\ RowsMeant /\ ImportedOnce /\ ReplacementIsReported
    BY DEF ScansInv
  <1>1. probing[s] \in ScanJob
    BY DEF ScansInv, ScansTypeOK
  <1>2. PICK old \in ScanJob : old = probing[s]
    BY <1>1
  <1>3. /\ old.at = "run" /\ scanStatus[s] = "RUNNING" /\ JobMeant(old, inventory)
        /\ latest' = [e \in Endpoints |-> IF e \in old.batch THEN old.found[e] ELSE latest[e]]
        /\ before' = [e \in Endpoints |-> IF e \in old.batch THEN latest[e] ELSE before[e]]
        /\ vague' = (vague \ old.batch) \cup {e \in old.batch : old.base[e] # latest[e]}
        /\ UNCHANGED <<serving, inventory, scanStatus, import, moves, created>>
    BY <1>2 DEF FlushBatch, ScansInv, StatusesMeant, JobsMeant
  <1>4. /\ old.base \in [Endpoints -> ResultRow] /\ old.found \in [Endpoints -> ResultRow] /\ old.batch \subseteq Endpoints
        /\ \A e \in Endpoints : RowMeant(old.base[e])
        /\ \A e \in old.batch :
              /\ RowMeant(old.found[e]) /\ old.found[e].state # "none"
              /\ old.found[e].finding = Reconcile(old.base[e], old.found[e].state, old.found[e].fp)
              /\ old.found[e].state = "MANAGED" => old.found[e].fp \in inventory
    BY <1>3 DEF JobMeant, ScanJob
  <1>5. /\ JobsMeant' /\ StatusesMeant' /\ FoundIsKept'
        /\ probing' \in [Scans -> ScanJob]
        /\ scanStatus' \in [Scans -> {"none", "RUNNING", "COMPLETED", "CANCELLED", "FAILED"}]
    <2> DEFINE job == [old EXCEPT !.batch = {}, !.stored = @ \cup old.batch]
    <2>1. /\ job \in ScanJob /\ job.at = old.at /\ job.base = old.base /\ job.todo = old.todo /\ job.batch = {}
          /\ job.judged = old.judged /\ job.stored = old.stored \cup old.batch /\ job.failed = old.failed
      BY DEF ScanJob
    <2>2. probing' = [probing EXCEPT ![s] = job]
      <3>1. probing' = [probing EXCEPT ![s] = [probing[s] EXCEPT !.batch = {}, !.stored = @ \cup probing[s].batch]]
        BY <1>a, <1>1 DEF FlushBatch, ScansTypeOK, ScanJob
      <3> QED
        BY <3>1, <1>2
    <2> HIDE DEF job
    <2>3. JobMeant(job, inventory)
      BY <1>3, <2>1 DEF JobMeant
    <2>4. scanStatus' = [scanStatus EXCEPT ![s] = "RUNNING"]
      BY <1>3 DEF ScansInv, ScansTypeOK
    <2> QED
      BY <1>3, <2>1, <2>2, <2>3, <2>4, ScanMoves
  <1>6. latest' \in [Endpoints -> ResultRow] /\ before' \in [Endpoints -> ResultRow] /\ vague' \subseteq Endpoints
    BY <1>a, <1>3, <1>4 DEF ScansTypeOK
  <1>7. \A e \in Endpoints : latest'[e] = IF e \in old.batch THEN old.found[e] ELSE latest[e]
    BY <1>3
  <1>8. \A e \in Endpoints : before'[e] = IF e \in old.batch THEN latest[e] ELSE before[e]
    BY <1>3
  <1>9. RowsMeant'
    BY <1>a, <1>4, <1>7 DEF RowsMeant
  <1>10. ScansTypeOK'
    <2>1. \A e \in Endpoints : latest'[e].state = "UNREACHABLE" => latest'[e].fp = Nil
      BY <1>9 DEF RowsMeant, RowMeant
    <2> QED
      BY <1>a, <1>3, <1>5, <1>6, <2>1 DEF ScansTypeOK
  <1>11. ImportsMeant'
    BY <1>3 DEF ScansInv, ImportsMeant
  <1>12. ImportedOnce'
    BY <1>a, <1>3, <1>4, <1>7 DEF ImportedOnce
  <1>13. ASSUME NEW e \in Endpoints \ vague', latest'[e].fp # Nil, before'[e].fp \notin {Nil, latest'[e].fp}
         PROVE  latest'[e].finding = "changed"
    <2>1. CASE e \notin old.batch
      BY <1>a, <1>3, <1>7, <1>8, <1>13, <2>1 DEF ReplacementIsReported
    <2>2. CASE e \in old.batch
      <3>1. old.base[e] = latest[e] /\ latest'[e] = old.found[e] /\ before'[e] = old.base[e]
        BY <1>3, <1>7, <1>8, <1>13, <2>2
      <3>2. old.base[e] \in ResultRow /\ RowMeant(old.base[e]) /\ RowMeant(old.found[e])
        BY <1>4, <2>2
      <3>3. old.base[e].state \notin {"none", "UNREACHABLE"} /\ old.found[e].state # "UNREACHABLE"
        BY <1>13, <3>1, <3>2 DEF RowMeant
      <3>4. Reconcile(old.base[e], old.found[e].state, old.found[e].fp) = "changed"
        BY <1>13, <3>1, <3>2, <3>3, ReconcileFinds
      <3> QED
        BY <1>4, <2>2, <3>1, <3>4
    <2> QED
      BY <2>1, <2>2
  <1>14. ReplacementIsReported'
    BY <1>13 DEF ReplacementIsReported
  <1> QED
    BY <1>5, <1>9, <1>10, <1>11, <1>12, <1>14 DEF ScansInv

\* The row that was imported reads managed from then on.
LEMMA MarkKeeps ==
    ASSUME ScansInv, NEW i \in Imports, MarkDiscoveryResultImported(i) PROVE ScansInv'
  <1> USE DiscoveryAssumption
  <1>a. ScansTypeOK /\ RowsMeant /\ ImportsMeant /\ ImportedOnce /\ ReplacementIsReported
    BY DEF ScansInv
  <1>1. PICK e \in Endpoints : e = import[i].endpoint
    BY <1>a DEF ImportsMeant, MarkDiscoveryResultImported
  <1>2. /\ import[i].fp \in inventory /\ import[i].fp # Nil
        /\ UNCHANGED <<serving, inventory, probing, scanStatus, moves, before, vague, created>>
    BY <1>a DEF ImportsMeant, MarkDiscoveryResultImported, ScansTypeOK
  <1>3. /\ latest' \in [Endpoints -> ResultRow]
        /\ \A d \in Endpoints :
              /\ latest'[d].fp = latest[d].fp /\ latest'[d].finding = latest[d].finding
              /\ \/ latest'[d].state = latest[d].state
                 \/ latest'[d].state = "MANAGED" /\ latest[d].fp \in inventory /\ latest[d].fp # Nil
    <2>1. latest[e] \in ResultRow
      BY <1>a DEF ScansTypeOK
    <2>2. CASE latest[e].fp = import[i].fp
      <3> DEFINE row == [latest[e] EXCEPT !.state = "MANAGED"]
      <3>1. row \in ResultRow /\ row.fp = latest[e].fp /\ row.finding = latest[e].finding /\ row.state = "MANAGED"
        BY <2>1 DEF ResultRow
      <3>2. latest' = [latest EXCEPT ![e] = row]
        BY <1>1, <2>2 DEF MarkDiscoveryResultImported
      <3> HIDE DEF row
      <3> QED
        BY <1>a, <1>2, <2>2, <3>1, <3>2 DEF ScansTypeOK
    <2>3. CASE latest[e].fp # import[i].fp
      BY <1>a, <1>1, <2>3 DEF MarkDiscoveryResultImported, ScansTypeOK
    <2> QED
      BY <2>2, <2>3
  <1>4. /\ import' \in [Imports -> ImportState] /\ import'[i].at = "idle"
        /\ \A j \in Imports \ {i} : import'[j] = import[j]
    BY <1>a DEF MarkDiscoveryResultImported, ScansTypeOK, NoImport, ImportState
  <1>5. RowsMeant'
    BY <1>a, <1>3 DEF RowsMeant, RowMeant
  <1>6. ScansTypeOK'
    <2>1. \A d \in Endpoints : latest'[d].state = "UNREACHABLE" => latest'[d].fp = Nil
      BY <1>5 DEF RowsMeant, RowMeant
    <2> QED
      BY <1>a, <1>2, <1>3, <1>4, <2>1 DEF ScansTypeOK
  <1>7. JobsMeant' /\ StatusesMeant' /\ FoundIsKept'
    BY <1>2 DEF ScansInv, JobsMeant, StatusesMeant, FoundIsKept
  <1>8. ImportsMeant'
    BY <1>a, <1>2, <1>4 DEF ImportsMeant
  <1>9. ImportedOnce'
    BY <1>a, <1>2, <1>3 DEF ImportedOnce
  <1>10. ReplacementIsReported'
    BY <1>a, <1>2, <1>3 DEF ReplacementIsReported
  <1> QED
    BY <1>5, <1>6, <1>7, <1>8, <1>9, <1>10 DEF ScansInv

\* A step of an endpoint, a scan or an import preserves ScansInv.
LEMMA ScansStepInv == ScansInv /\ [ScansNext]_scansVars => ScansInv'
  <1> SUFFICES ASSUME ScansInv, [ScansNext]_scansVars PROVE ScansInv'
    OBVIOUS
  <1> USE DiscoveryAssumption
  <1>a. ScansTypeOK
    BY DEF ScansInv
  <1>1. ASSUME UNCHANGED scansVars PROVE ScansInv'
    BY <1>1 DEF scansVars, ScansInv, ScansTypeOK, RowsMeant, JobsMeant, StatusesMeant, ImportsMeant,
                ImportedOnce, FoundIsKept, ReplacementIsReported
  <1>2. ASSUME NEW e \in Endpoints, NEW c \in Served \cup {Nil}, EndpointMoves(e, c) PROVE ScansInv'
    <2>1. ScansTypeOK'
      BY <1>2, <1>a DEF EndpointMoves, ScansTypeOK
    <2>2. RowsMeant' /\ JobsMeant' /\ StatusesMeant' /\ ImportsMeant' /\ ImportedOnce' /\ FoundIsKept' /\ ReplacementIsReported'
      BY <1>2 DEF EndpointMoves, ScansInv, RowsMeant, JobsMeant, StatusesMeant, ImportsMeant, ImportedOnce,
                  FoundIsKept, ReplacementIsReported
    <2> QED
      BY <2>1, <2>2 DEF ScansInv
  <1>3. ASSUME NEW c \in Served, ManagedElsewhere(c) PROVE ScansInv'
    <2>1. import' \in [Imports -> ImportState] /\ \A i \in Imports : import'[i] = import[i]
      BY <1>3, <1>a DEF ManagedElsewhere, ScansTypeOK
    <2> QED
      BY <1>3, <2>1, InventoryGrows DEF ManagedElsewhere
  <1>4. ASSUME NEW s \in Scans, StartScan(s) \/ ScanStep(s) \/ CancelScan(s) \/ ScanDies(s) PROVE ScansInv'
    BY <1>4, StartScanKeeps, ProbeKeeps, ScanSuffersKeeps, ScanEndsKeeps, FlushKeeps DEF ScanStep
  <1>5. ASSUME NEW i \in Imports, NEW e \in Endpoints, ImportResult(i, e) PROVE ScansInv'
    <2>0. latest[e].fp \in Served
      BY <1>5, <1>a DEF ImportResult, ScansTypeOK, ResultRow
    <2> DEFINE state == [at |-> IF latest[e].fp \in inventory THEN "mark" ELSE "create", endpoint |-> e, fp |-> latest[e].fp]
    <2>1. /\ state \in ImportState /\ state.endpoint = e /\ state.fp = latest[e].fp
          /\ state.at = "mark" => latest[e].fp \in inventory
      BY <2>0 DEF ImportState
    <2>2. /\ import' = [import EXCEPT ![i] = state]
          /\ UNCHANGED <<serving, inventory, latest, probing, scanStatus, moves, before, vague, created>>
      BY <1>5 DEF ImportResult
    <2>3. PICK t \in ImportState : t = state
      BY <2>1
    <2> HIDE DEF state
    <2> QED
      BY <2>0, <2>1, <2>2, <2>3, ImportMoves
  <1>6. ASSUME NEW i \in Imports, CreateImported(i) PROVE ScansInv'
    <2>0. import[i] \in ImportState /\ import[i].at = "create" /\ import[i].fp \in Served
      BY <1>6, <1>a DEF CreateImported, ScansInv, ImportsMeant, ScansTypeOK
    <2>1. CASE NotManaged(import[i].fp)
      <3>1. PICK c \in Served : c = import[i].fp
        BY <2>0
      <3>2. /\ c \notin inventory /\ inventory' = inventory \cup {c} /\ created' = [created EXCEPT ![c] = @ + 1]
            /\ UNCHANGED <<serving, latest, probing, scanStatus, moves, before, vague>>
        BY <1>6, <2>1, <3>1 DEF CreateImported, NotManaged
      <3>3. /\ import' \in [Imports -> ImportState]
            /\ import'[i].endpoint = import[i].endpoint /\ import'[i].fp = import[i].fp
            /\ \A j \in Imports \ {i} : import'[j] = import[j]
        BY <1>6, <1>a, <2>0, <2>1 DEF CreateImported, ImportState, ScansTypeOK
      <3> QED
        BY <2>0, <3>1, <3>2, <3>3, InventoryGrows
    <2>2. CASE ~NotManaged(import[i].fp)
      <3>1. NoImport \in ImportState /\ NoImport.at = "idle"
        BY DEF NoImport, ImportState
      <3>2. /\ import' = [import EXCEPT ![i] = NoImport]
            /\ UNCHANGED <<serving, inventory, latest, probing, scanStatus, moves, before, vague, created>>
        BY <1>6, <2>2 DEF CreateImported
      <3> QED
        BY <3>1, <3>2, ImportMoves
    <2> QED
      BY <2>1, <2>2
  <1>7. ASSUME NEW i \in Imports, ImportLost(i) PROVE ScansInv'
    <2>1. NoImport \in ImportState /\ NoImport.at = "idle"
      BY DEF NoImport, ImportState
    <2> QED
      BY <1>7, <2>1, ImportMoves DEF ImportLost
  <1> QED
    BY <1>1, <1>2, <1>3, <1>4, <1>5, <1>6, <1>7, MarkKeeps DEF ScansNext

-----------------------------------------------------------------------------
(* The fleet.                                                              *)

\* A signature that was accepted has its row until its window has closed.
SignatureKept == \A r \in SignedRequests : signature[r].used # 0 => signature[r].row \/ signature[r].closed

\* A row that does not exist was enrolled by no token, and an enrolment that
\* is under way has one.
FleetMeant ==
    /\ \A a \in Agents : agent[a].status = "none" => agent[a].by = Nil
    /\ \A e \in Enrolments : enrolment[e].at # "idle" => enrolment[e].token \in EnrolTokens

EnrolledBy(t) == {a \in Agents : agent[a].by = t}
SpendingOf(t) == {e \in Enrolments : enrolment[e].at = "create" /\ enrolment[e].token = t}

\* The replicas that have read a host as quiet and will still announce it.
ToldBy(a) == {m \in Monitors : a \in sweep[m]}

\* A silence that was announced is marked, so that only replicas that have
\* read it before announce it as well.
ToldWithinReplicas(a) ==
    /\ told[a] + Cardinality(ToldBy(a)) <= Cardinality(Monitors)
    /\ agent[a].status # "none" /\ told[a] # 0 => agent[a].alerted

StormBounded == \A a \in Agents : ToldWithinReplicas(a)

\* One sweep at a time has read a host as quiet, unless two overlapped, and once
\* it has announced the host no sweep will.
ToldOnce(a) ==
    a \notin sweptTwice =>
        ~SweptByTwo(a) /\ told[a] <= 1 /\ (told[a] # 0 => \A m \in Monitors : a \notin sweep[m])

OneAtATime == \A a \in Agents : ToldOnce(a)

FleetInv ==
    /\ FleetTypeOK /\ SignatureKept /\ RequestAcceptedOnce
    /\ FleetMeant /\ TokenWithinUses /\ StormBounded /\ OneAtATime

\* A part of a finite set has fewer elements, or as many.
LEMMA PartCounts ==
    ASSUME NEW S, IsFiniteSet(S), NEW T \in SUBSET S
    PROVE  IsFiniteSet(T) /\ Cardinality(T) \in Nat /\ Cardinality(S) \in Nat /\ Cardinality(T) <= Cardinality(S)
  BY FS_Subset, FS_CardinalityType

\* TokenWithinUses for one token.
WithinUses(t) ==
    Cardinality(EnrolledBy(t)) + Cardinality(SpendingOf(t)) <= token[t].uses /\ token[t].uses <= MaxUses[t]

LEMMA TokenWithinUsesEach == TokenWithinUses <=> \A t \in EnrolTokens : WithinUses(t)
  BY DEF TokenWithinUses, WithinUses, EnrolledBy, SpendingOf

\* FleetInv holds before the first host enrols.
LEMMA FleetInitInv == FleetInit => FleetInv
  <1> SUFFICES ASSUME FleetInit PROVE FleetInv
    OBVIOUS
  <1> USE FleetAssumption DEF FleetInit
  <1>1. FleetTypeOK
    BY DEF FleetTypeOK, TokenRow, AgentRow, EnrolmentState, SignatureState, NoAgent, NoEnrolment
  <1>2. SignatureKept /\ RequestAcceptedOnce
    BY DEF SignatureKept, RequestAcceptedOnce
  <1>3. FleetMeant
    BY DEF FleetMeant, NoAgent, NoEnrolment
  <1>4. ASSUME NEW t \in EnrolTokens PROVE WithinUses(t)
    <2>1. EnrolledBy(t) = {} /\ SpendingOf(t) = {}
      BY DEF EnrolledBy, SpendingOf, NoAgent, NoEnrolment
    <2>2. Cardinality({}) = 0
      BY FS_EmptySet
    <2>3. token[t].uses = 0 /\ MaxUses[t] \in Nat
      OBVIOUS
    <2> QED
      BY <2>1, <2>2, <2>3 DEF WithinUses
  <1>5. StormBounded
    <2>1. ASSUME NEW a \in Agents PROVE ToldBy(a) = {} /\ told[a] = 0
      BY DEF ToldBy
    <2>2. Cardinality({}) = 0 /\ Cardinality(Monitors) \in Nat
      BY FS_EmptySet, FS_CardinalityType
    <2> HIDE DEF FleetInit
    <2>3. ASSUME NEW a \in Agents PROVE told[a] + Cardinality(ToldBy(a)) <= Cardinality(Monitors)
      BY <2>1, <2>2
    <2> QED
      BY <2>1, <2>3 DEF StormBounded, ToldWithinReplicas
  <1>6. OneAtATime
    BY DEF OneAtATime, ToldOnce, SweptByTwo
  <1> QED
    BY <1>1, <1>2, <1>3, <1>4, <1>5, <1>6, TokenWithinUsesEach DEF FleetInv

\* The replay guard: a row is swept only when the signature no longer
\* verifies, so that no signature is fresh twice.
LEMMA FleetStepSignatures ==
    ASSUME FleetInv, [FleetNext]_fleetVars
    PROVE  signature' \in [SignedRequests -> SignatureState] /\ SignatureKept' /\ RequestAcceptedOnce'
  <1> USE DEF FleetInv
  <1>a. signature \in [SignedRequests -> SignatureState]
    BY DEF FleetTypeOK
  <1>1. CASE UNCHANGED signature
    BY <1>1, <1>a DEF SignatureKept, RequestAcceptedOnce
  <1>2. ASSUME NEW r \in SignedRequests, ClaimAgentRequestSignature(r)
        PROVE  signature' \in [SignedRequests -> SignatureState] /\ SignatureKept' /\ RequestAcceptedOnce'
    <2>0. signature[r] \in SignatureState
      BY <1>a
    <2>a. PICK n \in {0, 1} : n = (IF Fresh(r) THEN 1 ELSE 0)
      OBVIOUS
    <2>b. signature[r].used \in Nat /\ signature[r].used <= 1 /\ (n = 1 => signature[r].used = 0)
      BY <2>0, <2>a, <1>2 DEF SignatureState, SignatureKept, RequestAcceptedOnce, Fresh, ClaimAgentRequestSignature
    <2>c. PICK m \in Nat : m = signature[r].used + n /\ m <= 1
      BY <2>b
    <2> DEFINE s == [signature[r] EXCEPT !.row = TRUE, !.used = m]
    <2>1. s \in SignatureState /\ s.row /\ s.used <= 1
      BY <2>0, <2>c DEF SignatureState
    <2>2. signature' = [signature EXCEPT ![r] = s]
      BY <1>2, <2>0, <2>a, <2>c DEF ClaimAgentRequestSignature, SignatureState
    <2> HIDE DEF s
    <2>3. /\ signature' \in [SignedRequests -> SignatureState] /\ signature'[r] = s
          /\ \A q \in SignedRequests \ {r} : signature'[q] = signature[q]
      BY <1>a, <2>1, <2>2
    <2> QED
      BY <2>1, <2>3 DEF SignatureKept, RequestAcceptedOnce
  <1>3. ASSUME NEW r \in SignedRequests, WindowCloses(r)
        PROVE  signature' \in [SignedRequests -> SignatureState] /\ SignatureKept' /\ RequestAcceptedOnce'
    <2>1. /\ signature' \in [SignedRequests -> SignatureState] /\ signature'[r].closed
          /\ signature'[r].used = signature[r].used
          /\ \A q \in SignedRequests \ {r} : signature'[q] = signature[q]
      BY <1>3, <1>a DEF WindowCloses, SignatureState
    <2> QED
      BY <2>1 DEF SignatureKept, RequestAcceptedOnce
  <1>4. ASSUME SweepAgentRequestSignatures
        PROVE  signature' \in [SignedRequests -> SignatureState] /\ SignatureKept' /\ RequestAcceptedOnce'
    <2>1. ASSUME NEW r \in SignedRequests
          PROVE  /\ signature'[r] \in SignatureState /\ signature'[r].used = signature[r].used
                 /\ signature'[r].closed = signature[r].closed
                 /\ signature'[r].row = signature[r].row \/ signature[r].closed
      <3>1. signature[r] \in SignatureState
        BY <1>a
      <3>2. CASE r \in SweptSignatures
        <4>1. signature'[r] = [signature[r] EXCEPT !.row = FALSE] /\ signature[r].closed
          BY <1>4, <3>2 DEF SweepAgentRequestSignatures, SweptSignatures
        <4> QED
          BY <3>1, <4>1 DEF SignatureState
      <3>3. CASE r \notin SweptSignatures
        <4>1. signature'[r] = signature[r]
          BY <1>4, <3>3 DEF SweepAgentRequestSignatures
        <4> QED
          BY <3>1, <4>1
      <3> QED
        BY <3>2, <3>3
    <2>2. signature' \in [SignedRequests -> SignatureState]
      BY <1>4, <2>1 DEF SweepAgentRequestSignatures
    <2> QED
      BY <2>1, <2>2 DEF SignatureKept, RequestAcceptedOnce
  <1> QED
    BY <1>1, <1>2, <1>3, <1>4 DEF FleetNext, fleetVars, Enrol, ConsumeAgentEnrolToken, EnrolmentLost, CreateAgent,
       RevokeAgentEnrolToken, TokenExpires, RecordAgentHeartbeat, GoesQuiet, RevokeAgent, DeleteAgent, MonitorStep,
       GetStaleAgents, MarkAgentStaleAlerted, SweepEnds

\* The rows keep their types, and rows that go take the token they came from
\* with them.
LEMMA FleetStepRows ==
    ASSUME FleetInv, [FleetNext]_fleetVars
    PROVE  FleetTypeOK' /\ FleetMeant'
  <1> USE FleetAssumption DEF FleetInv
  <1>s. signature' \in [SignedRequests -> SignatureState]
    BY FleetStepSignatures
  <1>w. sweptTwice' \subseteq Agents
    <2>1. sweptTwice \subseteq Agents /\ \A a \in Agents : StillSweptTwice(a) \subseteq Agents
      BY DEF FleetTypeOK, StillSweptTwice
    <2> QED
      BY <2>1 DEF FleetNext, fleetVars, Enrol, ConsumeAgentEnrolToken, EnrolmentLost, CreateAgent,
         RevokeAgentEnrolToken, TokenExpires, RecordAgentHeartbeat, GoesQuiet, RevokeAgent, DeleteAgent, MonitorStep,
         GetStaleAgents, MarkAgentStaleAlerted, SweepEnds, ClaimAgentRequestSignature, WindowCloses,
         SweepAgentRequestSignatures
  <1>a. FleetTypeOK /\ FleetMeant
    OBVIOUS
  <1>b. ASSUME NEW a \in Agents PROVE agent[a] \in AgentRow
    BY <1>a DEF FleetTypeOK
  <1>c. ASSUME NEW a \in Agents, NEW row \in AgentRow, row.status # "none" => row.by # Nil, row.status = "none" => row.by = Nil,
               agent' = [agent EXCEPT ![a] = row]
        PROVE  /\ agent' \in [Agents -> AgentRow]
               /\ \A x \in Agents : agent'[x].status # "none" => agent'[x].by # Nil
               /\ \A x \in Agents : agent'[x].status = "none" => agent'[x].by = Nil
    <2>1. agent' \in [Agents -> AgentRow] /\ agent'[a] = row /\ \A x \in Agents \ {a} : agent'[x] = agent[x]
      BY <1>a, <1>c DEF FleetTypeOK
    <2> QED
      BY <1>a, <1>w, <1>c, <2>1 DEF FleetTypeOK, FleetMeant
  <1>d. /\ agent \in [Agents -> AgentRow]
        /\ \A x \in Agents : agent[x].status # "none" => agent[x].by # Nil
        /\ \A x \in Agents : agent[x].status = "none" => agent[x].by = Nil
    BY <1>a, <1>w DEF FleetTypeOK, FleetMeant
  <1>e. NoEnrolment \in EnrolmentState /\ NoEnrolment.at = "idle"
    BY DEF NoEnrolment, EnrolmentState
  <1>1. ASSUME UNCHANGED <<token, agent, enrolment, sweep, silences, told, brushed>> PROVE FleetTypeOK' /\ FleetMeant'
    BY <1>1, <1>a, <1>w, <1>s DEF FleetTypeOK, FleetMeant
  <1>2. ASSUME NEW e \in Enrolments, NEW t \in EnrolTokens, Enrol(e, t) PROVE FleetTypeOK' /\ FleetMeant'
    <2>1. [at |-> "consume", token |-> t] \in EnrolmentState
      BY DEF EnrolmentState
    <2> QED
      BY <1>2, <1>a, <1>w, <1>s, <2>1 DEF Enrol, FleetTypeOK, FleetMeant
  <1>3. ASSUME NEW e \in Enrolments, ConsumeAgentEnrolToken(e) PROVE FleetTypeOK' /\ FleetMeant'
    <2>0. /\ enrolment[e] \in EnrolmentState /\ enrolment[e].at = "consume" /\ enrolment[e].token \in EnrolTokens
          /\ UNCHANGED <<agent, sweep, signature, silences, told, brushed>>
      BY <1>3, <1>a, <1>w DEF ConsumeAgentEnrolToken, FleetTypeOK, FleetMeant
    <2>1. token' \in [EnrolTokens -> TokenRow]
      <3>1. CASE Spendable(enrolment[e].token)
        <4>1. token[enrolment[e].token] \in TokenRow
          BY <1>a, <2>0 DEF FleetTypeOK
        <4> QED
          BY <1>3, <1>a, <2>0, <3>1, <4>1 DEF ConsumeAgentEnrolToken, FleetTypeOK, TokenRow
      <3>2. CASE ~Spendable(enrolment[e].token)
        BY <1>3, <1>a, <3>2 DEF ConsumeAgentEnrolToken, FleetTypeOK
      <3> QED
        BY <3>1, <3>2
    <2>2. /\ enrolment' \in [Enrolments -> EnrolmentState]
          /\ enrolment'[e].at # "idle" => enrolment'[e].token \in EnrolTokens
          /\ \A d \in Enrolments \ {e} : enrolment'[d] = enrolment[d]
      <3>1. CASE Spendable(enrolment[e].token)
        BY <1>3, <1>a, <2>0, <3>1 DEF ConsumeAgentEnrolToken, FleetTypeOK, EnrolmentState
      <3>2. CASE ~Spendable(enrolment[e].token)
        BY <1>3, <1>a, <1>e, <3>2 DEF ConsumeAgentEnrolToken, FleetTypeOK
      <3> QED
        BY <3>1, <3>2
    <2> QED
      BY <1>a, <1>w, <2>0, <2>1, <2>2 DEF FleetTypeOK, FleetMeant
  <1>4. ASSUME NEW e \in Enrolments, EnrolmentLost(e) PROVE FleetTypeOK' /\ FleetMeant'
    BY <1>4, <1>a, <1>w, <1>e DEF EnrolmentLost, FleetTypeOK, FleetMeant
  <1>5. ASSUME NEW e \in Enrolments, NEW a \in Agents, CreateAgent(e, a) PROVE FleetTypeOK' /\ FleetMeant'
    <2>0. PICK t \in EnrolTokens : t = enrolment[e].token
      BY <1>5, <1>a DEF CreateAgent, FleetMeant
    <2>1. EnrolledRow(t) \in AgentRow /\ EnrolledRow(t).status = "ACTIVE" /\ EnrolledRow(t).by = t
      BY DEF EnrolledRow, NoAgent, AgentRow
    <2>2. agent' = [agent EXCEPT ![a] = EnrolledRow(t)]
      BY <1>5, <2>0 DEF CreateAgent
    <2>3. /\ agent' \in [Agents -> AgentRow]
          /\ \A x \in Agents : agent'[x].status # "none" => agent'[x].by # Nil
          /\ \A x \in Agents : agent'[x].status = "none" => agent'[x].by = Nil
      BY <1>c, <2>1, <2>2
    <2>4. /\ enrolment' = [enrolment EXCEPT ![e] = NoEnrolment] /\ told' = [told EXCEPT ![a] = 0]
          /\ UNCHANGED <<token, sweep, signature, silences, brushed>>
      BY <1>5 DEF CreateAgent
    <2> QED
      BY <1>a, <1>w, <1>e, <2>3, <2>4 DEF FleetTypeOK, FleetMeant
  <1>6. ASSUME NEW t \in EnrolTokens, RevokeAgentEnrolToken(t) \/ TokenExpires(t) PROVE FleetTypeOK' /\ FleetMeant'
    <2>0. token[t] \in TokenRow
      BY <1>a DEF FleetTypeOK
    <2>1. token' \in [EnrolTokens -> TokenRow]
      <3>1. CASE RevokeAgentEnrolToken(t)
        BY <1>a, <2>0, <3>1 DEF RevokeAgentEnrolToken, FleetTypeOK, TokenRow
      <3>2. CASE TokenExpires(t)
        BY <1>a, <2>0, <3>2 DEF TokenExpires, FleetTypeOK, TokenRow
      <3> QED
        BY <1>6, <3>1, <3>2
    <2>2. UNCHANGED <<agent, enrolment, sweep, signature, silences, told, brushed>>
      BY <1>6 DEF RevokeAgentEnrolToken, TokenExpires
    <2> QED
      BY <1>a, <1>w, <2>1, <2>2 DEF FleetTypeOK, FleetMeant
  <1>7. ASSUME NEW a \in Agents, RecordAgentHeartbeat(a) \/ GoesQuiet(a) \/ RevokeAgent(a) \/ DeleteAgent(a)
        PROVE  FleetTypeOK' /\ FleetMeant'
    <2>1. PICK row \in AgentRow : /\ agent' = [agent EXCEPT ![a] = row]
                                  /\ row.status # "none" => row.by # Nil
                                  /\ row.status = "none" => row.by = Nil
      <3>1. CASE DeleteAgent(a)
        <4>1. NoAgent \in AgentRow /\ NoAgent.status = "none" /\ NoAgent.by = Nil
          BY DEF NoAgent, AgentRow
        <4> QED
          BY <3>1, <4>1 DEF DeleteAgent
      <3>2. CASE RecordAgentHeartbeat(a)
        <4>1. /\ HeardRow(a) \in AgentRow /\ HeardRow(a).status = agent[a].status /\ HeardRow(a).by = agent[a].by
          BY <1>b DEF HeardRow, AgentRow
        <4>2. agent' = [agent EXCEPT ![a] = HeardRow(a)]
          BY <3>2 DEF RecordAgentHeartbeat
        <4> QED
          BY <1>d, <4>1, <4>2
      <3>3. CASE GoesQuiet(a)
        <4> DEFINE row == [agent[a] EXCEPT !.quiet = TRUE]
        <4>1. row \in AgentRow /\ row.status = agent[a].status /\ row.by = agent[a].by
          BY <1>b DEF AgentRow
        <4>2. agent' = [agent EXCEPT ![a] = row]
          BY <3>3 DEF GoesQuiet
        <4> HIDE DEF row
        <4> QED
          BY <1>d, <4>1, <4>2
      <3>4. CASE RevokeAgent(a)
        <4> DEFINE row == [agent[a] EXCEPT !.status = "REVOKED"]
        <4>1. row \in AgentRow /\ row.status = "REVOKED" /\ row.by = agent[a].by
          BY <1>b DEF AgentRow
        <4>2. agent' = [agent EXCEPT ![a] = row] /\ agent[a].status = "ACTIVE"
          BY <3>4 DEF RevokeAgent
        <4> HIDE DEF row
        <4> QED
          BY <1>d, <4>1, <4>2
      <3> QED
        BY <1>7, <3>1, <3>2, <3>3, <3>4
    <2>2. /\ agent' \in [Agents -> AgentRow]
          /\ \A x \in Agents : agent'[x].status # "none" => agent'[x].by # Nil
          /\ \A x \in Agents : agent'[x].status = "none" => agent'[x].by = Nil
      BY <1>c, <2>1
    <2>3. /\ UNCHANGED <<token, enrolment, sweep, signature>>
          /\ told' \in [Agents -> Nat] /\ brushed' \subseteq Agents /\ silences' \in 0..MaxSilences
      BY <1>7, <1>a DEF RecordAgentHeartbeat, GoesQuiet, RevokeAgent, DeleteAgent, FleetTypeOK
    <2> QED
      BY <1>a, <1>w, <2>2, <2>3 DEF FleetTypeOK, FleetMeant
  <1>8. ASSUME NEW m \in Monitors, NEW a \in Agents, MarkAgentStaleAlerted(m, a) PROVE FleetTypeOK' /\ FleetMeant'
    <2>1. /\ agent' \in [Agents -> AgentRow]
          /\ \A x \in Agents : agent'[x].status # "none" => agent'[x].by # Nil
          /\ \A x \in Agents : agent'[x].status = "none" => agent'[x].by = Nil
      <3>1. CASE agent[a].status = "none"
        BY <1>8, <1>d, <3>1 DEF MarkAgentStaleAlerted
      <3>2. CASE agent[a].status # "none"
        <4> DEFINE row == [agent[a] EXCEPT !.alerted = TRUE]
        <4>1. row \in AgentRow /\ row.status = agent[a].status /\ row.by = agent[a].by
          BY <1>b DEF AgentRow
        <4>2. agent' = [agent EXCEPT ![a] = row]
          BY <1>8, <3>2 DEF MarkAgentStaleAlerted
        <4>3. row.status # "none" /\ row.by # Nil
          BY <1>d, <3>2, <4>1
        <4>4. PICK new \in AgentRow : new = row
          BY <4>1
        <4> HIDE DEF row
        <4> QED
          BY <1>c, <4>2, <4>3, <4>4
      <3> QED
        BY <3>1, <3>2
    <2>2. /\ sweep' \in [Monitors -> SUBSET Agents] /\ told' \in [Agents -> Nat] /\ brushed' \subseteq Agents
          /\ UNCHANGED <<token, enrolment, signature, silences>>
      BY <1>8, <1>a DEF MarkAgentStaleAlerted, FleetTypeOK
    <2> QED
      BY <1>a, <1>w, <2>1, <2>2 DEF FleetTypeOK, FleetMeant
  <1>9. ASSUME NEW m \in Monitors, GetStaleAgents(m) \/ SweepEnds(m) PROVE FleetTypeOK' /\ FleetMeant'
    <2>1. sweep' \in [Monitors -> SUBSET Agents] /\ UNCHANGED <<token, agent, enrolment, signature, silences, told, brushed>>
      BY <1>9, <1>a DEF GetStaleAgents, SweepEnds, FleetTypeOK
    <2> QED
      BY <1>a, <1>w, <2>1 DEF FleetTypeOK, FleetMeant
  <1>10. UNCHANGED fleetVars => UNCHANGED <<token, agent, enrolment, sweep, silences, told, brushed>>
    BY DEF fleetVars
  <1>11. ASSUME NEW r \in SignedRequests, ClaimAgentRequestSignature(r) \/ WindowCloses(r) PROVE FleetTypeOK' /\ FleetMeant'
    BY <1>1, <1>11 DEF ClaimAgentRequestSignature, WindowCloses
  <1>12. ASSUME SweepAgentRequestSignatures PROVE FleetTypeOK' /\ FleetMeant'
    BY <1>1, <1>12 DEF SweepAgentRequestSignatures
  <1> QED
    BY <1>1, <1>2, <1>3, <1>4, <1>5, <1>6, <1>7, <1>8, <1>9, <1>10, <1>11, <1>12 DEF FleetNext, MonitorStep

\* A token of which no more is held than before, and whose uses are as they
\* were, is still within its uses.
LEMMA WithinUsesKept ==
    ASSUME NEW t \in EnrolTokens, WithinUses(t),
           EnrolledBy(t)' \subseteq EnrolledBy(t), SpendingOf(t)' \subseteq SpendingOf(t),
           token[t].uses \in Nat, token'[t].uses = token[t].uses
    PROVE  WithinUses(t)'
  <1> USE FleetAssumption
  <1>1. IsFiniteSet(EnrolledBy(t)) /\ IsFiniteSet(SpendingOf(t))
    <2>1. EnrolledBy(t) \in SUBSET Agents /\ SpendingOf(t) \in SUBSET Enrolments
      BY DEF EnrolledBy, SpendingOf
    <2> QED
      BY <2>1, PartCounts
  <1>2. /\ Cardinality(EnrolledBy(t)) \in Nat /\ Cardinality(EnrolledBy(t)') \in Nat
        /\ Cardinality(EnrolledBy(t)') <= Cardinality(EnrolledBy(t))
    BY <1>1, PartCounts
  <1>3. /\ Cardinality(SpendingOf(t)) \in Nat /\ Cardinality(SpendingOf(t)') \in Nat
        /\ Cardinality(SpendingOf(t)') <= Cardinality(SpendingOf(t))
    BY <1>1, PartCounts
  <1> QED
    BY <1>2, <1>3 DEF WithinUses

\* A use is counted before a row is made for it, and the row takes the place
\* of the enrolment that made it.
LEMMA FleetStepTokens ==
    ASSUME FleetInv, [FleetNext]_fleetVars
    PROVE  TokenWithinUses'
  <1> USE FleetAssumption
  <1>a. FleetTypeOK /\ FleetMeant /\ FleetTypeOK' /\ \A t \in EnrolTokens : WithinUses(t)
    BY FleetStepRows, TokenWithinUsesEach DEF FleetInv
  <1>b. ASSUME NEW t \in EnrolTokens PROVE token[t].uses \in Nat /\ MaxUses[t] \in Nat
    BY <1>a DEF FleetTypeOK, TokenRow
  <1>c. ASSUME NEW t \in EnrolTokens
        PROVE  /\ IsFiniteSet(EnrolledBy(t)) /\ Cardinality(EnrolledBy(t)) \in Nat
               /\ IsFiniteSet(SpendingOf(t)) /\ Cardinality(SpendingOf(t)) \in Nat
    <2>1. EnrolledBy(t) \in SUBSET Agents /\ SpendingOf(t) \in SUBSET Enrolments
      BY DEF EnrolledBy, SpendingOf
    <2> QED
      BY <2>1, PartCounts
  <1>1. ASSUME \A t \in EnrolTokens : /\ EnrolledBy(t)' \subseteq EnrolledBy(t)
                                      /\ SpendingOf(t)' \subseteq SpendingOf(t)
                                      /\ token'[t].uses = token[t].uses
        PROVE  \A t \in EnrolTokens : WithinUses(t)'
    BY <1>1, <1>a, <1>b, WithinUsesKept
  <1>2. ASSUME NEW e \in Enrolments, NEW t \in EnrolTokens, Enrol(e, t) PROVE \A u \in EnrolTokens : WithinUses(u)'
    <2>1. ASSUME NEW u \in EnrolTokens PROVE EnrolledBy(u)' \subseteq EnrolledBy(u) /\ SpendingOf(u)' \subseteq SpendingOf(u)
      BY <1>2, <1>a DEF Enrol, EnrolledBy, SpendingOf, FleetTypeOK
    <2> QED
      BY <1>1, <1>2, <2>1 DEF Enrol
  <1>3. ASSUME NEW e \in Enrolments, ConsumeAgentEnrolToken(e) PROVE \A u \in EnrolTokens : WithinUses(u)'
    <2>0. PICK t \in EnrolTokens : t = enrolment[e].token
      BY <1>3, <1>a DEF ConsumeAgentEnrolToken, FleetMeant
    <2>a. enrolment[e] \in EnrolmentState /\ enrolment[e].at = "consume" /\ UNCHANGED agent
      BY <1>3, <1>a DEF ConsumeAgentEnrolToken, FleetTypeOK
    <2>1. CASE ~Spendable(t)
      <3>1. UNCHANGED token /\ enrolment' = [enrolment EXCEPT ![e] = NoEnrolment]
        BY <1>3, <2>0, <2>1 DEF ConsumeAgentEnrolToken
      <3>2. ASSUME NEW u \in EnrolTokens PROVE EnrolledBy(u)' \subseteq EnrolledBy(u) /\ SpendingOf(u)' \subseteq SpendingOf(u)
        BY <1>a, <2>a, <3>1 DEF EnrolledBy, SpendingOf, FleetTypeOK, NoEnrolment
      <3> QED
        BY <1>1, <3>1, <3>2
    <2>2. CASE Spendable(t)
      <3>0. token' = [token EXCEPT ![t].uses = @ + 1] /\ enrolment' = [enrolment EXCEPT ![e].at = "create"]
        BY <1>3, <2>0, <2>2 DEF ConsumeAgentEnrolToken
      <3>1. /\ token'[t].uses = token[t].uses + 1 /\ token[t].uses < MaxUses[t]
            /\ \A u \in EnrolTokens \ {t} : token'[u] = token[u]
        BY <1>a, <2>2, <3>0 DEF Spendable, FleetTypeOK, TokenRow
      <3>2. /\ enrolment'[e].at = "create" /\ enrolment'[e].token = t
            /\ \A d \in Enrolments \ {e} : enrolment'[d] = enrolment[d]
        BY <1>a, <2>0, <2>a, <3>0 DEF FleetTypeOK, EnrolmentState
      <3>3. \A u \in EnrolTokens : EnrolledBy(u)' = EnrolledBy(u)
        BY <2>a DEF EnrolledBy
      <3>4. SpendingOf(t)' = SpendingOf(t) \cup {e} /\ e \notin SpendingOf(t)
        BY <2>a, <3>2 DEF SpendingOf
      <3>5. WithinUses(t)'
        <4>1. Cardinality(SpendingOf(t)') = Cardinality(SpendingOf(t)) + 1
          BY <1>c, <3>4, FS_AddElement
        <4> QED
          BY <1>a, <1>b, <1>c, <3>1, <3>3, <4>1 DEF WithinUses
      <3>6. ASSUME NEW u \in EnrolTokens, u # t PROVE WithinUses(u)'
        <4>1. SpendingOf(u)' \subseteq SpendingOf(u)
          BY <3>2, <3>6 DEF SpendingOf
        <4> QED
          BY <1>a, <1>b, <3>1, <3>3, <3>6, <4>1, WithinUsesKept
      <3> QED
        BY <3>5, <3>6
    <2> QED
      BY <2>1, <2>2
  <1>4. ASSUME NEW e \in Enrolments, EnrolmentLost(e) PROVE \A u \in EnrolTokens : WithinUses(u)'
    <2>1. ASSUME NEW u \in EnrolTokens PROVE EnrolledBy(u)' \subseteq EnrolledBy(u) /\ SpendingOf(u)' \subseteq SpendingOf(u)
      BY <1>4, <1>a DEF EnrolmentLost, EnrolledBy, SpendingOf, FleetTypeOK, NoEnrolment
    <2> QED
      BY <1>1, <1>4, <2>1 DEF EnrolmentLost
  <1>5. ASSUME NEW e \in Enrolments, NEW a \in Agents, CreateAgent(e, a) PROVE \A u \in EnrolTokens : WithinUses(u)'
    <2>0. PICK t \in EnrolTokens : t = enrolment[e].token
      BY <1>5, <1>a DEF CreateAgent, FleetMeant
    <2>1. /\ agent[a].by = Nil /\ agent'[a].by = t /\ \A x \in Agents \ {a} : agent'[x] = agent[x]
          /\ UNCHANGED token
      BY <1>5, <1>a, <2>0 DEF CreateAgent, FleetTypeOK, FleetMeant, EnrolledRow, NoAgent
    <2>2. /\ enrolment[e].at = "create" /\ enrolment'[e].at = "idle" /\ \A d \in Enrolments \ {e} : enrolment'[d] = enrolment[d]
      BY <1>5, <1>a DEF CreateAgent, FleetTypeOK, NoEnrolment
    <2>3. EnrolledBy(t)' = EnrolledBy(t) \cup {a} /\ a \notin EnrolledBy(t)
      BY <2>1 DEF EnrolledBy
    <2>4. SpendingOf(t)' = SpendingOf(t) \ {e} /\ e \in SpendingOf(t)
      BY <2>0, <2>2 DEF SpendingOf
    <2>5. WithinUses(t)'
      <3>1. Cardinality(EnrolledBy(t)') = Cardinality(EnrolledBy(t)) + 1
        BY <1>c, <2>3, FS_AddElement
      <3>2. Cardinality(SpendingOf(t)') = Cardinality(SpendingOf(t)) - 1
        BY <1>c, <2>4, FS_RemoveElement
      <3> QED
        BY <1>a, <1>b, <1>c, <2>1, <3>1, <3>2 DEF WithinUses
    <2>6. ASSUME NEW u \in EnrolTokens, u # t PROVE WithinUses(u)'
      <3>1. EnrolledBy(u)' \subseteq EnrolledBy(u) /\ SpendingOf(u)' \subseteq SpendingOf(u)
        BY <2>1, <2>2, <2>6 DEF EnrolledBy, SpendingOf
      <3> QED
        BY <1>a, <1>b, <2>1, <3>1, WithinUsesKept
    <2> QED
      BY <2>5, <2>6
  <1>6. ASSUME NEW t \in EnrolTokens, RevokeAgentEnrolToken(t) \/ TokenExpires(t) PROVE \A u \in EnrolTokens : WithinUses(u)'
    <2>1. ASSUME NEW u \in EnrolTokens
          PROVE  EnrolledBy(u)' = EnrolledBy(u) /\ SpendingOf(u)' = SpendingOf(u) /\ token'[u].uses = token[u].uses
      <3>1. CASE RevokeAgentEnrolToken(t)
        BY <1>a, <3>1 DEF RevokeAgentEnrolToken, FleetTypeOK, TokenRow, EnrolledBy, SpendingOf
      <3>2. CASE TokenExpires(t)
        BY <1>a, <3>2 DEF TokenExpires, FleetTypeOK, TokenRow, EnrolledBy, SpendingOf
      <3> QED
        BY <1>6, <3>1, <3>2
    <2> QED
      BY <1>1, <2>1
  <1>7. ASSUME UNCHANGED <<token, enrolment>>, \A x \in Agents : agent'[x].by \in {agent[x].by, Nil}
        PROVE  \A u \in EnrolTokens : WithinUses(u)'
    <2>1. ASSUME NEW u \in EnrolTokens PROVE EnrolledBy(u)' \subseteq EnrolledBy(u) /\ SpendingOf(u)' \subseteq SpendingOf(u)
      BY <1>7 DEF EnrolledBy, SpendingOf
    <2> QED
      BY <1>1, <1>7, <2>1
  <1>8. ASSUME NEW a \in Agents, RecordAgentHeartbeat(a) \/ GoesQuiet(a) \/ RevokeAgent(a) \/ DeleteAgent(a)
        PROVE  \A u \in EnrolTokens : WithinUses(u)'
    <2>0. agent[a] \in AgentRow
      BY <1>a DEF FleetTypeOK
    <2>1. UNCHANGED <<token, enrolment>>
      BY <1>8 DEF RecordAgentHeartbeat, GoesQuiet, RevokeAgent, DeleteAgent
    <2>2. \A x \in Agents : agent'[x].by \in {agent[x].by, Nil}
      <3>1. CASE RecordAgentHeartbeat(a)
        BY <1>a, <2>0, <3>1 DEF RecordAgentHeartbeat, HeardRow, FleetTypeOK, AgentRow
      <3>2. CASE GoesQuiet(a)
        BY <1>a, <2>0, <3>2 DEF GoesQuiet, FleetTypeOK, AgentRow
      <3>3. CASE RevokeAgent(a)
        BY <1>a, <2>0, <3>3 DEF RevokeAgent, FleetTypeOK, AgentRow
      <3>4. CASE DeleteAgent(a)
        BY <1>a, <3>4 DEF DeleteAgent, NoAgent, FleetTypeOK
      <3> QED
        BY <1>8, <3>1, <3>2, <3>3, <3>4
    <2> QED
      BY <1>7, <2>1, <2>2
  <1>9. ASSUME NEW m \in Monitors, MonitorStep(m) \/ SweepEnds(m) PROVE \A u \in EnrolTokens : WithinUses(u)'
    <2>1. UNCHANGED <<token, enrolment>>
      BY <1>9 DEF MonitorStep, GetStaleAgents, MarkAgentStaleAlerted, SweepEnds
    <2>2. \A x \in Agents : agent'[x].by \in {agent[x].by, Nil}
      <3>1. CASE UNCHANGED agent
        BY <3>1
      <3>2. ASSUME NEW a \in Agents, MarkAgentStaleAlerted(m, a) PROVE \A x \in Agents : agent'[x].by \in {agent[x].by, Nil}
        BY <1>a, <3>2 DEF MarkAgentStaleAlerted, FleetTypeOK, AgentRow
      <3> QED
        BY <1>9, <3>1, <3>2 DEF MonitorStep, GetStaleAgents, SweepEnds
    <2> QED
      BY <1>7, <2>1, <2>2
  <1>10. ASSUME UNCHANGED <<token, agent, enrolment>> PROVE \A u \in EnrolTokens : WithinUses(u)'
    BY <1>7, <1>10
  <1>11. UNCHANGED fleetVars => UNCHANGED <<token, agent, enrolment>>
    BY DEF fleetVars
  <1>12. \A r \in SignedRequests :
            ClaimAgentRequestSignature(r) \/ WindowCloses(r) => UNCHANGED <<token, agent, enrolment>>
    BY DEF ClaimAgentRequestSignature, WindowCloses
  <1>13. SweepAgentRequestSignatures => UNCHANGED <<token, agent, enrolment>>
    BY DEF SweepAgentRequestSignatures
  <1>14. \A u \in EnrolTokens : WithinUses(u)'
    BY <1>2, <1>3, <1>4, <1>5, <1>6, <1>8, <1>9, <1>10, <1>11, <1>12, <1>13 DEF FleetNext
  <1>15. (TokenWithinUses <=> \A t \in EnrolTokens : WithinUses(t))'
    BY TokenWithinUsesEach, PTL
  <1> QED
    BY <1>14, <1>15

\* A host that is announced no more often than before.
LEMMA StormKept ==
    ASSUME NEW a \in Agents, ToldWithinReplicas(a), told[a] \in Nat, told'[a] = told[a],
           ToldBy(a)' \subseteq ToldBy(a),
           agent'[a].status # "none" => agent[a].status # "none" /\ agent'[a].alerted = agent[a].alerted
    PROVE  ToldWithinReplicas(a)'
  <1> USE FleetAssumption
  <1>0. ToldBy(a) \in SUBSET Monitors /\ ToldBy(a)' \in SUBSET ToldBy(a)
    BY DEF ToldBy
  <1>a. IsFiniteSet(ToldBy(a)) /\ Cardinality(ToldBy(a)) \in Nat /\ Cardinality(Monitors) \in Nat
    BY <1>0, PartCounts
  <1>b. Cardinality(ToldBy(a)') \in Nat /\ Cardinality(ToldBy(a)') <= Cardinality(ToldBy(a))
    BY <1>0, <1>a, PartCounts
  <1>c. told[a] + Cardinality(ToldBy(a)) <= Cardinality(Monitors)
    BY DEF ToldWithinReplicas
  <1>1. told'[a] + Cardinality(ToldBy(a)') <= Cardinality(Monitors)
    BY <1>a, <1>b, <1>c
  <1>2. agent'[a].status # "none" /\ told'[a] # 0 => agent'[a].alerted
    BY DEF ToldWithinReplicas
  <1> QED
    BY <1>1, <1>2 DEF ToldWithinReplicas

\* A host of which nothing is announced yet.
LEMMA StormOpens ==
    ASSUME NEW a \in Agents, told'[a] = 0
    PROVE  ToldWithinReplicas(a)'
  <1> USE FleetAssumption
  <1>0. ToldBy(a)' \in SUBSET Monitors
    BY DEF ToldBy
  <1>1. Cardinality(ToldBy(a)') \in Nat /\ Cardinality(Monitors) \in Nat /\ Cardinality(ToldBy(a)') <= Cardinality(Monitors)
    BY <1>0, PartCounts
  <1> QED
    BY <1>1 DEF ToldWithinReplicas

\* A replica that announces a silence has used up its turn, and the mark
\* keeps the others from reading it again.
LEMMA FleetStepStorm ==
    ASSUME FleetInv, [FleetNext]_fleetVars
    PROVE  StormBounded'
  <1> USE FleetAssumption
  <1>a. FleetTypeOK /\ StormBounded
    BY DEF FleetInv
  <1>b. ASSUME NEW b \in Agents PROVE told[b] \in Nat /\ ToldWithinReplicas(b) /\ agent[b] \in AgentRow
    BY <1>a DEF FleetTypeOK, StormBounded
  <1>1. ASSUME UNCHANGED <<agent, sweep, told>> PROVE StormBounded'
    <2>1. ASSUME NEW b \in Agents PROVE ToldBy(b)' = ToldBy(b)
      BY <1>1 DEF ToldBy
    <2> QED
      BY <1>1, <1>b, <2>1, StormKept DEF StormBounded
  <1>2. ASSUME NEW e \in Enrolments, NEW a \in Agents, CreateAgent(e, a) PROVE StormBounded'
    <2>1. /\ told'[a] = 0 /\ \A b \in Agents \ {a} : told'[b] = told[b] /\ agent'[b] = agent[b]
          /\ UNCHANGED sweep
      BY <1>2, <1>a DEF CreateAgent, FleetTypeOK
    <2>2. ASSUME NEW b \in Agents PROVE ToldBy(b)' = ToldBy(b)
      BY <2>1 DEF ToldBy
    <2>3. ASSUME NEW b \in Agents PROVE ToldWithinReplicas(b)'
      BY <1>b, <2>1, <2>2, StormKept, StormOpens
    <2> QED
      BY <2>3 DEF StormBounded
  <1>3. ASSUME NEW a \in Agents, RecordAgentHeartbeat(a) PROVE StormBounded'
    <2>1. /\ told'[a] = 0 /\ \A b \in Agents \ {a} : told'[b] = told[b] /\ agent'[b] = agent[b]
          /\ UNCHANGED sweep
      BY <1>3, <1>a DEF RecordAgentHeartbeat, FleetTypeOK
    <2>2. ASSUME NEW b \in Agents PROVE ToldBy(b)' = ToldBy(b)
      BY <2>1 DEF ToldBy
    <2>3. ASSUME NEW b \in Agents PROVE ToldWithinReplicas(b)'
      BY <1>b, <2>1, <2>2, StormKept, StormOpens
    <2> QED
      BY <2>3 DEF StormBounded
  <1>4. ASSUME NEW a \in Agents, GoesQuiet(a) \/ RevokeAgent(a) \/ DeleteAgent(a) PROVE StormBounded'
    <2>0. agent[a] \in AgentRow /\ UNCHANGED <<sweep, told>>
      BY <1>4, <1>b DEF GoesQuiet, RevokeAgent, DeleteAgent
    <2>1. \A b \in Agents : agent'[b].status # "none" => agent[b].status # "none" /\ agent'[b].alerted = agent[b].alerted
      <3>1. CASE GoesQuiet(a)
        BY <1>a, <2>0, <3>1 DEF GoesQuiet, FleetTypeOK, AgentRow
      <3>2. CASE RevokeAgent(a)
        BY <1>a, <2>0, <3>2 DEF RevokeAgent, FleetTypeOK, AgentRow
      <3>3. CASE DeleteAgent(a)
        BY <1>a, <3>3 DEF DeleteAgent, NoAgent, FleetTypeOK
      <3> QED
        BY <1>4, <3>1, <3>2, <3>3
    <2>2. ASSUME NEW b \in Agents PROVE ToldBy(b)' = ToldBy(b)
      BY <2>0 DEF ToldBy
    <2>3. ASSUME NEW b \in Agents PROVE ToldWithinReplicas(b)'
      BY <1>b, <2>0, <2>1, <2>2, StormKept
    <2> QED
      BY <2>3 DEF StormBounded
  <1>5. ASSUME NEW m \in Monitors, GetStaleAgents(m) PROVE StormBounded'
    <2>0. /\ UNCHANGED <<agent, told>> /\ sweep[m] = {} /\ sweep'[m] = {x \in Agents : Stale(x)}
          /\ \A n \in Monitors \ {m} : sweep'[n] = sweep[n]
      BY <1>5, <1>a DEF GetStaleAgents, FleetTypeOK
    <2>1. ASSUME NEW b \in Agents PROVE ToldWithinReplicas(b)'
      <3>1. CASE Stale(b)
        <4>1. told[b] = 0
          BY <1>b, <3>1 DEF Stale, ToldWithinReplicas
        <4> QED
          BY <2>0, <4>1, StormOpens
      <3>2. CASE ~Stale(b)
        <4>1. ToldBy(b)' \subseteq ToldBy(b)
          BY <2>0, <3>2 DEF ToldBy
        <4> QED
          BY <1>b, <2>0, <4>1, StormKept
      <3> QED
        BY <3>1, <3>2
    <2> QED
      BY <2>1 DEF StormBounded
  <1>6. ASSUME NEW m \in Monitors, NEW a \in Agents, MarkAgentStaleAlerted(m, a) PROVE StormBounded'
    <2>0. /\ a \in sweep[m] /\ sweep'[m] = sweep[m] \ {a} /\ \A n \in Monitors \ {m} : sweep'[n] = sweep[n]
          /\ told'[a] = told[a] + 1 /\ \A b \in Agents \ {a} : told'[b] = told[b]
      BY <1>6, <1>a DEF MarkAgentStaleAlerted, FleetTypeOK
    <2>1. \A b \in Agents \ {a} : agent'[b] = agent[b]
      BY <1>6, <1>a DEF MarkAgentStaleAlerted, FleetTypeOK
    <2>2. agent'[a].status # "none" => agent'[a].alerted
      BY <1>6, <1>a, <1>b DEF MarkAgentStaleAlerted, FleetTypeOK, AgentRow
    <2>3. ToldWithinReplicas(a)'
      <3>1. ToldBy(a)' = ToldBy(a) \ {m} /\ m \in ToldBy(a)
        BY <2>0 DEF ToldBy
      <3>2. ToldBy(a) \in SUBSET Monitors
        BY DEF ToldBy
      <3>3. IsFiniteSet(ToldBy(a)) /\ Cardinality(ToldBy(a)) \in Nat /\ Cardinality(Monitors) \in Nat
        BY <3>2, PartCounts
      <3>4. Cardinality(ToldBy(a)') = Cardinality(ToldBy(a)) - 1
        BY <3>1, <3>3, FS_RemoveElement
      <3>5. told[a] + Cardinality(ToldBy(a)) <= Cardinality(Monitors) /\ told[a] \in Nat
        BY <1>b DEF ToldWithinReplicas
      <3>6. told'[a] + Cardinality(ToldBy(a)') <= Cardinality(Monitors)
        BY <2>0, <3>3, <3>4, <3>5
      <3> QED
        BY <2>2, <3>6 DEF ToldWithinReplicas
    <2>4. ASSUME NEW b \in Agents, b # a PROVE ToldWithinReplicas(b)'
      <3>1. ToldBy(b)' \subseteq ToldBy(b)
        BY <2>0, <2>4 DEF ToldBy
      <3> QED
        BY <1>b, <2>0, <2>1, <2>4, <3>1, StormKept
    <2> QED
      BY <2>3, <2>4 DEF StormBounded
  <1>7. ASSUME NEW m \in Monitors, SweepEnds(m) PROVE StormBounded'
    <2>0. UNCHANGED <<agent, told>> /\ sweep'[m] = {} /\ \A n \in Monitors \ {m} : sweep'[n] = sweep[n]
      BY <1>7, <1>a DEF SweepEnds, FleetTypeOK
    <2>1. ASSUME NEW b \in Agents PROVE ToldWithinReplicas(b)'
      <3>1. ToldBy(b)' \subseteq ToldBy(b)
        BY <2>0 DEF ToldBy
      <3> QED
        BY <1>b, <2>0, <3>1, StormKept
    <2> QED
      BY <2>1 DEF StormBounded
  <1>8. UNCHANGED fleetVars => UNCHANGED <<agent, sweep, told>>
    BY DEF fleetVars
  <1>9. \A e \in Enrolments :
           (\E t \in EnrolTokens : Enrol(e, t)) \/ ConsumeAgentEnrolToken(e) \/ EnrolmentLost(e) => UNCHANGED <<agent, sweep, told>>
    BY DEF Enrol, ConsumeAgentEnrolToken, EnrolmentLost
  <1>10. \A t \in EnrolTokens : RevokeAgentEnrolToken(t) \/ TokenExpires(t) => UNCHANGED <<agent, sweep, told>>
    BY DEF RevokeAgentEnrolToken, TokenExpires
  <1>11. \A r \in SignedRequests : ClaimAgentRequestSignature(r) \/ WindowCloses(r) => UNCHANGED <<agent, sweep, told>>
    BY DEF ClaimAgentRequestSignature, WindowCloses
  <1>12. SweepAgentRequestSignatures => UNCHANGED <<agent, sweep, told>>
    BY DEF SweepAgentRequestSignatures
  <1> QED
    BY <1>1, <1>2, <1>3, <1>4, <1>5, <1>6, <1>7, <1>8, <1>9, <1>10, <1>11, <1>12 DEF FleetNext, MonitorStep

\* A host of which as much is announced as before, and which no further sweep holds.
LEMMA OnceKept ==
    ASSUME NEW a \in Agents, ToldOnce(a), told'[a] = told[a],
           \A m \in Monitors : a \in sweep'[m] => a \in sweep[m],
           a \in sweptTwice => a \in sweptTwice'
    PROVE  ToldOnce(a)'
  BY DEF ToldOnce, SweptByTwo

\* A host that starts again with nothing announced: sweeps that hold it still
\* count as two.
LEMMA OnceOpens ==
    ASSUME NEW a \in Agents, told' = [told EXCEPT ![a] = 0], told \in [Agents -> Nat],
           UNCHANGED sweep, sweptTwice' = StillSweptTwice(a), OneAtATime
    PROVE  OneAtATime'
  <1>1. ToldOnce(a)'
    <2>1. told'[a] = 0
      OBVIOUS
    <2>2. SweptByTwo(a)' <=> SweptByTwo(a)
      BY DEF SweptByTwo
    <2>3. SweptByTwo(a) => a \in sweptTwice'
      BY DEF OneAtATime, ToldOnce, StillSweptTwice
    <2> QED
      BY <2>1, <2>2, <2>3 DEF ToldOnce
  <1>2. ASSUME NEW b \in Agents, b # a PROVE ToldOnce(b)'
    <2>1. told'[b] = told[b] /\ ToldOnce(b)
      BY <1>2 DEF OneAtATime
    <2>2. b \in sweptTwice => b \in sweptTwice'
      BY <1>2 DEF StillSweptTwice
    <2> QED
      BY <2>1, <2>2, OnceKept
  <1> QED
    BY <1>1, <1>2 DEF OneAtATime

\* The mark that goes with a message keeps the host out of every later sweep, so
\* that a second message needs two sweeps that both read the host before.
LEMMA FleetStepOnce ==
    ASSUME FleetInv, [FleetNext]_fleetVars
    PROVE  OneAtATime'
  <1>a. FleetTypeOK /\ StormBounded /\ OneAtATime
    BY DEF FleetInv
  <1>b. sweep \in [Monitors -> SUBSET Agents] /\ told \in [Agents -> Nat] /\ agent \in [Agents -> AgentRow]
    BY <1>a DEF FleetTypeOK
  <1>1. ASSUME UNCHANGED <<sweep, told, sweptTwice>> PROVE OneAtATime'
    BY <1>1, <1>a, OnceKept DEF OneAtATime
  <1>2. ASSUME NEW e \in Enrolments, NEW a \in Agents, CreateAgent(e, a) PROVE OneAtATime'
    BY <1>2, <1>a, <1>b, OnceOpens DEF CreateAgent
  <1>3. ASSUME NEW a \in Agents, RecordAgentHeartbeat(a) PROVE OneAtATime'
    BY <1>3, <1>a, <1>b, OnceOpens DEF RecordAgentHeartbeat
  <1>4. ASSUME NEW m \in Monitors, GetStaleAgents(m) PROVE OneAtATime'
    <2>0. /\ UNCHANGED told /\ sweep'[m] = {x \in Agents : Stale(x)}
          /\ \A n \in Monitors \ {m} : sweep'[n] = sweep[n]
          /\ sweptTwice' = sweptTwice \cup {x \in Agents : Stale(x) /\ \E n \in Monitors : x \in sweep[n]}
      BY <1>4, <1>b DEF GetStaleAgents
    <2>1. ASSUME NEW b \in Agents, ToldOnce(b) PROVE ToldOnce(b)'
      <3>1. CASE b \in sweptTwice'
        BY <3>1 DEF ToldOnce
      <3>2. CASE b \notin sweptTwice' /\ Stale(b)
        <4>1. \A n \in Monitors : b \in sweep'[n] => n = m
          BY <2>0, <3>2
        <4>2. told[b] = 0
          BY <1>a, <1>b, <3>2 DEF Stale, StormBounded, ToldWithinReplicas
        <4> QED
          BY <2>0, <4>1, <4>2 DEF ToldOnce, SweptByTwo
      <3>3. CASE ~Stale(b)
        <4>1. \A n \in Monitors : b \in sweep'[n] => b \in sweep[n]
          BY <2>0, <3>3
        <4> QED
          BY <2>0, <2>1, <4>1, OnceKept
      <3> QED
        BY <3>1, <3>2, <3>3
    <2> QED
      BY <1>a, <2>1 DEF OneAtATime
  <1>5. ASSUME NEW m \in Monitors, NEW a \in Agents, MarkAgentStaleAlerted(m, a) PROVE OneAtATime'
    <2>0. /\ a \in sweep[m] /\ sweep'[m] = sweep[m] \ {a} /\ \A n \in Monitors \ {m} : sweep'[n] = sweep[n]
          /\ told'[a] = told[a] + 1 /\ \A b \in Agents \ {a} : told'[b] = told[b]
          /\ UNCHANGED sweptTwice
      BY <1>5, <1>b DEF MarkAgentStaleAlerted
    <2>1. ToldOnce(a)'
      <3>1. SUFFICES ASSUME a \notin sweptTwice PROVE ToldOnce(a)'
        BY <2>0 DEF ToldOnce
      <3>2. ~SweptByTwo(a) /\ told[a] = 0
        BY <1>a, <2>0, <3>1 DEF OneAtATime, ToldOnce
      <3>3. \A n \in Monitors : a \notin sweep'[n]
        BY <2>0, <3>2 DEF SweptByTwo
      <3>4. told'[a] = 1
        BY <2>0, <3>2
      <3> QED
        BY <3>3, <3>4 DEF ToldOnce, SweptByTwo
    <2>2. ASSUME NEW b \in Agents, b # a PROVE ToldOnce(b)'
      <3>1. \A n \in Monitors : b \in sweep'[n] => b \in sweep[n]
        BY <2>0
      <3>2. told'[b] = told[b] /\ ToldOnce(b)
        BY <1>a, <2>0, <2>2 DEF OneAtATime
      <3> QED
        BY <2>0, <3>1, <3>2, OnceKept
    <2> QED
      BY <2>1, <2>2 DEF OneAtATime
  <1>6. ASSUME NEW m \in Monitors, SweepEnds(m) PROVE OneAtATime'
    <2>0. /\ UNCHANGED <<told, sweptTwice>>
          /\ \A b \in Agents, n \in Monitors : b \in sweep'[n] => b \in sweep[n]
      BY <1>6, <1>b DEF SweepEnds
    <2> QED
      BY <1>a, <2>0, OnceKept DEF OneAtATime
  <1>7. UNCHANGED fleetVars => UNCHANGED <<sweep, told, sweptTwice>>
    BY DEF fleetVars
  <1>8. \A e \in Enrolments :
           (\E t \in EnrolTokens : Enrol(e, t)) \/ ConsumeAgentEnrolToken(e) \/ EnrolmentLost(e)
               => UNCHANGED <<sweep, told, sweptTwice>>
    BY DEF Enrol, ConsumeAgentEnrolToken, EnrolmentLost
  <1>9. \A t \in EnrolTokens : RevokeAgentEnrolToken(t) \/ TokenExpires(t) => UNCHANGED <<sweep, told, sweptTwice>>
    BY DEF RevokeAgentEnrolToken, TokenExpires
  <1>10. \A r \in SignedRequests :
            ClaimAgentRequestSignature(r) \/ WindowCloses(r) => UNCHANGED <<sweep, told, sweptTwice>>
    BY DEF ClaimAgentRequestSignature, WindowCloses
  <1>11. SweepAgentRequestSignatures => UNCHANGED <<sweep, told, sweptTwice>>
    BY DEF SweepAgentRequestSignatures
  <1>12. \A a \in Agents : GoesQuiet(a) \/ RevokeAgent(a) \/ DeleteAgent(a) => UNCHANGED <<sweep, told, sweptTwice>>
    BY DEF GoesQuiet, RevokeAgent, DeleteAgent
  <1> QED
    BY <1>1, <1>2, <1>3, <1>4, <1>5, <1>6, <1>7, <1>8, <1>9, <1>10, <1>11, <1>12 DEF FleetNext, MonitorStep

\* A step of a host, a replica or an operator preserves FleetInv.
LEMMA FleetStepInv == FleetInv /\ [FleetNext]_fleetVars => FleetInv'
  BY FleetStepSignatures, FleetStepRows, FleetStepTokens, FleetStepStorm, FleetStepOnce DEF FleetInv

\* A silence is announced once, and by each replica at most once if two sweeps
\* read it before either had marked it.
LEMMA FleetTellsOnce == FleetInv => NoAlertStorm
  <1> SUFFICES ASSUME FleetInv, NEW a \in Agents
               PROVE  told[a] <= IF a \in sweptTwice THEN Cardinality(Monitors) ELSE 1
    BY DEF NoAlertStorm
  <1>o. a \notin sweptTwice => told[a] <= 1
    BY DEF FleetInv, OneAtATime, ToldOnce
  <1> USE FleetAssumption
  <1>1. ToldBy(a) \in SUBSET Monitors
    BY DEF ToldBy
  <1>2. Cardinality(ToldBy(a)) \in Nat /\ Cardinality(Monitors) \in Nat
    BY <1>1, PartCounts
  <1>3. told[a] \in Nat /\ told[a] + Cardinality(ToldBy(a)) <= Cardinality(Monitors)
    BY DEF FleetInv, FleetTypeOK, StormBounded, ToldWithinReplicas
  <1> QED
    BY <1>o, <1>2, <1>3

\* A row goes only after its credential was withdrawn, and does not come back
\* by the same record: RevokedBeforeDeleted for one step.
LEMMA FleetRevokesFirst ==
    ASSUME FleetInv, [FleetNext]_fleetVars, NEW a \in Agents
    PROVE  /\ agent[a].status = "ACTIVE" => agent'[a].status # "none"
           /\ agent[a].status = "REVOKED" => agent'[a].status # "ACTIVE"
  <1>a. agent \in [Agents -> AgentRow] /\ \A b \in Agents : agent[b] \in AgentRow
    BY DEF FleetInv, FleetTypeOK
  <1> DEFINE Goal == /\ agent[a].status = "ACTIVE" => agent'[a].status # "none"
                     /\ agent[a].status = "REVOKED" => agent'[a].status # "ACTIVE"
  <1>1. ASSUME UNCHANGED agent PROVE Goal
    BY <1>1
  <1>2. ASSUME NEW e \in Enrolments, NEW b \in Agents, CreateAgent(e, b) PROVE Goal
    BY <1>2, <1>a DEF CreateAgent
  <1>3. ASSUME NEW b \in Agents, RecordAgentHeartbeat(b) PROVE Goal
    BY <1>3, <1>a DEF RecordAgentHeartbeat, HeardRow, AgentRow
  <1>4. ASSUME NEW b \in Agents, GoesQuiet(b) PROVE Goal
    BY <1>4, <1>a DEF GoesQuiet, AgentRow
  <1>5. ASSUME NEW b \in Agents, RevokeAgent(b) PROVE Goal
    BY <1>5, <1>a DEF RevokeAgent, AgentRow
  <1>6. ASSUME NEW b \in Agents, DeleteAgent(b) PROVE Goal
    BY <1>6, <1>a DEF DeleteAgent, MayDelete, NoAgent
  <1>7. ASSUME NEW m \in Monitors, NEW b \in Agents, MarkAgentStaleAlerted(m, b) PROVE Goal
    BY <1>7, <1>a DEF MarkAgentStaleAlerted, AgentRow
  <1>8. \A e \in Enrolments :
           (\E t \in EnrolTokens : Enrol(e, t)) \/ ConsumeAgentEnrolToken(e) \/ EnrolmentLost(e) => UNCHANGED agent
    BY DEF Enrol, ConsumeAgentEnrolToken, EnrolmentLost
  <1>9. \A t \in EnrolTokens : RevokeAgentEnrolToken(t) \/ TokenExpires(t) => UNCHANGED agent
    BY DEF RevokeAgentEnrolToken, TokenExpires
  <1>10. \A r \in SignedRequests : ClaimAgentRequestSignature(r) \/ WindowCloses(r) => UNCHANGED agent
    BY DEF ClaimAgentRequestSignature, WindowCloses
  <1>11. SweepAgentRequestSignatures \/ UNCHANGED fleetVars => UNCHANGED agent
    BY DEF SweepAgentRequestSignatures, fleetVars
  <1>12. \A m \in Monitors : GetStaleAgents(m) \/ SweepEnds(m) => UNCHANGED agent
    BY DEF GetStaleAgents, SweepEnds
  <1> HIDE DEF Goal
  <1>13. Goal
    BY <1>1, <1>2, <1>3, <1>4, <1>5, <1>6, <1>7, <1>8, <1>9, <1>10, <1>11, <1>12 DEF FleetNext, MonitorStep
  <1> QED
    BY <1>13 DEF Goal

-----------------------------------------------------------------------------
(* Verification. Each attempt is paid for, and what is stale is told.      *)

\* A check under way adds one attempt at most, which whoever asked for it pays.
AttemptsPaid ==
    /\ vRow.attempts <= MaxAttempts + verifiesAsked
    /\ vRow.after # "none" => vRow.attempts < MaxAttempts + verifiesAsked
    /\ \A v \in Verifiers : verifying[v].at \in {"lookup", "record"} =>
          verifying[v].row.attempts < MaxAttempts + verifiesAsked

VerifyInv == VerificationTypeOK /\ AttemptsPaid /\ StaleIsTold

\* No verification in hand is a state of one.
LEMMA NotVerifyingRow == /\ NotVerifying \in VerifyState /\ NotVerifying.row \in VRow /\ NotVerifying.at = "none"
                         /\ NotVerifying.row.attempts = 0 /\ NotVerifying.row.after = "none"
                         /\ NotVerifying.row.state # "STALE"
                         /\ ResetRow \in VRow /\ ResetRow.attempts = 0 /\ ResetRow.state # "STALE"
  <1>1. PICK row : row = [state |-> Nil, after |-> "none", attempts |-> 0]
    OBVIOUS
  <1>2. row \in VRow /\ row.attempts = 0 /\ row.after = "none" /\ row.state = Nil
    BY <1>1, VerificationAssumption DEF VRow, VerdictStates
  <1>3. NotVerifying = [at |-> "none", row |-> row, print |-> 0, verdict |-> Nil]
    BY <1>1 DEF NotVerifying
  <1>4. NotVerifying \in VerifyState /\ NotVerifying.row = row /\ NotVerifying.at = "none"
    BY <1>2, <1>3, VerificationAssumption DEF VerifyState, VerdictStates
  <1>5. ResetRow \in VRow /\ ResetRow.attempts = 0 /\ ResetRow.state # "STALE"
    BY VerificationAssumption DEF ResetRow, VRow, VerdictStates
  <1> QED
    BY <1>2, <1>4, <1>5, VerificationAssumption

\* Verification: initially.
LEMMA VerificationInitInv == VerificationInit => VerifyInv
  <1> SUFFICES ASSUME VerificationInit PROVE VerifyInv
    OBVIOUS
  <1>1. vRow \in VRow /\ vRow.attempts = 0 /\ vRow.after = "none" /\ vRow.state # "STALE"
    BY NotVerifyingRow DEF VerificationInit
  <1>2. verifying \in [Verifiers -> VerifyState] /\ \A v \in Verifiers : verifying[v].at = "none"
    BY NotVerifyingRow DEF VerificationInit
  <1>3. VerificationTypeOK
    <2>1. issuedPrint \in 0..MaxRenewals /\ settledCount \in 0..MaxSettled /\ verifiesAsked \in 0..MaxAsked
      BY VerificationAssumption DEF VerificationInit
    <2>2. staleTold \in BOOLEAN /\ outrun \in BOOLEAN
      BY DEF VerificationInit
    <2> QED
      BY <1>1, <1>2, <2>1, <2>2 DEF VerificationTypeOK
  <1>4. AttemptsPaid
    BY <1>1, <1>2, VerificationAssumption DEF VerificationInit, AttemptsPaid
  <1> QED
    BY <1>1, <1>3, <1>4 DEF VerifyInv, StaleIsTold

\* A verdict costs the attempt that its check paid for.
LEMMA VerdictRowTyped ==
    ASSUME NEW w \in VerifyState, NEW n \in Nat, n <= MaxAsked, w.row.attempts < MaxAttempts + n
    PROVE  /\ VerdictRow(w) \in VRow /\ VerdictRow(w).state = w.verdict
           /\ VerdictRow(w).attempts <= MaxAttempts + n
           /\ VerdictRow(w).after # "none" => VerdictRow(w).attempts < MaxAttempts + n
  <1>1. w.row \in VRow /\ w.verdict \in VerdictStates
    BY DEF VerifyState
  <1>2. w.row.attempts \in Nat
    BY <1>1, VerificationAssumption DEF VRow
  <1>3. AttemptsAfter(w) = w.row.attempts + 1
    BY DEF AttemptsAfter
  <1>4. AttemptsAfter(w) \in 0..MaxAttempts + MaxAsked /\ AttemptsAfter(w) <= MaxAttempts + n
    BY <1>2, <1>3, VerificationAssumption
  <1>5. PICK row : row = VerdictRow(w)
    OBVIOUS
  <1>6. /\ row.state = w.verdict /\ row.attempts = AttemptsAfter(w)
        /\ row.after = IF w.verdict # "VERIFIED" /\ AttemptsAfter(w) < MaxAttempts THEN "later" ELSE "none"
    BY <1>5 DEF VerdictRow
  <1>7. row \in VRow
    BY <1>1, <1>4, <1>5 DEF VerdictRow, VRow
  <1> QED
    BY <1>4, <1>5, <1>6, <1>7, VerificationAssumption

\* A verdict is written: v is the one that writes, and what it read it read.
LEMMA VerdictWritten ==
    ASSUME VerifyInv, NEW v \in Verifiers, verifying[v].at # "announce", NEW row \in VRow, WriteVerdict(v, row),
           UNCHANGED <<issuedPrint, settledCount, verifiesAsked>>,
           row.attempts <= MaxAttempts + verifiesAsked,
           row.after # "none" => row.attempts < MaxAttempts + verifiesAsked,
           NEW new \in VerifyState, verifying' = [verifying EXCEPT ![v] = new], new.at \in {"none", "announce"},
           row.state = "STALE" => verifying[v].row.state = "STALE" \/ new.at = "announce"
    PROVE  VerifyInv'
  <1>1. /\ verifying' \in [Verifiers -> VerifyState] /\ verifying'[v] = new
        /\ \A u \in Verifiers : u # v => verifying'[u] = verifying[u]
    BY DEF VerifyInv, VerificationTypeOK
  <1>2. vRow' = row
    BY DEF WriteVerdict
  <1>3. VerificationTypeOK'
    BY <1>1, <1>2 DEF WriteVerdict, VerifyInv, VerificationTypeOK
  <1>4. AttemptsPaid'
    BY <1>1, <1>2 DEF VerifyInv, AttemptsPaid
  <1>5. StaleIsTold'
    <2> SUFFICES ASSUME row.state = "STALE", ~outrun'
                 PROVE  staleTold' \/ \E u \in Verifiers : verifying'[u].at = "announce"
      BY <1>2 DEF StaleIsTold
    <2>1. ~outrun /\ verifying[v].row = vRow /\ (staleTold => staleTold')
      BY DEF WriteVerdict
    <2>2. CASE new.at = "announce"
      BY <2>2, <1>1
    <2>3. ASSUME new.at # "announce" PROVE staleTold' \/ \E u \in Verifiers : verifying'[u].at = "announce"
      <3>1. vRow.state = "STALE"
        BY <2>1, <2>3
      <3>2. staleTold \/ \E u \in Verifiers : verifying[u].at = "announce"
        BY <3>1, <2>1 DEF VerifyInv, StaleIsTold
      <3>3. \A u \in Verifiers : verifying[u].at = "announce" => verifying'[u].at = "announce"
        BY <1>1
      <3> QED
        BY <3>2, <3>3, <2>1
    <2> QED
      BY <2>2, <2>3
  <1> QED
    BY <1>3, <1>4, <1>5 DEF VerifyInv

\* A check moves on without writing.
LEMMA CheckMovesOn ==
    ASSUME VerifyInv, NEW v \in Verifiers, UNCHANGED <<issuedPrint, vRow, outrun, settledCount>>,
           verifiesAsked' \in 0..MaxAsked, verifiesAsked <= verifiesAsked',
           NEW new \in VerifyState, verifying' = [verifying EXCEPT ![v] = new],
           new.at \in {"lookup", "record"} => new.row.attempts < MaxAttempts + verifiesAsked',
           staleTold' \in BOOLEAN,
           vRow.state = "STALE" /\ staleTold => staleTold',
           verifying[v].at = "announce" => (vRow.state = "STALE" => staleTold')
    PROVE  VerifyInv'
  <1>1. /\ verifying' \in [Verifiers -> VerifyState] /\ verifying'[v] = new
        /\ \A u \in Verifiers : u # v => verifying'[u] = verifying[u]
    BY DEF VerifyInv, VerificationTypeOK
  <1>2. VerificationTypeOK'
    BY <1>1 DEF VerifyInv, VerificationTypeOK
  <1>3. AttemptsPaid'
    <2>1. vRow.attempts \in Nat /\ \A u \in Verifiers : verifying[u].row.attempts \in Nat
      BY VerificationAssumption DEF VerifyInv, VerificationTypeOK, VRow, VerifyState
    <2>2. verifiesAsked \in Nat /\ verifiesAsked' \in Nat
      BY VerificationAssumption DEF VerifyInv, VerificationTypeOK
    <2> QED
      BY <1>1, <2>1, <2>2, VerificationAssumption DEF VerifyInv, AttemptsPaid
  <1>4. StaleIsTold'
    BY <1>1 DEF VerifyInv, StaleIsTold
  <1> QED
    BY <1>2, <1>3, <1>4 DEF VerifyInv

\* The columns are reset, or brought forward.
LEMMA ColumnsReset ==
    ASSUME VerifyInv, UNCHANGED <<verifying, verifiesAsked>>,
           issuedPrint' \in 0..MaxRenewals, settledCount' \in 0..MaxSettled,
           \/ vRow' = ResetRow /\ staleTold' = FALSE /\ outrun' = FALSE
           \/ UNCHANGED <<vRow, staleTold, outrun>>
    PROVE  VerifyInv'
  <1>1. CASE vRow' = ResetRow /\ staleTold' = FALSE /\ outrun' = FALSE
    <2>1. verifiesAsked \in Nat
      BY VerificationAssumption DEF VerifyInv, VerificationTypeOK
    <2>2. VerificationTypeOK'
      BY <1>1, NotVerifyingRow DEF VerifyInv, VerificationTypeOK
    <2>3. AttemptsPaid'
      BY <1>1, <2>1, NotVerifyingRow, VerificationAssumption DEF VerifyInv, AttemptsPaid
    <2>4. StaleIsTold'
      BY <1>1, NotVerifyingRow DEF StaleIsTold
    <2> QED
      BY <2>2, <2>3, <2>4 DEF VerifyInv
  <1>2. CASE UNCHANGED <<vRow, staleTold, outrun>>
    BY <1>2 DEF VerifyInv, VerificationTypeOK, AttemptsPaid, StaleIsTold
  <1> QED
    BY <1>1, <1>2

\* The steps of one verification (verifyBinding).
LEMMA VerifyStepInv ==
    ASSUME VerifyInv, NEW v \in Verifiers, VerifyStep(v)
    PROVE  VerifyInv'
  <1>0. /\ verifying[v] \in VerifyState /\ verifying[v].row \in VRow /\ vRow \in VRow
        /\ issuedPrint \in 0..MaxRenewals /\ verifiesAsked \in Nat /\ verifiesAsked <= MaxAsked
        /\ vRow.attempts \in Nat /\ verifying[v].row.attempts \in Nat /\ staleTold \in BOOLEAN
        /\ vRow.attempts <= MaxAttempts + verifiesAsked
        /\ vRow.after # "none" => vRow.attempts < MaxAttempts + verifiesAsked
        /\ verifying[v].at \in {"lookup", "record"} => verifying[v].row.attempts < MaxAttempts + verifiesAsked
    BY VerificationAssumption DEF VerifyInv, VerificationTypeOK, VerifyState, VRow, AttemptsPaid
  <1>1. ASSUME BeginVerify(v) PROVE VerifyInv'
    <2>1. UNCHANGED <<issuedPrint, vRow, staleTold, outrun, settledCount>> /\ verifying[v].at = "none"
      BY <1>1 DEF BeginVerify
    <2>2. /\ verifiesAsked' \in 0..MaxAsked /\ verifiesAsked <= verifiesAsked'
          /\ vRow.attempts < MaxAttempts + verifiesAsked'
      BY <1>0, <1>1, VerificationAssumption DEF BeginVerify
    <2>3. PICK new : new = [NotVerifying EXCEPT !.at = "lookup", !.row = vRow, !.print = issuedPrint]
      OBVIOUS
    <2>4. new \in VerifyState /\ new.at = "lookup" /\ new.row = vRow
      BY <2>3, <1>0, NotVerifyingRow DEF VerifyState
    <2>5. verifying' = [verifying EXCEPT ![v] = new]
      BY <1>1, <2>3 DEF BeginVerify
    <2> QED
      BY <2>1, <2>2, <2>4, <2>5, <1>0, CheckMovesOn
  <1>2. ASSUME LookupFails(v) PROVE VerifyInv'
    <2>1. PICK row : row = [verifying[v].row EXCEPT !.after = "later"]
      OBVIOUS
    <2>2. row \in VRow /\ row.after = "later" /\ row.state = verifying[v].row.state /\ row.attempts = verifying[v].row.attempts
      BY <2>1, <1>0 DEF VRow
    <2>3. /\ WriteVerdict(v, row) /\ verifying[v].at = "lookup" /\ verifying' = [verifying EXCEPT ![v] = NotVerifying]
          /\ UNCHANGED <<issuedPrint, settledCount, verifiesAsked>>
      BY <1>2, <2>1 DEF LookupFails
    <2>4. row.attempts < MaxAttempts + verifiesAsked /\ row.attempts <= MaxAttempts + verifiesAsked
      BY <1>0, <2>2, <2>3, VerificationAssumption
    <2> QED
      BY <2>2, <2>3, <2>4, NotVerifyingRow, VerdictWritten
  <1>3. ASSUME NoEndpoints(v) PROVE VerifyInv'
    <2>1. PICK row : row = [state |-> "NO_ENDPOINTS", after |-> "none", attempts |-> verifying[v].row.attempts + 1]
      OBVIOUS
    <2>2. /\ WriteVerdict(v, row) /\ verifying[v].at = "lookup" /\ verifying' = [verifying EXCEPT ![v] = NotVerifying]
          /\ UNCHANGED <<issuedPrint, settledCount, verifiesAsked>>
      BY <1>3, <2>1 DEF NoEndpoints
    <2>3. verifying[v].row.attempts + 1 \in 0..MaxAttempts + MaxAsked
      BY <1>0, <2>2, VerificationAssumption
    <2>4. row \in VRow /\ row.after = "none" /\ row.state = "NO_ENDPOINTS" /\ row.attempts = verifying[v].row.attempts + 1
      BY <2>1, <2>3 DEF VRow, VerdictStates
    <2>5. row.attempts <= MaxAttempts + verifiesAsked
      BY <1>0, <2>2, <2>4, VerificationAssumption
    <2> QED
      BY <1>0, <2>2, <2>4, <2>5, NotVerifyingRow, VerdictWritten
  <1>4. ASSUME ProbeEndpoints(v) PROVE VerifyInv'
    <2>1. UNCHANGED <<issuedPrint, vRow, staleTold, outrun, settledCount, verifiesAsked>> /\ verifying[v].at = "lookup"
      BY <1>4 DEF ProbeEndpoints
    <2>2. PICK seen \in [ServingHosts -> {Unanswered, OtherName} \cup 0..issuedPrint] :
             verifying' = [verifying EXCEPT ![v].at = "record",
                              ![v].verdict = probeAll({seen[e] : e \in ServingHosts}, verifying[v].print)]
      BY <1>4 DEF ProbeEndpoints
    <2>3. PICK verdict : verdict = probeAll({seen[e] : e \in ServingHosts}, verifying[v].print)
      OBVIOUS
    <2>4. verdict \in VerdictStates
      BY <2>3 DEF probeAll, VerdictStates
    <2>5. PICK new : new = [verifying[v] EXCEPT !.at = "record", !.verdict = verdict]
      OBVIOUS
    <2>6. new \in VerifyState /\ new.at = "record" /\ new.row = verifying[v].row
      BY <2>4, <2>5, <1>0 DEF VerifyState
    <2>7. verifying' = [verifying EXCEPT ![v] = new]
      BY <2>2, <2>3, <2>5
    <2>8. verifiesAsked' \in 0..MaxAsked /\ verifiesAsked <= verifiesAsked'
      BY <1>0, <2>1, VerificationAssumption
    <2> QED
      BY <2>1, <2>6, <2>7, <2>8, <1>0, CheckMovesOn
  <1>5. ASSUME verifying[v].at = "record", AfterRecord(v)
        PROVE  \E new \in VerifyState : /\ verifying' = [verifying EXCEPT ![v] = new]
                                        /\ new.at \in {"none", "announce"}
                                        /\ Announces(verifying[v]) => new.at = "announce"
    <2>1. PICK new : new = [verifying[v] EXCEPT !.at = "announce"]
      OBVIOUS
    <2>2. new \in VerifyState /\ new.at = "announce"
      BY <2>1, <1>0 DEF VerifyState
    <2>3. verifying' = IF Announces(verifying[v]) THEN [verifying EXCEPT ![v] = new] ELSE [verifying EXCEPT ![v] = NotVerifying]
      BY <1>5, <2>1 DEF AfterRecord
    <2> QED
      BY <2>2, <2>3, NotVerifyingRow
  <1>6. ASSUME RecordVerdict(v) PROVE VerifyInv'
    <2>1. /\ verifying[v].at = "record" /\ WriteVerdict(v, VerdictRow(verifying[v])) /\ AfterRecord(v)
          /\ UNCHANGED <<issuedPrint, settledCount, verifiesAsked>>
      BY <1>6 DEF RecordVerdict, AfterRecord
    <2>2. PICK new \in VerifyState : /\ verifying' = [verifying EXCEPT ![v] = new]
                                     /\ new.at \in {"none", "announce"}
                                     /\ Announces(verifying[v]) => new.at = "announce"
      BY <2>1, <1>5
    <2>3. PICK row : row = VerdictRow(verifying[v])
      OBVIOUS
    <2>4. /\ row \in VRow /\ row.state = verifying[v].verdict
          /\ row.attempts <= MaxAttempts + verifiesAsked
          /\ row.after # "none" => row.attempts < MaxAttempts + verifiesAsked
      BY <1>0, <2>1, <2>3, VerdictRowTyped
    <2>5. row.state = "STALE" => verifying[v].row.state = "STALE" \/ new.at = "announce"
      BY <2>2, <2>4 DEF Announces
    <2>6. WriteVerdict(v, row)
      BY <2>1, <2>3
    <2> QED
      BY <2>1, <2>2, <2>4, <2>5, <2>6, VerdictWritten
  <1>7. ASSUME RecordVerdictLost(v) PROVE VerifyInv'
    <2>1. /\ verifying[v].at = "record" /\ AfterRecord(v) /\ UNCHANGED <<vRow, staleTold, outrun>>
          /\ UNCHANGED <<issuedPrint, settledCount, verifiesAsked>>
      BY <1>7 DEF RecordVerdictLost, AfterRecord
    <2>2. PICK new \in VerifyState : /\ verifying' = [verifying EXCEPT ![v] = new]
                                     /\ new.at \in {"none", "announce"}
      BY <2>1, <1>5
    <2>3. verifiesAsked' \in 0..MaxAsked /\ verifiesAsked <= verifiesAsked'
      BY <1>0, <2>1, VerificationAssumption
    <2> QED
      BY <2>1, <2>2, <2>3, <1>0, CheckMovesOn
  <1>8. ASSUME announceStale(v) PROVE VerifyInv'
    <2>1. /\ UNCHANGED <<issuedPrint, vRow, outrun, settledCount, verifiesAsked>>
          /\ staleTold' = (vRow.state = "STALE") /\ verifying' = [verifying EXCEPT ![v] = NotVerifying]
      BY <1>8 DEF announceStale
    <2>2. verifiesAsked' \in 0..MaxAsked /\ verifiesAsked <= verifiesAsked'
      BY <1>0, <2>1, VerificationAssumption
    <2> QED
      BY <2>1, <2>2, <1>0, NotVerifyingRow, CheckMovesOn
  <1> QED
    BY <1>1, <1>2, <1>3, <1>4, <1>6, <1>7, <1>8 DEF VerifyStep

\* The inductive step of verification.
LEMMA VerificationStepInv == VerifyInv /\ [VerificationNext]_verifyVars => VerifyInv'
  <1>0. ASSUME VerifyInv
        PROVE  issuedPrint \in 0..MaxRenewals /\ settledCount \in 0..MaxSettled
    BY <1>0 DEF VerifyInv, VerificationTypeOK
  <1>1. ASSUME VerifyInv, GraceEnds PROVE VerifyInv'
    <2>1. UNCHANGED <<issuedPrint, verifying, staleTold, outrun, settledCount, verifiesAsked>> /\ vRow.after = "later"
      BY <1>1 DEF GraceEnds
    <2>2. PICK row : row = [vRow EXCEPT !.after = "now"]
      OBVIOUS
    <2>3. row \in VRow /\ row.state = vRow.state /\ row.attempts = vRow.attempts
      BY <1>1, <2>2 DEF VerifyInv, VerificationTypeOK, VRow
    <2>4. vRow' = row
      BY <1>1, <2>2 DEF GraceEnds
    <2>5. VerificationTypeOK'
      BY <1>1, <2>1, <2>3, <2>4 DEF VerifyInv, VerificationTypeOK
    <2>6. AttemptsPaid' /\ StaleIsTold'
      BY <1>1, <2>1, <2>3, <2>4 DEF VerifyInv, AttemptsPaid, StaleIsTold
    <2> QED
      BY <2>5, <2>6 DEF VerifyInv
  <1>2. ASSUME VerifyInv, SettledRollout PROVE VerifyInv'
    <2>1. /\ UNCHANGED <<verifying, verifiesAsked>> /\ issuedPrint' \in 0..MaxRenewals /\ settledCount' \in 0..MaxSettled
          /\ \/ vRow' = ResetRow /\ staleTold' = FALSE /\ outrun' = FALSE
             \/ UNCHANGED <<vRow, staleTold, outrun>>
      BY <1>0, <1>2, VerificationAssumption DEF SettledRollout
    <2> QED
      BY <1>2, <2>1, ColumnsReset
  <1>3. ASSUME VerifyInv, NEW b \in BOOLEAN, Renewed(b) PROVE VerifyInv'
    <2>1. /\ UNCHANGED <<verifying, verifiesAsked>> /\ issuedPrint' \in 0..MaxRenewals /\ settledCount' \in 0..MaxSettled
          /\ \/ vRow' = ResetRow /\ staleTold' = FALSE /\ outrun' = FALSE
             \/ UNCHANGED <<vRow, staleTold, outrun>>
      BY <1>0, <1>3, VerificationAssumption DEF Renewed
    <2> QED
      BY <1>3, <2>1, ColumnsReset
  <1>4. ASSUME VerifyInv, UNCHANGED verifyVars PROVE VerifyInv'
    BY <1>4 DEF verifyVars, VerifyInv, VerificationTypeOK, AttemptsPaid, StaleIsTold
  <1> QED
    BY <1>1, <1>2, <1>3, <1>4, VerifyStepInv DEF VerificationNext

-----------------------------------------------------------------------------
(* Connections. The least client that is free is taken.                    *)

\* Every set of naturals that is not empty has a least element.
LEMMA LeastNatural ==
    ASSUME NEW T \in SUBSET Nat, T # {}
    PROVE  \E x \in T : \A y \in T : x <= y
  <1>1. PICK x \in T : \A y \in T : ~(<<y, x>> \in OpToRel(<, Nat))
    BY NatLessThanWellFounded, WFMin
  <1>2. ASSUME NEW y \in T PROVE x <= y
    <2>1. x \in Nat /\ y \in Nat
      OBVIOUS
    <2>2. y < x => <<y, x>> \in OpToRel(<, Nat)
      BY <2>1 DEF OpToRel
    <2>3. ~(y < x)
      BY <1>1, <2>2, Zenon
    <2> QED
      BY <2>1, <2>3
  <1> QED
    BY <1>2

-----------------------------------------------------------------------------
(* A call that has dialled owns its client until the name does.            *)

\* A call that has dialled owns its client, a name has a client to itself, and
\* the goroutines of the sweep dial only while it waits for them.
DialsHold ==
    /\ \A c \in Callers : dial[c].pc \in {"asking", "dialled"} <=> dial[c].id # 0
    /\ \A c \in Callers : dial[c].pc # "idle" => dial[c].name \in GatewayNames
    /\ \A c \in Callers : dial[c].id # 0 => client[dial[c].id].open /\ \A n \in GatewayNames : gateways[n] # dial[c].id
    /\ \A c, d \in Callers : dial[c].id # 0 /\ dial[c].id = dial[d].id => c = d
    /\ \A n, m \in GatewayNames : gateways[n] # 0 /\ gateways[n] = gateways[m] => n = m
    /\ healthSweep.pc # "connecting" => \A n \in GatewayNames : dial[n].pc = "idle"

GatewayInv == GatewayTypeOK /\ ConnectionsOwned /\ DialsHold

\* The values that stand for nothing.
LEMMA GatewayNothing ==
    /\ NoClient \in ClientState /\ ~NoClient.open
    /\ NoDial \in DialState /\ NoDial.pc = "idle" /\ NoDial.id = 0
    /\ NoSweep \in SweepState /\ NoSweep.pc = "idle"
  BY GatewayAssumption DEF NoClient, NoDial, NoSweep, ClientState, DialState, SweepState

\* Gateways: initially.
LEMMA GatewayInitInv == GatewayInit => GatewayInv
  <1> SUFFICES ASSUME GatewayInit PROVE GatewayInv
    OBVIOUS
  <1> USE GatewayAssumption, GatewayNothing
  <1>1. GatewayTypeOK
    <2>1. known \in [GatewayNames -> Addrs \cup {Nil}] /\ caAccount \in [GatewayNames -> Addrs \cup {Nil}]
      BY DEF GatewayInit
    <2>2. gateways \in [GatewayNames -> 0..MaxClients] /\ client \in [ClientIds -> ClientState]
      BY DEF GatewayInit
    <2>3. dial \in [Callers -> DialState] /\ healthSweep \in SweepState
      BY DEF GatewayInit
    <2>4. up \subseteq Addrs /\ hung \subseteq Addrs /\ failedAt \subseteq GatewayNames /\ closed \in BOOLEAN
      BY DEF GatewayInit
    <2> QED
      BY <2>1, <2>2, <2>3, <2>4 DEF GatewayTypeOK
  <1>2. ConnectionsOwned
    BY DEF GatewayInit, ConnectionsOwned
  <1>3. DialsHold
    BY DEF GatewayInit, DialsHold, Callers
  <1> QED
    BY <1>1, <1>2, <1>3 DEF GatewayInv

\* Steps that leave the dials, the names' clients and whether they are open.
LEMMA GatewayKeeps ==
    ASSUME GatewayInv, UNCHANGED <<gateways, dial>>, client' \in [ClientIds -> ClientState],
           \A i \in ClientIds : client'[i].open <=> client[i].open,
           healthSweep'.pc # "connecting" => healthSweep.pc # "connecting" \/ \A n \in GatewayNames : dial[n].pc = "idle"
    PROVE  ConnectionsOwned' /\ DialsHold'
  <1>1. gateways \in [GatewayNames -> 0..MaxClients] /\ dial \in [Callers -> DialState]
        /\ \A i \in 0..MaxClients : i # 0 => i \in ClientIds
    BY GatewayAssumption DEF GatewayInv, GatewayTypeOK, ClientIds
  <1>2. ConnectionsOwned'
    BY <1>1 DEF GatewayInv, ConnectionsOwned
  <1>3. \A c \in Callers : dial[c].id \in 0..MaxClients
    BY <1>1 DEF DialState
  <1>4. DialsHold'
    BY <1>1, <1>3 DEF GatewayInv, DialsHold
  <1> QED
    BY <1>2, <1>4

\* One caller's dial moves, to one that is not yet dialled.
LEMMA DialMoves ==
    ASSUME GatewayInv, NEW c \in Callers, NEW new \in DialState, new.pc \notin {"asking", "dialled"}, new.id = 0,
           new.pc # "idle" => new.name \in GatewayNames, dial[c].pc \notin {"asking", "dialled"},
           new.pc # "idle" => c \in GatewayRequests,
           dial' = [dial EXCEPT ![c] = new], UNCHANGED <<gateways, client, healthSweep>>
    PROVE  dial' \in [Callers -> DialState] /\ ConnectionsOwned' /\ DialsHold'
  <1>1. dial \in [Callers -> DialState] /\ dial' \in [Callers -> DialState] /\ (c \notin GatewayNames \/ new.pc = "idle")
    BY GatewayAssumption DEF GatewayInv, GatewayTypeOK
  <1>2. \A d \in Callers : dial'[d] = IF d = c THEN new ELSE dial[d]
    BY <1>1 DEF GatewayInv, GatewayTypeOK
  <1>3. dial[c].id = 0
    BY DEF GatewayInv, DialsHold
  <1>4. ConnectionsOwned'
    BY <1>2, <1>3, GatewayAssumption DEF GatewayInv, GatewayTypeOK, ConnectionsOwned, ClientIds
  <1>5. GatewayNames \subseteq Callers
    BY DEF Callers
  <1>6. DialsHold'
    BY <1>1, <1>2, <1>3, <1>5 DEF GatewayInv, DialsHold
  <1> QED
    BY <1>1, <1>4, <1>6 DEF GatewayInv, GatewayTypeOK

\* The least client that is free is one.
LEMMA FreeIdIsFree ==
    ASSUME FreeIds # {}
    PROVE  (CHOOSE i \in FreeIds : \A j \in FreeIds : i <= j) \in FreeIds
  <1>1. FreeIds \in SUBSET Nat
    BY GatewayAssumption DEF FreeIds, ClientIds
  <1>2. \E i \in FreeIds : \A j \in FreeIds : i <= j
    BY <1>1, LeastNatural
  <1> QED
    BY <1>2

\* RegisterGateway begins: a request that was idle dials, or nothing does.
LEMMA RegisterInv ==
    ASSUME GatewayInv, NEW q \in GatewayRequests, NEW n \in GatewayNames, NEW a \in Addrs \cup {Nil},
           dial[q].pc = "idle", Register(q, n, a)
    PROVE  GatewayInv'
  <1> DEFINE new == [NoDial EXCEPT !.pc = "dialling", !.name = n, !.addr = a]
  <1>1. /\ UNCHANGED <<up, hung, caAccount, gateways, client, failedAt, healthSweep, closed>>
        /\ known' = [known EXCEPT ![n] = a]
        /\ dial' = dial \/ dial' = [dial EXCEPT ![q] = new]
    BY DEF Register
  <1>2. new \in DialState /\ new.pc = "dialling" /\ new.id = 0 /\ new.name = n
    <2>1. 0 \in 0..MaxClients
      BY GatewayAssumption
    <2>2. new \in DialState
      BY <2>1 DEF NoDial, DialState
    <2> QED
      BY <2>2 DEF NoDial
  <1>3. q \in Callers
    BY DEF Callers
  <1> HIDE DEF new
  <1>4. dial' \in [Callers -> DialState] /\ ConnectionsOwned' /\ DialsHold'
    <2>1. CASE dial' = dial
      BY <1>1, <2>1, GatewayKeeps DEF GatewayInv, GatewayTypeOK
    <2>2. CASE dial' = [dial EXCEPT ![q] = new]
      BY <1>1, <1>2, <1>3, <2>2, DialMoves
    <2> QED
      BY <1>1, <2>1, <2>2
  <1>5. GatewayTypeOK'
    BY <1>1, <1>4 DEF GatewayInv, GatewayTypeOK
  <1> QED
    BY <1>4, <1>5 DEF GatewayInv

\* Dialled: the caller owns a client that nobody has.
LEMMA DialledInv ==
    ASSUME GatewayInv, NEW c \in Callers, Dialled(c)
    PROVE  GatewayInv'
  <1>1. PICK id : id = CHOOSE i \in FreeIds : \A j \in FreeIds : i <= j
    OBVIOUS
  <1>2. client' = [client EXCEPT ![id] = [NoClient EXCEPT !.addr = dial[c].addr, !.open = TRUE]]
    BY <1>1 DEF Dialled
  <1>3. /\ dial' = [dial EXCEPT ![c].pc = "asking", ![c].id = id] /\ FreeIds # {} /\ dial[c].pc = "dialling"
        /\ UNCHANGED <<up, hung, caAccount, known, gateways, failedAt, healthSweep, closed>>
    BY <1>1 DEF Dialled
  <1>4. id \in FreeIds
    BY <1>1, <1>3, FreeIdIsFree
  <1>5. /\ id \in ClientIds /\ id \in 0..MaxClients /\ id # 0 /\ ~client[id].open
        /\ \A n \in GatewayNames : gateways[n] # id
    BY <1>4, GatewayAssumption DEF FreeIds, ClientIds
  <1>6. /\ gateways \in [GatewayNames -> 0..MaxClients] /\ dial \in [Callers -> DialState]
        /\ client \in [ClientIds -> ClientState] /\ dial[c] \in DialState
    BY DEF GatewayInv, GatewayTypeOK
  <1>7. PICK new : new = [dial[c] EXCEPT !.pc = "asking", !.id = id]
    OBVIOUS
  <1>8. new \in DialState /\ new.pc = "asking" /\ new.id = id /\ new.name = dial[c].name
    BY <1>5, <1>6, <1>7 DEF DialState
  <1>9. dial' \in [Callers -> DialState] /\ \A d \in Callers : dial'[d] = IF d = c THEN new ELSE dial[d]
    BY <1>3, <1>6, <1>7, <1>8
  <1>10. PICK made : made = [NoClient EXCEPT !.addr = dial[c].addr, !.open = TRUE]
    OBVIOUS
  <1>11. made \in ClientState /\ made.open
    BY <1>6, <1>10 DEF ClientState, DialState, NoClient
  <1>12. client' \in [ClientIds -> ClientState] /\ \A i \in ClientIds : client'[i] = IF i = id THEN made ELSE client[i]
    BY <1>2, <1>5, <1>6, <1>10, <1>11
  <1>13. /\ \A d \in Callers : dial[d].id # id /\ dial[d].id \in 0..MaxClients
         /\ \A i \in 0..MaxClients : i # 0 => i \in ClientIds
         /\ dial[c].id = 0 /\ dial[c].name \in GatewayNames
    <2>1. \A d \in Callers : dial[d].id \in 0..MaxClients
      BY <1>6 DEF DialState
    <2> QED
      BY <1>3, <1>5, <2>1, GatewayAssumption DEF GatewayInv, DialsHold, ClientIds
  <1>14. ConnectionsOwned'
    <2>1. \A i \in ClientIds : client'[i].open => (\E n \in GatewayNames : gateways[n] = i) \/ (\E d \in Callers : dial'[d].id = i)
      <3> SUFFICES ASSUME NEW i \in ClientIds, client'[i].open
                   PROVE  (\E n \in GatewayNames : gateways[n] = i) \/ (\E d \in Callers : dial'[d].id = i)
        OBVIOUS
      <3>1. CASE i = id
        BY <1>8, <1>9, <3>1
      <3>2. CASE i # id
        <4>1. (\E n \in GatewayNames : gateways[n] = i) \/ (\E d \in Callers : dial[d].id = i)
          BY <1>12, <3>2 DEF GatewayInv, ConnectionsOwned
        <4>2. i # 0
          BY DEF ClientIds
        <4> QED
          BY <1>9, <1>13, <4>1, <4>2
      <3> QED
        BY <3>1, <3>2
    <2>2. \A n \in GatewayNames : gateways[n] # 0 => client'[gateways[n]].open
      BY <1>5, <1>6, <1>12, <1>13 DEF GatewayInv, ConnectionsOwned
    <2> QED
      BY <1>3, <2>1, <2>2 DEF ConnectionsOwned
  <1>15. GatewayNames \subseteq Callers
    BY DEF Callers
  <1>16. DialsHold'
    <2>1. \A d \in Callers : dial'[d].pc \in {"asking", "dialled"} <=> dial'[d].id # 0
      BY <1>5, <1>8, <1>9 DEF GatewayInv, DialsHold
    <2>2. \A d \in Callers : dial'[d].pc # "idle" => dial'[d].name \in GatewayNames
      BY <1>8, <1>9, <1>13 DEF GatewayInv, DialsHold
    <2>3. \A d \in Callers : dial'[d].id # 0 => client'[dial'[d].id].open /\ \A n \in GatewayNames : gateways[n] # dial'[d].id
      BY <1>5, <1>8, <1>9, <1>11, <1>12, <1>13 DEF GatewayInv, DialsHold
    <2>4. \A d, e \in Callers : dial'[d].id # 0 /\ dial'[d].id = dial'[e].id => d = e
      BY <1>8, <1>9, <1>13 DEF GatewayInv, DialsHold
    <2>5. healthSweep.pc # "connecting" => \A n \in GatewayNames : dial'[n].pc = "idle"
      BY <1>3, <1>9, <1>15 DEF GatewayInv, DialsHold
    <2>6. \A n, m \in GatewayNames : gateways[n] # 0 /\ gateways[n] = gateways[m] => n = m
      BY DEF GatewayInv, DialsHold
    <2> QED
      BY <1>3, <2>1, <2>2, <2>3, <2>4, <2>5, <2>6 DEF DialsHold
  <1> QED
    BY <1>3, <1>9, <1>12, <1>14, <1>16 DEF GatewayInv, GatewayTypeOK

\* The gateway answered, or the call failed: the caller's client is still its own.
LEMMA AskedInv ==
    ASSUME GatewayInv, NEW c \in Callers, NEW caps \in BOOLEAN, Asked(c, caps)
    PROVE  GatewayInv'
  <1>1. PICK id : id = dial[c].id
    OBVIOUS
  <1>2. /\ UNCHANGED <<up, hung, caAccount, known, gateways, failedAt, healthSweep, closed>>
        /\ dial[c].pc = "asking" /\ dial' = [dial EXCEPT ![c].pc = "dialled"]
        /\ client' = [client EXCEPT ![id].caps = caps]
    BY <1>1 DEF Asked
  <1>3. /\ gateways \in [GatewayNames -> 0..MaxClients] /\ dial \in [Callers -> DialState]
        /\ client \in [ClientIds -> ClientState] /\ dial[c] \in DialState
    BY DEF GatewayInv, GatewayTypeOK
  <1>4. id \in ClientIds
    <2>1. id # 0 /\ id \in 0..MaxClients
      BY <1>1, <1>2, <1>3 DEF GatewayInv, DialsHold, DialState
    <2> QED
      BY <2>1, GatewayAssumption DEF ClientIds
  <1>5. PICK asked, new : asked = [client[id] EXCEPT !.caps = caps] /\ new = [dial[c] EXCEPT !.pc = "dialled"]
    OBVIOUS
  <1>6. /\ asked \in ClientState /\ (asked.open <=> client[id].open)
    BY <1>3, <1>4, <1>5 DEF ClientState
  <1>7. new \in DialState /\ new.pc = "dialled" /\ new.id = dial[c].id /\ new.name = dial[c].name
    BY <1>3, <1>5 DEF DialState
  <1>8. client' \in [ClientIds -> ClientState] /\ \A i \in ClientIds : client'[i].open <=> client[i].open
    BY <1>2, <1>3, <1>4, <1>5, <1>6
  <1>9. dial' \in [Callers -> DialState] /\ \A d \in Callers : dial'[d] = IF d = c THEN new ELSE dial[d]
    BY <1>2, <1>3, <1>5, <1>7
  <1>10. /\ \A d \in Callers : dial[d].id \in 0..MaxClients
         /\ \A i \in 0..MaxClients : i # 0 => i \in ClientIds
    BY <1>3, GatewayAssumption DEF DialState, ClientIds
  <1>11. /\ \A d \in Callers : dial'[d].id = dial[d].id /\ dial'[d].name = dial[d].name
         /\ \A d \in Callers : dial'[d].pc = "idle" <=> dial[d].pc = "idle"
         /\ \A d \in Callers : dial'[d].pc \in {"asking", "dialled"} <=> dial[d].pc \in {"asking", "dialled"}
    BY <1>2, <1>7, <1>9
  <1>12. ConnectionsOwned'
    BY <1>2, <1>3, <1>8, <1>10, <1>11 DEF GatewayInv, ConnectionsOwned
  <1>13. GatewayNames \subseteq Callers
    BY DEF Callers
  <1>14. DialsHold'
    BY <1>2, <1>3, <1>8, <1>10, <1>11, <1>13 DEF GatewayInv, DialsHold
  <1> QED
    BY <1>2, <1>8, <1>9, <1>12, <1>14 DEF GatewayInv, GatewayTypeOK

\* Install: the first of two dials has the name, the other is closed.
LEMMA InstallInv ==
    ASSUME GatewayInv, NEW c \in Callers, Install(c)
    PROVE  GatewayInv'
  <1>1. PICK n, id : n = dial[c].name /\ id = dial[c].id
    OBVIOUS
  <1>2. /\ dial[c].pc = "dialled" /\ dial' = [dial EXCEPT ![c] = NoDial]
        /\ UNCHANGED <<up, hung, caAccount, known, healthSweep, closed>>
        /\ \/ client' = [client EXCEPT ![id] = NoClient] /\ UNCHANGED <<gateways, failedAt>>
           \/ client' = Installed(n, id) /\ gateways' = [gateways EXCEPT ![n] = id] /\ failedAt' = failedAt \ {n}
    BY <1>1 DEF Install
  <1>3. /\ gateways \in [GatewayNames -> 0..MaxClients] /\ dial \in [Callers -> DialState]
        /\ client \in [ClientIds -> ClientState] /\ failedAt \subseteq GatewayNames
        /\ \A i \in 0..MaxClients : i # 0 => i \in ClientIds
        /\ \A i \in ClientIds : i # 0
    BY GatewayAssumption DEF GatewayInv, GatewayTypeOK, ClientIds
  <1>4. \A d \in Callers : dial[d].id \in 0..MaxClients
    BY <1>3 DEF DialState
  <1>5. /\ n \in GatewayNames /\ id \in ClientIds /\ id \in 0..MaxClients /\ client[id].open
        /\ \A m \in GatewayNames : gateways[m] # id
        /\ \A d \in Callers : dial[d].id = id => d = c
    BY <1>1, <1>2, <1>3, <1>4 DEF GatewayInv, DialsHold
  <1>6. dial' \in [Callers -> DialState] /\ \A d \in Callers : dial'[d] = IF d = c THEN NoDial ELSE dial[d]
    BY <1>2, <1>3, GatewayNothing
  <1>7. GatewayNames \subseteq Callers
    BY DEF Callers
  <1>8. CASE client' = [client EXCEPT ![id] = NoClient] /\ UNCHANGED <<gateways, failedAt>>
    <2>1. client' \in [ClientIds -> ClientState] /\ \A i \in ClientIds : client'[i] = IF i = id THEN NoClient ELSE client[i]
      BY <1>3, <1>8, GatewayNothing
    <2>2. ConnectionsOwned'
      <3>1. \A i \in ClientIds : client'[i].open => (\E m \in GatewayNames : gateways[m] = i) \/ (\E d \in Callers : dial'[d].id = i)
        BY <1>1, <1>6, <2>1, GatewayNothing DEF GatewayInv, ConnectionsOwned
      <3>2. \A m \in GatewayNames : gateways[m] # 0 => client'[gateways[m]].open
        BY <1>3, <1>5, <2>1 DEF GatewayInv, ConnectionsOwned
      <3> QED
        BY <1>8, <3>1, <3>2 DEF ConnectionsOwned
    <2>3. DialsHold'
      <3>1. \A d \in Callers : dial'[d].id # 0 => client'[dial'[d].id].open /\ \A m \in GatewayNames : gateways[m] # dial'[d].id
        BY <1>3, <1>4, <1>5, <1>6, <2>1, GatewayNothing DEF GatewayInv, DialsHold
      <3> QED
        BY <1>2, <1>6, <1>7, <1>8, <3>1, GatewayNothing DEF GatewayInv, DialsHold
    <2> QED
      BY <1>2, <1>6, <1>8, <2>1, <2>2, <2>3 DEF GatewayInv, GatewayTypeOK
  <1>9. CASE client' = Installed(n, id) /\ gateways' = [gateways EXCEPT ![n] = id] /\ failedAt' = failedAt \ {n}
    <2>1. /\ gateways' \in [GatewayNames -> 0..MaxClients]
          /\ \A m \in GatewayNames : gateways'[m] = IF m = n THEN id ELSE gateways[m]
      BY <1>3, <1>5, <1>9
    <2>2. PICK made : made = [client[id] EXCEPT !.isConnected = TRUE]
      OBVIOUS
    <2>3. made \in ClientState /\ made.open
      BY <1>3, <1>5, <2>2 DEF ClientState
    <2>4. /\ client' \in [ClientIds -> ClientState]
          /\ \A i \in ClientIds : client'[i] = IF i = id THEN made ELSE IF i = gateways[n] THEN NoClient ELSE client[i]
      BY <1>3, <1>9, <2>2, <2>3, GatewayNothing DEF Installed
    <2>5. ConnectionsOwned'
      <3>1. \A i \in ClientIds : client'[i].open => (\E m \in GatewayNames : gateways'[m] = i) \/ (\E d \in Callers : dial'[d].id = i)
        <4> SUFFICES ASSUME NEW i \in ClientIds, client'[i].open
                     PROVE  (\E m \in GatewayNames : gateways'[m] = i) \/ (\E d \in Callers : dial'[d].id = i)
          OBVIOUS
        <4>1. CASE i = id
          BY <1>5, <2>1, <4>1
        <4>2. CASE i # id
          <5>1. client[i].open /\ i # gateways[n]
            BY <2>4, <4>2, GatewayNothing
          <5>2. (\E m \in GatewayNames : gateways[m] = i) \/ (\E d \in Callers : dial[d].id = i)
            BY <5>1 DEF GatewayInv, ConnectionsOwned
          <5> QED
            BY <1>1, <1>6, <2>1, <4>2, <5>1, <5>2
        <4> QED
          BY <4>1, <4>2
      <3>2. \A m \in GatewayNames : gateways'[m] # 0 => client'[gateways'[m]].open
        BY <1>3, <1>5, <2>1, <2>3, <2>4 DEF GatewayInv, ConnectionsOwned, DialsHold
      <3> QED
        BY <3>1, <3>2 DEF ConnectionsOwned
    <2>6. DialsHold'
      <3>1. \A d \in Callers : dial'[d].id # 0 =>
               /\ dial'[d].id \in ClientIds /\ dial'[d].id # id /\ dial'[d].id # gateways[n]
               /\ \A m \in GatewayNames : gateways[m] # dial'[d].id
        BY <1>3, <1>4, <1>5, <1>6, GatewayNothing DEF GatewayInv, DialsHold
      <3>2. \A d \in Callers : dial'[d].id # 0 => client'[dial'[d].id].open /\ \A m \in GatewayNames : gateways'[m] # dial'[d].id
        BY <1>6, <2>1, <2>4, <3>1, GatewayNothing DEF GatewayInv, DialsHold
      <3>3. \A m, k \in GatewayNames : gateways'[m] # 0 /\ gateways'[m] = gateways'[k] => m = k
        BY <1>5, <2>1 DEF GatewayInv, DialsHold
      <3>4. healthSweep.pc # "connecting" => \A m \in GatewayNames : dial'[m].pc = "idle"
        BY <1>6, <1>7, GatewayNothing DEF GatewayInv, DialsHold
      <3>5. /\ \A d \in Callers : dial'[d].pc \in {"asking", "dialled"} <=> dial'[d].id # 0
            /\ \A d \in Callers : dial'[d].pc # "idle" => dial'[d].name \in GatewayNames
            /\ \A d, e \in Callers : dial'[d].id # 0 /\ dial'[d].id = dial'[e].id => d = e
        BY <1>6, GatewayNothing DEF GatewayInv, DialsHold
      <3> QED
        BY <1>2, <3>2, <3>3, <3>4, <3>5 DEF DialsHold
    <2> QED
      BY <1>2, <1>6, <1>9, <2>1, <2>4, <2>5, <2>6 DEF GatewayInv, GatewayTypeOK
  <1> QED
    BY <1>2, <1>8, <1>9

\* HealthCheckAll begins: its goroutines were idle, and those that dial have
\* dialled nothing yet.
LEMMA SweepBeginInv ==
    ASSUME GatewayInv, SweepBegin
    PROVE  GatewayInv'
  <1>1. /\ UNCHANGED <<up, hung, caAccount, known, gateways, client, failedAt, closed>> /\ healthSweep.pc = "idle"
        /\ healthSweep' = [pc |-> IF Absent = {} THEN "checking" ELSE "connecting", snapshot |-> Checked, absent |-> Absent]
        /\ dial' = [c \in Callers |-> IF c \in ToDial THEN [NoDial EXCEPT !.pc = "dialling", !.name = c, !.addr = known[c]] ELSE dial[c]]
    BY DEF SweepBegin
  <1>2. /\ gateways \in [GatewayNames -> 0..MaxClients] /\ dial \in [Callers -> DialState]
        /\ known \in [GatewayNames -> Addrs \cup {Nil}]
    BY DEF GatewayInv, GatewayTypeOK
  <1>3. ToDial \subseteq Absent /\ Absent \subseteq GatewayNames /\ GatewayNames \subseteq Callers
    BY DEF ToDial, Absent, Callers
  <1>4. \A n \in GatewayNames : dial[n].pc = "idle" /\ dial[n].id = 0
    BY <1>1, <1>3 DEF GatewayInv, DialsHold
  <1>5. ASSUME NEW n \in ToDial
        PROVE  LET new == [NoDial EXCEPT !.pc = "dialling", !.name = n, !.addr = known[n]]
               IN  new \in DialState /\ new.pc = "dialling" /\ new.id = 0 /\ new.name = n
    <2>1. 0 \in 0..MaxClients /\ n \in GatewayNames /\ known[n] \in Addrs \cup {Nil}
      BY <1>2, <1>3, GatewayAssumption
    <2> QED
      BY <2>1 DEF NoDial, DialState
  <1>6. dial' \in [Callers -> DialState]
    BY <1>1, <1>2, <1>5
  <1>7. \A d \in Callers : /\ dial'[d].id = dial[d].id /\ (dial'[d].pc \in {"asking", "dialled"} <=> dial[d].pc \in {"asking", "dialled"})
                           /\ dial'[d].pc # "idle" => dial'[d].name \in GatewayNames
    <2>1. ASSUME NEW d \in Callers
          PROVE  /\ dial'[d].id = dial[d].id /\ (dial'[d].pc \in {"asking", "dialled"} <=> dial[d].pc \in {"asking", "dialled"})
                 /\ dial'[d].pc # "idle" => dial'[d].name \in GatewayNames
      <3>1. CASE d \in ToDial
        BY <1>1, <1>3, <1>4, <1>5, <3>1
      <3>2. CASE d \notin ToDial
        BY <1>1, <3>2 DEF GatewayInv, DialsHold
      <3> QED
        BY <3>1, <3>2
    <2> QED
      BY <2>1
  <1>8. healthSweep'.pc # "connecting" => \A n \in GatewayNames : dial'[n].pc = "idle"
    BY <1>1, <1>3, <1>4
  <1>9. healthSweep' \in SweepState
    <2>1. Checked \in [GatewayNames -> 0..MaxClients] /\ Absent \in SUBSET GatewayNames
      BY <1>2, <1>3 DEF Checked
    <2> QED
      BY <1>1, <2>1 DEF SweepState
  <1>10. UNCHANGED <<gateways, client>> /\ \A d \in Callers : dial'[d].id = dial[d].id
    BY <1>1, <1>7
  <1>11. ConnectionsOwned'
    BY <1>10 DEF GatewayInv, ConnectionsOwned
  <1>12. DialsHold'
    BY <1>7, <1>8, <1>10 DEF GatewayInv, DialsHold
  <1> QED
    BY <1>1, <1>6, <1>9, <1>11, <1>12 DEF GatewayInv, GatewayTypeOK

\* ConnectAll returned, clients are asked, the sweep ends: nobody's client goes.
LEMMA SweepGoesOn ==
    ASSUME GatewayInv, SweepJoin \/ SweepEnd \/ \E n \in GatewayNames, caps \in BOOLEAN : CheckGateway(n, caps)
    PROVE  GatewayInv'
  <1>1. /\ gateways \in [GatewayNames -> 0..MaxClients] /\ healthSweep \in SweepState /\ client \in [ClientIds -> ClientState]
        /\ healthSweep.snapshot \in [GatewayNames -> 0..MaxClients] /\ healthSweep.absent \subseteq GatewayNames
    BY DEF GatewayInv, GatewayTypeOK, SweepState
  <1>2. CASE SweepJoin
    <2>1. /\ UNCHANGED <<up, hung, caAccount, known, gateways, client, failedAt, dial, closed>>
          /\ \A n \in GatewayNames : dial[n].pc = "idle"
      BY <1>2 DEF SweepJoin
    <2>2. healthSweep' \in SweepState
      BY <1>1, <1>2 DEF SweepJoin, SweepState
    <2>3. ConnectionsOwned' /\ DialsHold'
      BY <1>1, <2>1, GatewayKeeps
    <2> QED
      BY <2>1, <2>2, <2>3 DEF GatewayInv, GatewayTypeOK
  <1>3. CASE SweepEnd
    <2>1. /\ UNCHANGED <<up, hung, caAccount, known, gateways, client, failedAt, dial, closed>>
          /\ healthSweep.pc = "checking" /\ healthSweep' = NoSweep
      BY <1>3 DEF SweepEnd
    <2>2. ConnectionsOwned' /\ DialsHold'
      BY <1>1, <2>1, GatewayKeeps
    <2> QED
      BY <2>1, <2>2, GatewayNothing DEF GatewayInv, GatewayTypeOK
  <1>4. ASSUME NEW n \in GatewayNames, NEW caps \in BOOLEAN, CheckGateway(n, caps) PROVE GatewayInv'
    <2>1. PICK id : id = healthSweep.snapshot[n]
      OBVIOUS
    <2>2. /\ UNCHANGED <<up, hung, caAccount, known, gateways, failedAt, dial, closed>>
          /\ healthSweep.pc = "checking" /\ id # 0
          /\ healthSweep' = [healthSweep EXCEPT !.snapshot[n] = 0]
          /\ \/ client' = [client EXCEPT ![id].isConnected = TRUE, ![id].caps = @ \/ caps]
             \/ client' = [client EXCEPT ![id].isConnected = FALSE]
      BY <1>4, <2>1 DEF CheckGateway
    <2>3. id \in ClientIds /\ 0 \in 0..MaxClients
      BY <1>1, <2>1, <2>2, GatewayAssumption DEF ClientIds
    <2>4. PICK asked, lost : /\ asked = [client[id] EXCEPT !.isConnected = TRUE, !.caps = @ \/ caps]
                             /\ lost = [client[id] EXCEPT !.isConnected = FALSE]
      OBVIOUS
    <2>5. client[id] \in ClientState
      BY <1>1, <2>3
    <2>6. /\ asked \in ClientState /\ lost \in ClientState
          /\ (asked.open <=> client[id].open) /\ (lost.open <=> client[id].open)
      BY <2>4, <2>5 DEF ClientState
    <2>7. client' = [client EXCEPT ![id] = asked] \/ client' = [client EXCEPT ![id] = lost]
      BY <1>1, <2>2, <2>3, <2>4
    <2>8. client' \in [ClientIds -> ClientState] /\ \A i \in ClientIds : client'[i].open <=> client[i].open
      BY <1>1, <2>3, <2>6, <2>7
    <2>9. healthSweep' \in SweepState /\ healthSweep'.pc = healthSweep.pc
      <3>1. PICK snap : snap = [healthSweep.snapshot EXCEPT ![n] = 0]
        OBVIOUS
      <3>2. snap \in [GatewayNames -> 0..MaxClients]
        BY <1>1, <2>3, <3>1
      <3>3. healthSweep' = [healthSweep EXCEPT !.snapshot = snap]
        BY <2>2, <3>1
      <3> QED
        BY <1>1, <3>2, <3>3 DEF SweepState
    <2>10. ConnectionsOwned' /\ DialsHold'
      BY <2>2, <2>8, <2>9, GatewayKeeps
    <2> QED
      BY <2>2, <2>8, <2>9, <2>10 DEF GatewayInv, GatewayTypeOK
  <1> QED
    BY <1>2, <1>3, <1>4

\* Close closes every name's client; calls that have dialled keep theirs.
LEMMA CloseInv ==
    ASSUME GatewayInv, CloseManager
    PROVE  GatewayInv'
  <1>1. /\ UNCHANGED <<up, hung, caAccount, known, failedAt, dial, healthSweep>> /\ closed' = TRUE
        /\ gateways' = [n \in GatewayNames |-> 0]
        /\ client' = [i \in ClientIds |-> IF \E n \in GatewayNames : gateways[n] = i THEN NoClient ELSE client[i]]
    BY DEF CloseManager
  <1>2. /\ client \in [ClientIds -> ClientState] /\ dial \in [Callers -> DialState]
        /\ \A i \in 0..MaxClients : i # 0 => i \in ClientIds
        /\ \A i \in ClientIds : i # 0
    BY GatewayAssumption DEF GatewayInv, GatewayTypeOK, ClientIds
  <1>3. client' \in [ClientIds -> ClientState] /\ gateways' \in [GatewayNames -> 0..MaxClients]
    BY <1>1, <1>2, GatewayNothing, GatewayAssumption
  <1>4. \A d \in Callers : dial[d].id # 0 => dial[d].id \in ClientIds
    BY <1>2 DEF DialState
  <1>5. ConnectionsOwned'
    BY <1>1, <1>2, GatewayNothing DEF GatewayInv, ConnectionsOwned
  <1>6. DialsHold'
    BY <1>1, <1>2, <1>4, GatewayNothing DEF GatewayInv, DialsHold
  <1> QED
    BY <1>1, <1>3, <1>5, <1>6 DEF GatewayInv, GatewayTypeOK

\* Steps that touch neither dials, names nor clients.
LEMMA GatewayWorldInv ==
    ASSUME GatewayInv,
           \/ \E n \in GatewayNames : StoreAccount(n) \/ DeleteAccount(n) \/ PauseEnds(n)
           \/ \E a \in Addrs : Flip(a) \/ Hang(a)
    PROVE  GatewayInv'
  <1>1. /\ UNCHANGED <<known, gateways, client, dial, healthSweep, closed>>
        /\ up' \subseteq Addrs /\ hung' \subseteq Addrs /\ failedAt' \subseteq GatewayNames
        /\ caAccount' \in [GatewayNames -> Addrs \cup {Nil}]
    <2>1. /\ known \in [GatewayNames -> Addrs \cup {Nil}] /\ caAccount \in [GatewayNames -> Addrs \cup {Nil}]
          /\ up \subseteq Addrs /\ hung \subseteq Addrs /\ failedAt \subseteq GatewayNames
      BY DEF GatewayInv, GatewayTypeOK
    <2>2. ASSUME NEW n \in GatewayNames, StoreAccount(n) PROVE <1>1!:
      BY <2>1, <2>2 DEF StoreAccount
    <2>3. ASSUME NEW n \in GatewayNames, DeleteAccount(n) PROVE <1>1!:
      BY <2>1, <2>3 DEF DeleteAccount
    <2>4. ASSUME NEW n \in GatewayNames, PauseEnds(n) PROVE <1>1!:
      BY <2>1, <2>4 DEF PauseEnds
    <2>5. ASSUME NEW a \in Addrs, Flip(a) PROVE <1>1!:
      BY <2>1, <2>5 DEF Flip
    <2>6. ASSUME NEW a \in Addrs, Hang(a) PROVE <1>1!:
      BY <2>1, <2>6 DEF Hang
    <2> QED
      BY <2>2, <2>3, <2>4, <2>5, <2>6
  <1>2. client \in [ClientIds -> ClientState]
    BY DEF GatewayInv, GatewayTypeOK
  <1>3. ConnectionsOwned' /\ DialsHold'
    BY <1>1, <1>2, GatewayKeeps
  <1> QED
    BY <1>1, <1>3 DEF GatewayInv, GatewayTypeOK

\* The inductive step of the gateways.
LEMMA GatewayStepInv == GatewayInv /\ [GatewayNext]_gatewayVars => GatewayInv'
  <1>1. ASSUME GatewayInv, UNCHANGED gatewayVars PROVE GatewayInv'
    BY <1>1 DEF gatewayVars, GatewayInv, GatewayTypeOK, ConnectionsOwned, DialsHold, Callers, ClientIds
  <1>2. ASSUME GatewayInv, NEW q \in GatewayRequests, NEW n \in GatewayNames,
               GatewayFor(q, n) \/ CheckNow(q, n) \/ \E a \in Addrs : ConnectNew(q, n, a)
        PROVE  GatewayInv'
    <2>1. caAccount[n] \in Addrs \cup {Nil}
      BY <1>2 DEF GatewayInv, GatewayTypeOK
    <2>2. PICK a \in Addrs \cup {Nil} : dial[q].pc = "idle" /\ Register(q, n, a)
      BY <1>2, <2>1 DEF GatewayFor, CheckNow, ConnectNew
    <2> QED
      BY <1>2, <2>2, RegisterInv
  <1>3. ASSUME GatewayInv, NEW c \in Callers, DialFails(c) PROVE GatewayInv'
    <2>1. /\ UNCHANGED <<up, hung, caAccount, known, gateways, client, healthSweep, closed>>
          /\ dial' = [dial EXCEPT ![c] = NoDial] /\ dial[c].pc = "dialling"
          /\ failedAt' = failedAt \cup {dial[c].name} /\ dial[c].name \in GatewayNames
      BY <1>3 DEF DialFails, GatewayInv, DialsHold
    <2>2. dial' \in [Callers -> DialState] /\ ConnectionsOwned' /\ DialsHold'
      BY <1>3, <2>1, GatewayNothing, DialMoves
    <2> QED
      BY <1>3, <2>1, <2>2 DEF GatewayInv, GatewayTypeOK
  <1>4. ASSUME GatewayInv, NEW c \in Callers, GetCapabilities(c) \/ AskTimesOut(c) PROVE GatewayInv'
    <2>1. PICK caps \in BOOLEAN : Asked(c, caps)
      BY <1>4 DEF GetCapabilities, AskTimesOut
    <2> QED
      BY <1>4, <2>1, AskedInv
  <1>5. ASSUME GatewayInv, NEW c \in Callers, CallStep(c) \/ AskTimesOut(c) PROVE GatewayInv'
    BY <1>3, <1>4, <1>5, DialledInv, InstallInv DEF CallStep
  <1>6. ASSUME GatewayInv, SweepStep PROVE GatewayInv'
    BY <1>6, SweepBeginInv, SweepGoesOn DEF SweepStep
  <1> QED
    BY <1>1, <1>2, <1>5, <1>6, CloseInv, GatewayWorldInv DEF GatewayNext
=============================================================================
