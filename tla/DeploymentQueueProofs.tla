------------------------ MODULE DeploymentQueueProofs ------------------------
(***************************************************************************)
(* Theorems about DeploymentQueue for every number of places, jobs,        *)
(* workers and rollouts. First what the leases give: while they hold, a    *)
(* goroutine has its row and so its place to itself. Then what a rollout   *)
(* promises: records catch up with places, an escalation is announced      *)
(* once, earlier waves come first and the canary rule bounds the damage.   *)
(* Each section there adds the invariant its property needs and shows that *)
(* every action keeps it.                                                  *)
(***************************************************************************)
EXTENDS DeploymentQueue, FiniteSetTheorems, TLAPS

\* A row names its place from the moment it is inserted.
RowsNamed == \A j \in Jobs : jobs[j].status = "FREE" <=> jobs[j].place = NoOne

\* A goroutine that is not idle is at work on a row that was inserted.
HoldersNamed ==
    \A w \in Workers : worker[w].pc # "idle" => /\ worker[w].job \in Jobs
                                                /\ jobs[worker[w].job].status # "FREE"

\* TypeOK alone is not inductive: installs index holds and deployed by the place
\* of the row the goroutine has.
Inv == TypeOK /\ RowsNamed /\ LockFollowsStatus /\ OneOutstandingPerPlace /\ HoldersNamed

-----------------------------------------------------------------------------
(* The constants and the records built from them *)

LEMMA FreeRowType == FreeRow \in JobRow
BY DEF FreeRow, JobRow, Statuses

LEMMA QueuedRowFacts ==
    \A p \in Places, n \in Nat :
        /\ QueuedRow(p, n) \in JobRow /\ QueuedRow(p, n).place = p /\ QueuedRow(p, n).wave = n
        /\ QueuedRow(p, n).status = "PENDING" /\ QueuedRow(p, n).lockedBy = NoOne
        /\ ~QueuedRow(p, n).failed
BY DEF QueuedRow, FreeRow, JobRow, Statuses

LEMMA WaveReadFacts ==
    \A e \in Planners : \A p \in Places :
        WaveRead(e, p) \in Nat /\ WaveRead(e, p) \in {0, Wave[p]}
BY DeploymentAssumption DEF WaveRead

LEMMA IdleWorkerType == IdleWorker \in WorkerState /\ IdleWorker.pc = "idle"
BY DeploymentAssumption DEF IdleWorker, WorkerState, Fingerprints

LEMMA NoRolloutType ==
    /\ NoRollout \in PlannerState /\ Rollout(TRUE) \in PlannerState
    /\ Rollout(FALSE) \in PlannerState
<1>1. Len(Listing) \in Nat /\ Len(Listing) >= 1
  BY DeploymentAssumption
<1>2. 1 \in 1..Len(Listing) /\ {} \in SUBSET Places
  BY <1>1
<1>3. NoRollout \in PlannerState
  BY <1>2 DEF NoRollout, PlannerState
<1>4. \A a \in BOOLEAN : Rollout(a) \in PlannerState
  BY <1>3 DEF Rollout, PlannerState
<1>. QED
  BY <1>3, <1>4

LEMMA TwiceType == \A n \in 0..2 : Twice(n) \in 0..2
BY DEF Twice

LEMMA ListedPlace == \A i \in 1..Len(Listing) : Listing[i] \in Places
BY DeploymentAssumption

LEMMA InitInv == Init => Inv
<1>. SUFFICES ASSUME Init PROVE Inv
  OBVIOUS
<1>1. TypeOK
  BY FreeRowType, IdleWorkerType, NoRolloutType, DeploymentAssumption
     DEF Init, TypeOK, Fingerprints
<1>2. \A j \in Jobs : jobs[j] = FreeRow
  BY DEF Init
<1>3. RowsNamed /\ LockFollowsStatus /\ OneOutstandingPerPlace
  BY <1>2 DEF RowsNamed, LockFollowsStatus, OneOutstandingPerPlace, Outstanding, FreeRow
<1>4. HoldersNamed
  BY DEF Init, HoldersNamed, IdleWorker
<1>. QED
  BY <1>1, <1>3, <1>4 DEF Inv

-----------------------------------------------------------------------------
(* What one statement may do to one row, and one step to one goroutine *)

\* Rows that were inserted stay inserted, for the same place.
JobsKept == \A k \in Jobs : jobs[k].status # "FREE"
                              => jobs'[k].status # "FREE" /\ jobs'[k].place = jobs[k].place

JobsInv == /\ jobs \in [Jobs -> JobRow]
           /\ RowsNamed /\ LockFollowsStatus /\ OneOutstandingPerPlace

WorkersInv == worker \in [Workers -> WorkerState] /\ HoldersNamed

LEMMA RowFrame ==
    ASSUME Inv, NEW j \in Jobs, NEW new \in JobRow, jobs' = [jobs EXCEPT ![j] = new],
           new.status # "FREE", new.place \in Places,
           jobs[j].status = "FREE" \/ new.place = jobs[j].place,
           (new.lockedBy # NoOne) = (new.status = "RUNNING"),
           new.status \in {"PENDING", "RUNNING"} => Outstanding(j) \/ IndexAllows(j, new.place)
    PROVE  JobsInv' /\ JobsKept
<1>1. /\ jobs \in [Jobs -> JobRow] /\ NoOne \notin Places
      /\ jobs' \in [Jobs -> JobRow]
      /\ \A k \in Jobs : jobs'[k] = IF k = j THEN new ELSE jobs[k]
  BY DeploymentAssumption DEF Inv, TypeOK
<1>2. RowsNamed' /\ LockFollowsStatus'
  BY <1>1 DEF Inv, RowsNamed, LockFollowsStatus
<1>3. ASSUME NEW k \in Jobs \ {j}, Outstanding(k), jobs[k].place = new.place,
             new.status \in {"PENDING", "RUNNING"}
      PROVE  FALSE
  <2>1. Outstanding(j) /\ jobs[j].place = new.place
    BY <1>3 DEF IndexAllows, Outstanding
  <2>. QED
    BY <1>3, <2>1 DEF Inv, OneOutstandingPerPlace
<1>4. OneOutstandingPerPlace'
  BY <1>1, <1>3 DEF Inv, OneOutstandingPerPlace, Outstanding
<1>5. JobsKept
  BY <1>1 DEF JobsKept
<1>. QED
  BY <1>1, <1>2, <1>4, <1>5 DEF JobsInv

LEMMA RowsSame == ASSUME Inv, jobs' = jobs PROVE JobsInv' /\ JobsKept
BY DEF Inv, TypeOK, JobsInv, JobsKept, RowsNamed, LockFollowsStatus,
       OneOutstandingPerPlace, Outstanding

LEMMA WorkerFrame ==
    ASSUME Inv, JobsKept, NEW w \in Workers, NEW s \in WorkerState,
           worker' = [worker EXCEPT ![w] = s],
           s.pc # "idle" => s.job \in Jobs /\ jobs'[s.job].status # "FREE"
    PROVE  WorkersInv'
BY DEF Inv, TypeOK, JobsKept, WorkersInv, HoldersNamed

LEMMA WorkersSame == ASSUME Inv, JobsKept, worker' = worker PROVE WorkersInv'
BY DEF Inv, TypeOK, JobsKept, WorkersInv, HoldersNamed

\* A goroutine that goes on with the job it has.
LEMMA WorkerGoesOn ==
    ASSUME Inv, JobsKept, NEW w \in Workers, worker[w].pc # "idle", NEW s \in WorkerState,
           worker' = [worker EXCEPT ![w] = s], s.job = worker[w].job
    PROVE  WorkersInv'
<1>1. worker[w].job \in Jobs /\ jobs'[worker[w].job].status # "FREE"
  BY DEF Inv, HoldersNamed, JobsKept
<1>. QED
  BY <1>1, WorkerFrame

LEMMA WorkerGivesUp ==
    ASSUME Inv, JobsKept, NEW w \in Workers, worker' = [worker EXCEPT ![w] = IdleWorker]
    PROVE  WorkersInv'
BY WorkerFrame, IdleWorkerType

\* What a goroutine at work may index by.
LEMMA HolderFacts ==
    ASSUME Inv, NEW w \in Workers, worker[w].pc # "idle"
    PROVE  /\ worker[w] \in WorkerState /\ worker[w].job \in Jobs
           /\ jobs[worker[w].job] \in JobRow /\ jobs[worker[w].job].status # "FREE"
           /\ jobs[worker[w].job].place \in Places
           /\ worker[w].fp \in Fingerprints
<1>1. worker[w].job \in Jobs /\ jobs[worker[w].job].status # "FREE"
  BY DEF Inv, HoldersNamed
<1>. QED
  BY <1>1 DEF Inv, TypeOK, RowsNamed, JobRow, WorkerState

\* The part of TypeOK that is neither rows nor goroutines.
RestOK ==
    /\ cert \in Fingerprints
    /\ enabled \in [Places -> BOOLEAN]
    /\ planner \in [Planners -> PlannerState]
    /\ holds \in [Places -> Fingerprints]
    /\ deployed \in [Places -> Fingerprints]
    /\ manual \in 0..MaxManual
    /\ upsets \in [count : Nat, met : SUBSET Upsets]
    /\ accepted \in [Places -> SUBSET Fingerprints]
    /\ tried \in [Places -> BOOLEAN]
    /\ alerts \in [Jobs -> 0..2]

LEMMA Assemble == JobsInv /\ WorkersInv /\ RestOK <=> Inv
BY DEF JobsInv, WorkersInv, RestOK, Inv, TypeOK

LEMMA AssembleStep == JobsInv' /\ WorkersInv' /\ RestOK' => Inv'
BY DEF JobsInv, WorkersInv, RestOK, Inv, TypeOK

LEMMA UpsetType ==
    ASSUME Inv, NEW c, Upset(c) PROVE upsets' \in [count : Nat, met : SUBSET Upsets]
<1>1. upsets \in [count : Nat, met : SUBSET Upsets]
  BY DEF Inv, TypeOK
<1>. QED
  BY <1>1 DEF Upset

-----------------------------------------------------------------------------
(* Rollouts *)

PlannerStep(e) == \/ StoreRenewal(e) \/ DeployManually(e) \/ PlannerProceeds(e)
                  \/ WaveUnread(e) \/ RolloutCutShort(e)

\* What a rollout reads, whichever targets it could read.
LEMMA ListedType ==
    ASSUME Inv, NEW e \in Planners, NEW u \in SUBSET Places
    PROVE  /\ Listed(e, u) \in PlannerState /\ Listed(e, u).pc = "queue"
           /\ Listed(e, u).next = planner[e].next
           /\ Listed(e, u).off = {p \in Places : ~enabled[p]}
<1>. DEFINE off == {p \in Places : ~enabled[p]}
<1>1. planner[e] \in PlannerState
  BY DEF Inv, TypeOK
<1>2. off \in SUBSET Places
  OBVIOUS
<1>3. Listed(e, u) = [planner[e] EXCEPT !.pc = "queue", !.unread = u, !.off = off]
  BY DEF Listed
<1>. HIDE DEF off
<1>4. Listed(e, u) \in PlannerState /\ Listed(e, u).pc = "queue"
      /\ Listed(e, u).next = planner[e].next /\ Listed(e, u).off = off
  BY <1>1, <1>2, <1>3 DEF PlannerState
<1>. QED
  BY <1>4 DEF off

LEMMA ListingIsListed ==
    ASSUME NEW e \in Planners, ListPlaces(e) \/ WaveUnread(e)
    PROVE  \E u \in SUBSET Places : planner' = [planner EXCEPT ![e] = Listed(e, u)]
<1>1. CASE ListPlaces(e)
  <2>1. {} \in SUBSET Places
    OBVIOUS
  <2>. QED
    BY <1>1, <2>1 DEF ListPlaces
<1>2. CASE WaveUnread(e)
  <2>1. PICK p \in Places : planner' = [planner EXCEPT ![e] = Listed(e, {p})]
    BY <1>2 DEF WaveUnread
  <2>2. {p} \in SUBSET Places
    OBVIOUS
  <2>. QED
    BY <2>1, <2>2
<1>. QED
  BY <1>1, <1>2

LEMMA AdvanceType ==
    ASSUME Inv, NEW e \in Planners, Advance(e) PROVE planner' \in [Planners -> PlannerState]
<1>. DEFINE on == [planner[e] EXCEPT !.next = planner[e].next + 1]
<1>0. /\ Len(Listing) \in Nat /\ planner[e] \in PlannerState
      /\ planner \in [Planners -> PlannerState]
  BY DeploymentAssumption DEF Inv, TypeOK
<1>1. CASE planner[e].next = Len(Listing)
  BY <1>0, <1>1, NoRolloutType DEF Advance
<1>2. CASE planner[e].next # Len(Listing)
  <2>0. planner[e].next + 1 \in 1..Len(Listing)
    BY <1>0, <1>2 DEF PlannerState
  <2>1. on \in PlannerState
    BY <1>0, <2>0 DEF PlannerState
  <2>2. planner' = [planner EXCEPT ![e] = on]
    BY <1>2 DEF Advance
  <2>. HIDE DEF on
  <2>. QED
    BY <1>0, <2>1, <2>2
<1>. QED
  BY <1>1, <1>2

LEMMA PlannerStepInv ==
    ASSUME Inv, NEW e \in Planners, PlannerStep(e) PROVE Inv'
<1>0. RestOK /\ planner[e] \in PlannerState
  BY Assemble DEF RestOK
<1>1. CASE StoreRenewal(e)
  <2>1. JobsInv' /\ WorkersInv'
    BY <1>1, RowsSame, WorkersSame DEF StoreRenewal
  <2>2. cert' \in Fingerprints
    BY <1>0, <1>1, DeploymentAssumption DEF StoreRenewal, RestOK, Fingerprints
  <2>3. RestOK'
    BY <1>0, <1>1, <2>2, NoRolloutType DEF StoreRenewal, RestOK
  <2>. QED
    BY <2>1, <2>3, AssembleStep
<1>2. CASE DeployManually(e)
  <2>1. JobsInv' /\ WorkersInv'
    BY <1>2, RowsSame, WorkersSame DEF DeployManually
  <2>2. manual' \in 0..MaxManual
    BY <1>0, <1>2, DeploymentAssumption DEF DeployManually, RestOK
  <2>3. RestOK'
    BY <1>0, <1>2, <2>2, NoRolloutType DEF DeployManually, RestOK
  <2>. QED
    BY <2>1, <2>3, AssembleStep
<1>3. CASE ListPlaces(e) \/ WaveUnread(e)
  <2>1. JobsInv' /\ WorkersInv'
    BY <1>3, RowsSame, WorkersSame DEF ListPlaces, WaveUnread
  <2>2. PICK u \in SUBSET Places : planner' = [planner EXCEPT ![e] = Listed(e, u)]
    BY <1>3, ListingIsListed
  <2>3. planner' \in [Planners -> PlannerState]
    BY <1>0, <2>2, ListedType DEF RestOK
  <2>4. upsets' \in [count : Nat, met : SUBSET Upsets]
    BY <1>0, <1>3, UpsetType DEF ListPlaces, WaveUnread, RestOK
  <2>5. RestOK'
    BY <1>0, <1>3, <2>3, <2>4 DEF ListPlaces, WaveUnread, RestOK
  <2>. QED
    BY <2>1, <2>5, AssembleStep
<1>4. CASE SkipPlace(e)
  <2>1. JobsInv' /\ WorkersInv'
    BY <1>4, RowsSame, WorkersSame DEF SkipPlace
  <2>2. RestOK'
    BY <1>0, <1>4, AdvanceType DEF SkipPlace, RestOK
  <2>. QED
    BY <2>1, <2>2, AssembleStep
<1>5. CASE EnqueueDeployment(e)
  <2>. DEFINE p == Listing[planner[e].next]
  <2>0. p \in Places
    BY <1>0, ListedPlace DEF PlannerState
  <2>. HIDE DEF p
  <2>1. PICK j \in Jobs : /\ jobs[j].status = "FREE"
                          /\ jobs' = IF IndexAllows(j, p)
                                     THEN [jobs EXCEPT ![j] = QueuedRow(p, WaveRead(e, p))]
                                     ELSE jobs
    BY <1>5 DEF EnqueueDeployment, p
  <2>2. ASSUME ~IndexAllows(j, p) PROVE JobsInv' /\ JobsKept
    BY <2>1, <2>2, RowsSame
  <2>3. ASSUME IndexAllows(j, p) PROVE JobsInv' /\ JobsKept
    <3>. DEFINE new == QueuedRow(p, WaveRead(e, p))
    <3>1. /\ new \in JobRow /\ new.place = p /\ new.status = "PENDING" /\ new.lockedBy = NoOne
      BY <2>0, QueuedRowFacts, WaveReadFacts
    <3>2. jobs' = [jobs EXCEPT ![j] = new]
      BY <2>1, <2>3
    <3>. HIDE DEF new
    <3>. QED
      BY <2>0, <2>1, <2>3, <3>1, <3>2, RowFrame
  <2>4. JobsInv' /\ WorkersInv'
    BY <1>5, <2>2, <2>3, WorkersSame DEF EnqueueDeployment
  <2>5. RestOK'
    BY <1>0, <1>5, AdvanceType DEF EnqueueDeployment, RestOK
  <2>. QED
    BY <2>4, <2>5, AssembleStep
<1>6. CASE RolloutCutShort(e)
  <2>1. JobsInv' /\ WorkersInv'
    BY <1>6, RowsSame, WorkersSame DEF RolloutCutShort
  <2>2. RestOK'
    BY <1>0, <1>6, UpsetType, NoRolloutType DEF RolloutCutShort, RestOK
  <2>. QED
    BY <2>1, <2>2, AssembleStep
<1>. QED
  BY <1>1, <1>2, <1>3, <1>4, <1>5, <1>6 DEF PlannerStep, PlannerProceeds

-----------------------------------------------------------------------------
(* Workers *)

WorkerStep(w) == \/ WorkerProceeds(w) \/ BuildFails(w) \/ InstallFails(w)
                 \/ RecordOutcomeFails(w) \/ CompletionLost(w) \/ ExtendDeploymentLease(w)
                 \/ Crash(w)

\* The next program counter of a goroutine that keeps its job.
LEMMA GotoFrame ==
    ASSUME Inv, JobsKept, NEW w \in Workers, worker[w].pc # "idle",
           NEW pc \in {"install", "record", "finish", "announce"}, Goto(w, pc)
    PROVE  WorkersInv'
<1>. DEFINE s == [worker[w] EXCEPT !.pc = pc]
<1>1. s \in WorkerState /\ s.job = worker[w].job
  BY HolderFacts DEF WorkerState
<1>2. worker' = [worker EXCEPT ![w] = s]
  BY DEF Goto
<1>. HIDE DEF s
<1>. QED
  BY <1>1, <1>2, WorkerGoesOn

LEMMA ClaimFacts ==
    ASSUME Inv, NEW w \in Workers, NEW j \in Jobs, Ready(j),
           NEW new, new = [jobs[j] EXCEPT !.status = "RUNNING", !.lockedBy = w, !.lapsed = FALSE],
           jobs' = [jobs EXCEPT ![j] = new]
    PROVE  JobsInv' /\ JobsKept /\ jobs'[j].status = "RUNNING"
<1>1. /\ jobs \in [Jobs -> JobRow] /\ jobs[j] \in JobRow
      /\ jobs[j].status \in {"PENDING", "RUNNING"} /\ jobs[j].place \in Places
      /\ w # NoOne
  BY DeploymentAssumption DEF Inv, TypeOK, RowsNamed, Ready, JobRow
<1>2. /\ new \in JobRow /\ new.status = "RUNNING" /\ new.lockedBy = w
      /\ new.place = jobs[j].place
  BY <1>1 DEF JobRow, Statuses
<1>3. Outstanding(j)
  BY <1>1 DEF Outstanding
<1>. QED
  BY <1>1, <1>2, <1>3, RowFrame

\* The rows CompleteDeploymentJob writes.
LEMMA CompletedRows ==
    ASSUME Inv, NEW j \in Jobs, jobs[j].status # "FREE", NEW esc \in BOOLEAN
    PROVE  /\ DoneRow(j) \in JobRow /\ DoneRow(j).status = "SUCCEEDED"
           /\ DoneRow(j).lockedBy = NoOne /\ DoneRow(j).place = jobs[j].place
           /\ RetryRow(j, esc) \in JobRow /\ RetryRow(j, esc).status = "PENDING"
           /\ RetryRow(j, esc).lockedBy = NoOne /\ RetryRow(j, esc).place = jobs[j].place
<1>1. jobs[j] \in JobRow /\ jobs[j].escalated \in BOOLEAN
  BY DEF Inv, TypeOK, JobRow
<1>2. (jobs[j].escalated \/ esc) \in BOOLEAN
  BY <1>1
<1>. QED
  BY <1>1, <1>2 DEF DoneRow, RetryRow, JobRow, Statuses

LEMMA WorkerStepInv ==
    ASSUME Inv, NEW w \in Workers, WorkerStep(w) PROVE Inv'
<1>0. RestOK /\ worker[w] \in WorkerState
  BY Assemble DEF WorkersInv
<1>1. CASE ClaimDeploymentJob(w)
  <2>1. PICK j \in Jobs :
          /\ Claimable(j)
          /\ jobs' = [jobs EXCEPT ![j] = [jobs[j] EXCEPT !.status = "RUNNING",
                                            !.lockedBy = w, !.lapsed = FALSE]]
          /\ worker' = [worker EXCEPT ![w] = [IdleWorker EXCEPT !.pc = "read", !.job = j,
                                                !.escalated = jobs[j].escalated]]
    BY <1>1 DEF ClaimDeploymentJob
  <2>2. JobsInv' /\ JobsKept /\ jobs'[j].status = "RUNNING"
    BY <2>1, ClaimFacts DEF Claimable
  <2>. DEFINE s == [IdleWorker EXCEPT !.pc = "read", !.job = j,
                                      !.escalated = jobs[j].escalated]
  <2>3. jobs[j].escalated \in BOOLEAN
    BY DEF Inv, TypeOK, JobRow
  <2>4. s \in WorkerState /\ s.job = j
    BY <2>3, IdleWorkerType DEF WorkerState
  <2>5. worker' = [worker EXCEPT ![w] = s]
    BY <2>1
  <2>. HIDE DEF s
  <2>6. WorkersInv'
    BY <2>2, <2>4, <2>5, WorkerFrame
  <2>7. RestOK'
    BY <1>0, <1>1 DEF ClaimDeploymentJob, RestOK
  <2>. QED
    BY <2>2, <2>6, <2>7, AssembleStep
<1>2. CASE BuildBundle(w)
  <2>1. JobsInv' /\ JobsKept /\ worker[w].pc # "idle" /\ cert \in Fingerprints
    BY <1>0, <1>2, RowsSame DEF BuildBundle, RestOK
  <2>. DEFINE s == IF enabled[PlaceOf(w)]
                   THEN [worker[w] EXCEPT !.pc = "install", !.fp = cert]
                   ELSE [worker[w] EXCEPT !.pc = "finish", !.ok = FALSE]
  <2>2. s \in WorkerState /\ s.job = worker[w].job
    BY <1>0, <2>1 DEF WorkerState
  <2>3. worker' = [worker EXCEPT ![w] = s]
    BY <1>2 DEF BuildBundle
  <2>. HIDE DEF s
  <2>4. WorkersInv'
    BY <2>1, <2>2, <2>3, WorkerGoesOn
  <2>5. RestOK'
    BY <1>0, <1>2 DEF BuildBundle, RestOK
  <2>. QED
    BY <2>1, <2>4, <2>5, AssembleStep
<1>3. CASE BuildFails(w)
  <2>1. JobsInv' /\ JobsKept /\ worker[w].pc # "idle"
    BY <1>3, RowsSame DEF BuildFails
  <2>. DEFINE s == [worker[w] EXCEPT !.pc = "finish", !.ok = FALSE]
  <2>2. s \in WorkerState /\ s.job = worker[w].job
    BY <1>0 DEF WorkerState
  <2>3. worker' = [worker EXCEPT ![w] = s]
    BY <1>3 DEF BuildFails
  <2>. HIDE DEF s
  <2>4. WorkersInv'
    BY <2>1, <2>2, <2>3, WorkerGoesOn
  <2>5. RestOK'
    BY <1>0, <1>3, UpsetType DEF BuildFails, RestOK
  <2>. QED
    BY <2>1, <2>4, <2>5, AssembleStep
<1>4. CASE InstallSucceeds(w) \/ InstallFails(w)
  <2>1. JobsInv' /\ JobsKept /\ worker[w].pc # "idle"
    BY <1>4, RowsSame DEF InstallSucceeds, InstallFails
  <2>2. PlaceOf(w) \in Places /\ worker[w].fp \in Fingerprints
    BY <2>1, HolderFacts DEF PlaceOf
  <2>3. PICK ok \in BOOLEAN :
          worker' = [worker EXCEPT ![w] = [worker[w] EXCEPT !.pc = "record", !.ok = ok]]
    BY <1>4 DEF InstallSucceeds, InstallFails
  <2>. DEFINE s == [worker[w] EXCEPT !.pc = "record", !.ok = ok]
  <2>4. s \in WorkerState /\ s.job = worker[w].job
    BY <1>0 DEF WorkerState
  <2>5. worker' = [worker EXCEPT ![w] = s]
    BY <2>3
  <2>. HIDE DEF s
  <2>6. WorkersInv'
    BY <2>1, <2>4, <2>5, WorkerGoesOn
  <2>7. holds' \in [Places -> Fingerprints]
    BY <1>0, <1>4, <2>2 DEF InstallSucceeds, InstallFails, RestOK
  <2>8. tried' \in [Places -> BOOLEAN]
    <3>1. tried' = [tried EXCEPT ![PlaceOf(w)] = tried[PlaceOf(w)] \/ worker[w].fp = cert]
      BY <1>4 DEF InstallSucceeds, InstallFails, Tried
    <3>2. (tried[PlaceOf(w)] \/ worker[w].fp = cert) \in BOOLEAN
      OBVIOUS
    <3>. QED
      BY <1>0, <3>1, <3>2 DEF RestOK
  <2>9. accepted' \in [Places -> SUBSET Fingerprints]
    BY <1>0, <1>4, <2>2 DEF InstallSucceeds, InstallFails, RestOK
  <2>10. RestOK'
    BY <1>0, <1>4, <2>7, <2>8, <2>9, UpsetType DEF InstallSucceeds, InstallFails, RestOK
  <2>. QED
    BY <2>1, <2>6, <2>10, AssembleStep
<1>5. CASE RecordDeploymentOutcome(w) \/ RecordOutcomeFails(w)
  <2>1. JobsInv' /\ JobsKept /\ worker[w].pc # "idle" /\ Goto(w, "finish")
    BY <1>5, RowsSame DEF RecordDeploymentOutcome, RecordOutcomeFails
  <2>2. PlaceOf(w) \in Places /\ worker[w].fp \in Fingerprints
    BY <2>1, HolderFacts DEF PlaceOf
  <2>3. WorkersInv'
    BY <2>1, GotoFrame
  <2>4. deployed' \in [Places -> Fingerprints]
    BY <1>0, <1>5, <2>2 DEF RecordDeploymentOutcome, RecordOutcomeFails, RestOK
  <2>5. RestOK'
    BY <1>0, <1>5, <2>4, UpsetType DEF RecordDeploymentOutcome, RecordOutcomeFails, RestOK
  <2>. QED
    BY <2>1, <2>3, <2>5, AssembleStep
<1>6. CASE CompleteDeploymentJob(w)
  <2>. DEFINE j == worker[w].job
  <2>1. /\ worker[w].pc # "idle" /\ j \in Jobs /\ jobs[j].status # "FREE"
        /\ jobs[j].place \in Places
    BY <1>6, HolderFacts DEF CompleteDeploymentJob
  <2>2. ASSUME jobs' = [jobs EXCEPT ![j] = DoneRow(j)] PROVE JobsInv' /\ JobsKept
    BY <2>1, <2>2, CompletedRows, RowFrame
  <2>3. ASSUME NEW esc \in BOOLEAN, IndexAllows(j, jobs[j].place),
               jobs' = [jobs EXCEPT ![j] = RetryRow(j, esc)]
        PROVE  JobsInv' /\ JobsKept
    BY <2>1, <2>3, CompletedRows, RowFrame
  <2>4. JobsInv' /\ JobsKept
    <3>1. CASE worker[w].ok
      BY <1>6, <2>2, <3>1 DEF CompleteDeploymentJob
    <3>2. CASE ~worker[w].ok
      <4>1. PICK esc \in BOOLEAN :
              jobs' = IF IndexAllows(j, jobs[j].place)
                      THEN [jobs EXCEPT ![j] = RetryRow(j, esc)] ELSE jobs
        BY <1>6, <3>2, DeploymentAssumption DEF CompleteDeploymentJob
      <4>. QED
        BY <2>3, <4>1, RowsSame
    <3>. QED
      BY <3>1, <3>2
  <2>5. Goto(w, "announce") \/ worker' = [worker EXCEPT ![w] = IdleWorker]
    BY <1>6 DEF CompleteDeploymentJob
  <2>6. WorkersInv'
    BY <2>1, <2>4, <2>5, GotoFrame, WorkerGivesUp
  <2>7. RestOK'
    BY <1>0, <1>6 DEF CompleteDeploymentJob, RestOK
  <2>. QED
    BY <2>4, <2>6, <2>7, AssembleStep
<1>7. CASE CompletionLost(w)
  <2>1. /\ JobsInv' /\ JobsKept /\ worker[w].pc # "idle"
        /\ Goto(w, "announce") \/ worker' = [worker EXCEPT ![w] = IdleWorker]
    BY <1>7, RowsSame DEF CompletionLost
  <2>2. WorkersInv'
    BY <2>1, GotoFrame, WorkerGivesUp
  <2>3. RestOK'
    BY <1>0, <1>7, UpsetType DEF CompletionLost, RestOK
  <2>. QED
    BY <2>1, <2>2, <2>3, AssembleStep
<1>8. CASE AnnounceEscalation(w)
  <2>1. JobsInv' /\ JobsKept /\ worker[w].pc # "idle" /\ worker[w].job \in Jobs
    BY <1>8, RowsSame, HolderFacts DEF AnnounceEscalation
  <2>2. WorkersInv'
    BY <1>8, <2>1, WorkerGivesUp DEF AnnounceEscalation
  <2>3. RestOK'
    BY <1>0, <1>8, <2>1, TwiceType DEF AnnounceEscalation, RestOK
  <2>. QED
    BY <2>1, <2>2, <2>3, AssembleStep
<1>9. CASE ExtendDeploymentLease(w)
  <2>. DEFINE j == worker[w].job
              new == [jobs[j] EXCEPT !.lapsed = FALSE]
  <2>1. /\ j \in Jobs /\ jobs[j] \in JobRow /\ jobs[j].status = "RUNNING"
        /\ jobs[j].place \in Places
        /\ (jobs[j].lockedBy # NoOne) = (jobs[j].status = "RUNNING")
    BY <1>9, HolderFacts DEF ExtendDeploymentLease, Inv, LockFollowsStatus
  <2>2. /\ new \in JobRow /\ new.status = "RUNNING" /\ new.place = jobs[j].place
        /\ new.lockedBy = jobs[j].lockedBy
    BY <2>1 DEF JobRow
  <2>3. jobs' = [jobs EXCEPT ![j] = new] /\ Outstanding(j)
    BY <1>9, <2>1 DEF ExtendDeploymentLease, Outstanding
  <2>. HIDE DEF new
  <2>4. JobsInv' /\ JobsKept
    BY <2>1, <2>2, <2>3, RowFrame
  <2>5. WorkersInv' /\ RestOK'
    BY <1>0, <1>9, <2>4, WorkersSame DEF ExtendDeploymentLease, RestOK
  <2>. QED
    BY <2>4, <2>5, AssembleStep
<1>10. CASE Crash(w)
  <2>1. JobsInv' /\ JobsKept
    BY <1>10, RowsSame DEF Crash
  <2>2. WorkersInv'
    BY <1>10, <2>1, WorkerGivesUp DEF Crash
  <2>3. RestOK'
    BY <1>0, <1>10, UpsetType DEF Crash, RestOK
  <2>. QED
    BY <2>1, <2>2, <2>3, AssembleStep
<1>. QED
  BY <1>1, <1>2, <1>3, <1>4, <1>5, <1>6, <1>7, <1>8, <1>9, <1>10 DEF WorkerStep, WorkerProceeds

-----------------------------------------------------------------------------
(* Time and interventions *)

RowStep(j) == BecomeDue(j) \/ LeaseRunsOut(j) \/ LeaseLapses(j) \/ CancelDeploymentJob(j)

LEMMA RowStepInv ==
    ASSUME Inv, NEW j \in Jobs, RowStep(j) PROVE Inv'
<1>0. /\ RestOK /\ jobs[j] \in JobRow /\ Outstanding(j) /\ jobs[j].status # "FREE"
      /\ jobs[j].place \in Places
      /\ (jobs[j].lockedBy # NoOne) = (jobs[j].status = "RUNNING")
  <2>1. RestOK /\ jobs[j] \in JobRow /\ Outstanding(j)
    BY Assemble DEF JobsInv, RowStep, BecomeDue, LeaseRunsOut, LeaseLapses,
                    CancelDeploymentJob, Outstanding
  <2>. QED
    BY <2>1 DEF Inv, RowsNamed, LockFollowsStatus, Outstanding, JobRow
<1>1. PICK new \in JobRow :
        /\ jobs' = [jobs EXCEPT ![j] = new]
        /\ new.status # "FREE" /\ new.place = jobs[j].place
        /\ (new.lockedBy # NoOne) = (new.status = "RUNNING")
  <2>1. CASE BecomeDue(j)
    <3>1. [jobs[j] EXCEPT !.due = TRUE] \in JobRow
      BY <1>0 DEF JobRow
    <3>. QED
      BY <1>0, <2>1, <3>1 DEF BecomeDue, JobRow
  <2>2. CASE LeaseRunsOut(j) \/ LeaseLapses(j)
    <3>1. [jobs[j] EXCEPT !.lapsed = TRUE] \in JobRow
      BY <1>0 DEF JobRow
    <3>. QED
      BY <1>0, <2>2, <3>1 DEF LeaseRunsOut, LeaseLapses, JobRow
  <2>3. CASE CancelDeploymentJob(j)
    <3>1. [jobs[j] EXCEPT !.status = "CANCELLED", !.lockedBy = NoOne, !.lapsed = FALSE]
            \in JobRow
      BY <1>0 DEF JobRow, Statuses
    <3>. QED
      BY <1>0, <2>3, <3>1 DEF CancelDeploymentJob, JobRow
  <2>. QED
    BY <2>1, <2>2, <2>3 DEF RowStep
<1>2. JobsInv' /\ JobsKept
  BY <1>0, <1>1, RowFrame
<1>3. WorkersInv'
  BY <1>2, WorkersSame DEF RowStep, BecomeDue, LeaseRunsOut, LeaseLapses,
                           CancelDeploymentJob
<1>4. RestOK'
  BY <1>0, UpsetType DEF RowStep, BecomeDue, LeaseRunsOut, LeaseLapses, CancelDeploymentJob,
                         RestOK
<1>. QED
  BY <1>2, <1>3, <1>4, AssembleStep

LEMMA SwitchInv == ASSUME Inv, NEW p \in Places, SwitchPlace(p) PROVE Inv'
<1>0. RestOK
  BY Assemble
<1>1. JobsInv' /\ JobsKept /\ WorkersInv'
  BY RowsSame, WorkersSame DEF SwitchPlace
<1>2. RestOK'
  BY <1>0, UpsetType DEF SwitchPlace, RestOK
<1>. QED
  BY <1>1, <1>2, AssembleStep

LEMMA StepInv == Inv /\ [Next]_vars => Inv'
<1>. SUFFICES ASSUME Inv, [Next]_vars PROVE Inv'
  OBVIOUS
<1>1. CASE UNCHANGED vars
  BY <1>1 DEF vars, Inv, TypeOK, RowsNamed, LockFollowsStatus, OneOutstandingPerPlace,
              Outstanding, HoldersNamed
<1>2. CASE Next
  BY <1>2, PlannerStepInv, WorkerStepInv, RowStepInv, SwitchInv
     DEF Next, PlannerStep, WorkerStep, RowStep
<1>. QED
  BY <1>1, <1>2

\* The inductive invariant: besides the types, rows in use name their place and
\* goroutines at work have a row in use.
THEOREM Invariance == Spec => []Inv
BY InitInv, StepInv, PTL DEF Spec

\* Rows, goroutines, rollouts and records keep their shape.
THEOREM DeploymentTypeCorrect == Spec => []TypeOK
<1>1. Inv => TypeOK
  BY DEF Inv
<1>. QED
  BY Invariance, <1>1, PTL

\* Whatever late completions, cancellations and take-overs do, a place has at
\* most one outstanding job (EnqueueDeployment, CompleteDeploymentJob and the
\* index idx_deployment_jobs_one_outstanding).
THEOREM OnePerPlace == Spec => []OneOutstandingPerPlace
<1>1. Inv => OneOutstandingPerPlace
  BY DEF Inv
<1>. QED
  BY Invariance, <1>1, PTL

\* A row is locked exactly while it is RUNNING.
THEOREM LockedIffRunning == Spec => []LockFollowsStatus
<1>1. Inv => LockFollowsStatus
  BY DEF Inv
<1>. QED
  BY Invariance, <1>1, PTL

-----------------------------------------------------------------------------
(* Places never go back, as long as leases hold and nobody cancels *)

Working(w) == worker[w].pc \in {"read", "install", "record", "finish"}

\* A goroutine at work has its row to itself.
HasTheRow(w) == /\ jobs[worker[w].job].status = "RUNNING"
                /\ jobs[worker[w].job].lockedBy = w
                /\ ~jobs[worker[w].job].lapsed

Exclusive == \A w \in Workers : Working(w) => HasTheRow(w)

\* No place is ahead of the record, nor of the bundle that is about to arrive.
NotAhead ==
    /\ \A p \in Places : holds[p] <= cert
    /\ \A w \in Workers : worker[w].pc = "install"
                            => worker[w].fp <= cert /\ holds[PlaceOf(w)] <= worker[w].fp

AdvanceInv == Inv /\ Exclusive /\ NotAhead

\* An upset once met stays met; the step that ends the time in which leases held
\* moves no place.
LEMMA UpsetStep ==
    ASSUME [Next]_vars
    PROVE  /\ LeasesHold' => LeasesHold
           /\ LeasesHold => LeasesHold' \/ UNCHANGED holds
<1>. DEFINE Harmless == \/ upsets' = upsets
                        \/ \E c \in UpsetClasses \ {"lapse", "cancel"} : Upset(c)
            Harmful == (Upset("lapse") \/ Upset("cancel")) /\ UNCHANGED holds
<1>1. Harmless \/ Harmful
  <2>1. ASSUME NEW e \in Planners, PlannerStep(e) PROVE Harmless
    BY <2>1 DEF PlannerStep, PlannerProceeds, StoreRenewal, DeployManually, ListPlaces,
                WaveUnread, SkipPlace, EnqueueDeployment, RolloutCutShort, UpsetClasses
  <2>2. ASSUME NEW w \in Workers, WorkerStep(w) PROVE Harmless
    <3>1. CASE \/ ClaimDeploymentJob(w) \/ BuildBundle(w) \/ InstallSucceeds(w)
               \/ RecordDeploymentOutcome(w) \/ CompleteDeploymentJob(w)
               \/ AnnounceEscalation(w) \/ ExtendDeploymentLease(w)
      BY <3>1 DEF ClaimDeploymentJob, BuildBundle, InstallSucceeds, RecordDeploymentOutcome,
                  CompleteDeploymentJob, AnnounceEscalation, ExtendDeploymentLease
    <3>2. CASE BuildFails(w) \/ InstallFails(w)
      BY <3>2 DEF BuildFails, InstallFails, UpsetClasses
    <3>3. CASE RecordOutcomeFails(w) \/ CompletionLost(w) \/ Crash(w)
      BY <3>3 DEF RecordOutcomeFails, CompletionLost, Crash, UpsetClasses
    <3>. QED
      BY <2>2, <3>1, <3>2, <3>3 DEF WorkerStep, WorkerProceeds
  <2>3. ASSUME NEW j \in Jobs, RowStep(j) PROVE Harmless \/ Harmful
    BY <2>3 DEF RowStep, BecomeDue, LeaseRunsOut, LeaseLapses, CancelDeploymentJob
  <2>4. ASSUME NEW p \in Places, SwitchPlace(p) PROVE Harmless
    BY <2>4 DEF SwitchPlace, UpsetClasses
  <2>5. CASE UNCHANGED vars
    BY <2>5 DEF vars
  <2>. QED
    BY <2>1, <2>2, <2>3, <2>4, <2>5 DEF Next, PlannerStep, WorkerStep, RowStep
<1>2. ASSUME NEW c, Upset(c)
      PROVE  /\ LeasesHold' => LeasesHold
             /\ c \notin {"lapse", "cancel"} => (LeasesHold => LeasesHold')
  BY <1>2 DEF Upset, LeasesHold, Without
<1>3. CASE upsets' = upsets
  BY <1>3 DEF LeasesHold, Without
<1>. QED
  BY <1>1, <1>2, <1>3

LEMMA Numbers ==
    ASSUME Inv
    PROVE  /\ cert \in Nat /\ \A p \in Places : holds[p] \in Nat
           /\ \A w \in Workers : worker[w].fp \in Nat
<1>1. \A n \in Fingerprints : n \in Nat
  BY DeploymentAssumption DEF Fingerprints
<1>. QED
  BY <1>1 DEF Inv, TypeOK, WorkerState

\* Two goroutines at work are at work on different rows, for different places.
LEMMA Apart ==
    ASSUME AdvanceInv, NEW v \in Workers, NEW w \in Workers, v # w, Working(v), Working(w)
    PROVE  /\ worker[v].job \in Jobs /\ worker[w].job \in Jobs
           /\ worker[v].job # worker[w].job /\ PlaceOf(v) # PlaceOf(w)
<1>1. /\ worker[v].job \in Jobs /\ worker[w].job \in Jobs
      /\ HasTheRow(v) /\ HasTheRow(w)
  BY HolderFacts DEF AdvanceInv, Exclusive, Working
<1>2. worker[v].job # worker[w].job
  BY <1>1 DEF HasTheRow
<1>. QED
  BY <1>1, <1>2 DEF HasTheRow, AdvanceInv, Inv, OneOutstandingPerPlace, Outstanding, PlaceOf

\* Steps that touch no row, no goroutine and no place.
LEMMA QuietStep ==
    ASSUME AdvanceInv, UNCHANGED <<jobs, worker, holds>>, cert' \in Nat, cert <= cert'
    PROVE  Exclusive' /\ NotAhead'
BY Numbers DEF AdvanceInv, Exclusive, NotAhead, HasTheRow, Working, PlaceOf

\* Steps that write a row nobody is at work on.
LEMMA ForeignRow ==
    ASSUME AdvanceInv, NEW j \in Jobs, NEW new, jobs' = [jobs EXCEPT ![j] = new],
           \A v \in Workers : Working(v) => worker[v].job # j,
           UNCHANGED <<worker, holds, cert>>
    PROVE  Exclusive' /\ NotAhead'
<1>1. \A v \in Workers : Working(v) => /\ worker[v].job \in Jobs
                                       /\ jobs'[worker[v].job] = jobs[worker[v].job]
  BY HolderFacts DEF AdvanceInv, Working, Inv, TypeOK
<1>. QED
  BY <1>1 DEF AdvanceInv, Exclusive, NotAhead, HasTheRow, Working, PlaceOf

\* A goroutine at work goes on, its row as it was.
LEMMA GoesOn ==
    ASSUME AdvanceInv, NEW w \in Workers, NEW s,
           worker' = [worker EXCEPT ![w] = s], UNCHANGED <<jobs, holds, cert>>,
           Working(w), s.job = worker[w].job,
           s.pc = "install" => s.fp = cert
    PROVE  Exclusive' /\ NotAhead'
<1>1. \A v \in Workers : worker'[v] = IF v = w THEN s ELSE worker[v]
  BY DEF AdvanceInv, Inv, TypeOK
<1>2. Exclusive'
  BY <1>1 DEF AdvanceInv, Exclusive, HasTheRow, Working
<1>3. PlaceOf(w) \in Places
  BY HolderFacts DEF AdvanceInv, Working, PlaceOf
<1>4. NotAhead'
  BY <1>1, <1>3, Numbers DEF AdvanceInv, NotAhead, PlaceOf
<1>. QED
  BY <1>2, <1>4

\* At most the row a goroutine is at work on is written.
OwnRowOnly(w) == \A k \in Jobs : jobs'[k] = jobs[k] \/ (Working(w) /\ k = worker[w].job)

\* A goroutine that stops working, and writes at most its own row.
LEMMA StopsWorking ==
    ASSUME AdvanceInv, NEW w \in Workers, NEW s \in WorkerState,
           s.pc = "idle" \/ s.pc = "announce",
           worker' = [worker EXCEPT ![w] = s], UNCHANGED <<holds, cert>>,
           OwnRowOnly(w)
    PROVE  Exclusive' /\ NotAhead'
<1>1. \A v \in Workers : worker'[v] = IF v = w THEN s ELSE worker[v]
  BY DEF AdvanceInv, Inv, TypeOK
<1>2. ASSUME NEW v \in Workers, v # w, Working(v)
      PROVE  worker[v].job \in Jobs /\ jobs'[worker[v].job] = jobs[worker[v].job]
  <2>1. worker[v].job \in Jobs
    BY <1>2, HolderFacts DEF AdvanceInv, Working
  <2>. QED
    BY <1>2, <2>1, Apart DEF OwnRowOnly
<1>3. Exclusive'
  BY <1>1, <1>2 DEF AdvanceInv, Exclusive, HasTheRow, Working
<1>4. NotAhead'
  BY <1>1, <1>2 DEF AdvanceInv, NotAhead, PlaceOf, Working
<1>. QED
  BY <1>3, <1>4

\* A bundle arrives, or an attempt ends without it: the place moves forward, and
\* nobody else is about to write to it.
LEMMA BundleArrives ==
    ASSUME AdvanceInv, NEW w \in Workers, InstallSucceeds(w) \/ InstallFails(w)
    PROVE  /\ Exclusive' /\ NotAhead'
           /\ \A p \in Places : holds'[p] >= holds[p]
<1>. DEFINE q == PlaceOf(w)
            f == worker[w].fp
<1>1. /\ worker[w].pc = "install" /\ Working(w) /\ q \in Places
      /\ f <= cert /\ holds[q] <= f
  BY HolderFacts DEF AdvanceInv, NotAhead, InstallSucceeds, InstallFails, Working, PlaceOf
<1>2. PICK ok \in BOOLEAN :
        worker' = [worker EXCEPT ![w] = [worker[w] EXCEPT !.pc = "record", !.ok = ok]]
  BY DEF InstallSucceeds, InstallFails
<1>. DEFINE s == [worker[w] EXCEPT !.pc = "record", !.ok = ok]
<1>3. worker[w] \in WorkerState /\ s.pc = "record" /\ s.job = worker[w].job
  BY DEF AdvanceInv, Inv, TypeOK, WorkerState
<1>4. \A v \in Workers : worker'[v] = IF v = w THEN s ELSE worker[v]
  BY <1>2 DEF AdvanceInv, Inv, TypeOK
<1>5. UNCHANGED <<jobs, cert>>
  BY DEF InstallSucceeds, InstallFails
<1>6. holds' \in {holds, [holds EXCEPT ![q] = f]}
  BY DEF InstallSucceeds, InstallFails
<1>. HIDE DEF s, f
<1>7. \A p \in Places : holds'[p] = holds[p] \/ (p = q /\ holds'[p] = f)
  <2>1. holds \in [Places -> Fingerprints] /\ q \in Places
    BY <1>1 DEF AdvanceInv, Inv, TypeOK
  <2>. HIDE DEF q
  <2>2. CASE holds' = holds
    BY <2>2
  <2>3. CASE holds' = [holds EXCEPT ![q] = f]
    BY <2>1, <2>3
  <2>. QED
    BY <1>6, <2>2, <2>3
<1>8. f \in Nat /\ cert \in Nat /\ \A p \in Places : holds[p] \in Nat
  BY Numbers DEF AdvanceInv, f
<1>9. Exclusive'
  BY <1>1, <1>3, <1>4, <1>5 DEF AdvanceInv, Exclusive, HasTheRow, Working
<1>10. ASSUME NEW v \in Workers, worker'[v].pc = "install"
       PROVE  worker'[v].fp <= cert' /\ holds'[PlaceOf(v)'] <= worker'[v].fp
  <2>1. v # w /\ worker[v].pc = "install" /\ worker'[v] = worker[v]
    BY <1>3, <1>4, <1>10
  <2>2. /\ PlaceOf(v) \in Places /\ PlaceOf(v) # q /\ PlaceOf(v)' = PlaceOf(v)
    BY <1>1, <1>5, <2>1, Apart, HolderFacts DEF Working, PlaceOf, AdvanceInv
  <2>3. holds'[PlaceOf(v)] = holds[PlaceOf(v)]
    BY <1>7, <2>2
  <2>. QED
    BY <1>5, <2>1, <2>2, <2>3 DEF AdvanceInv, NotAhead
<1>11. NotAhead'
  BY <1>1, <1>5, <1>7, <1>8, <1>10 DEF AdvanceInv, NotAhead
<1>. QED
  BY <1>1, <1>7, <1>8, <1>9, <1>11

LEMMA AdvanceStep ==
    ASSUME LeasesHold', AdvanceInv, [Next]_vars
    PROVE  Exclusive' /\ NotAhead' /\ [\A p \in Places : holds'[p] >= holds[p]]_vars
<1>. DEFINE Good == /\ Exclusive' /\ NotAhead'
                    /\ \A p \in Places : holds'[p] >= holds[p]
<1>0. /\ Inv /\ cert \in Nat /\ \A p \in Places : holds[p] \in Nat
  BY Numbers DEF AdvanceInv
<1>1. ASSUME holds' = holds, Exclusive', NotAhead' PROVE Good
  BY <1>0, <1>1
<1>2. ASSUME NEW e \in Planners, PlannerStep(e) PROVE Good
  <2>1. holds' = holds /\ worker' = worker /\ cert' \in Nat /\ cert <= cert'
    <3>1. holds' = holds /\ worker' = worker /\ (cert' = cert \/ cert' = cert + 1)
      BY <1>2 DEF PlannerStep, PlannerProceeds, StoreRenewal, DeployManually, ListPlaces,
                  WaveUnread, SkipPlace, EnqueueDeployment, RolloutCutShort
    <3>. QED
      BY <1>0, <3>1
  <2>2. CASE jobs' = jobs
    BY <1>1, <2>1, <2>2, QuietStep
  <2>3. CASE EnqueueDeployment(e) /\ jobs' # jobs
    <3>1. PICK j \in Jobs : /\ jobs[j].status = "FREE"
                            /\ \E new : jobs' = [jobs EXCEPT ![j] = new]
      BY <2>3 DEF EnqueueDeployment
    <3>2. \A v \in Workers : Working(v) => worker[v].job # j
      BY <3>1 DEF AdvanceInv, Exclusive, HasTheRow
    <3>3. cert' = cert
      BY <2>3 DEF EnqueueDeployment
    <3>. QED
      BY <1>1, <2>1, <3>1, <3>2, <3>3, ForeignRow
  <2>. QED
    BY <1>2, <2>2, <2>3 DEF PlannerStep, PlannerProceeds, StoreRenewal, DeployManually,
                            ListPlaces, WaveUnread, SkipPlace, RolloutCutShort
<1>3. ASSUME NEW w \in Workers, WorkerStep(w) PROVE Good
  <2>0. worker[w] \in WorkerState /\ worker \in [Workers -> WorkerState]
    BY <1>0 DEF Inv, TypeOK
  <2>1. CASE ClaimDeploymentJob(w)
    <3>1. PICK j \in Jobs :
            /\ Claimable(j)
            /\ jobs' = [jobs EXCEPT ![j] = [jobs[j] EXCEPT !.status = "RUNNING",
                                              !.lockedBy = w, !.lapsed = FALSE]]
            /\ worker' = [worker EXCEPT ![w] = [IdleWorker EXCEPT !.pc = "read", !.job = j,
                                                  !.escalated = jobs[j].escalated]]
      BY <2>1 DEF ClaimDeploymentJob
    <3>2. UNCHANGED <<cert, holds>> /\ worker[w].pc = "idle"
      BY <2>1 DEF ClaimDeploymentJob
    <3>. DEFINE s == [IdleWorker EXCEPT !.pc = "read", !.job = j,
                                        !.escalated = jobs[j].escalated]
                new == [jobs[j] EXCEPT !.status = "RUNNING", !.lockedBy = w, !.lapsed = FALSE]
    <3>3. /\ s.pc = "read" /\ s.job = j
          /\ new.status = "RUNNING" /\ new.lockedBy = w /\ ~new.lapsed
      BY <1>0 DEF IdleWorker, Inv, TypeOK, JobRow
    <3>4. /\ \A v \in Workers : worker'[v] = IF v = w THEN s ELSE worker[v]
          /\ \A k \in Jobs : jobs'[k] = IF k = j THEN new ELSE jobs[k]
      BY <1>0, <2>0, <3>1 DEF Inv, TypeOK
    <3>5. \A v \in Workers : Working(v) => /\ worker[v].job \in Jobs
                                           /\ worker[v].job # j
      BY <1>0, <3>1, HolderFacts
         DEF AdvanceInv, Exclusive, HasTheRow, Working, Claimable, Ready
    <3>. HIDE DEF s, new
    <3>6. Exclusive'
      BY <3>3, <3>4, <3>5 DEF AdvanceInv, Exclusive, HasTheRow, Working
    <3>7. NotAhead'
      BY <3>2, <3>3, <3>4, <3>5 DEF AdvanceInv, NotAhead, PlaceOf, Working
    <3>. QED
      BY <1>1, <3>2, <3>6, <3>7
  <2>2. CASE BuildBundle(w)
    <3>. DEFINE s == IF enabled[PlaceOf(w)]
                     THEN [worker[w] EXCEPT !.pc = "install", !.fp = cert]
                     ELSE [worker[w] EXCEPT !.pc = "finish", !.ok = FALSE]
    <3>1. /\ worker' = [worker EXCEPT ![w] = s] /\ Working(w)
          /\ UNCHANGED <<jobs, holds, cert>>
      BY <2>2 DEF BuildBundle, Working
    <3>2. s.job = worker[w].job /\ (s.pc = "install" => s.fp = cert)
      BY <2>0 DEF WorkerState
    <3>. HIDE DEF s
    <3>. QED
      BY <1>1, <3>1, <3>2, GoesOn
  <2>3. CASE BuildFails(w)
    <3>. DEFINE s == [worker[w] EXCEPT !.pc = "finish", !.ok = FALSE]
    <3>1. /\ worker' = [worker EXCEPT ![w] = s] /\ Working(w)
          /\ UNCHANGED <<jobs, holds, cert>>
      BY <2>3 DEF BuildFails, Working
    <3>2. s.job = worker[w].job /\ s.pc = "finish"
      BY <2>0 DEF WorkerState
    <3>. HIDE DEF s
    <3>. QED
      BY <1>1, <3>1, <3>2, GoesOn
  <2>4. CASE InstallSucceeds(w) \/ InstallFails(w)
    BY <2>4, BundleArrives
  <2>5. CASE RecordDeploymentOutcome(w) \/ RecordOutcomeFails(w)
    <3>. DEFINE s == [worker[w] EXCEPT !.pc = "finish"]
    <3>1. /\ worker' = [worker EXCEPT ![w] = s] /\ Working(w)
          /\ UNCHANGED <<jobs, holds, cert>>
      BY <2>5 DEF RecordDeploymentOutcome, RecordOutcomeFails, Working, Goto
    <3>2. s.job = worker[w].job /\ s.pc = "finish"
      BY <2>0 DEF WorkerState
    <3>. HIDE DEF s
    <3>. QED
      BY <1>1, <3>1, <3>2, GoesOn
  <2>6. CASE CompleteDeploymentJob(w) \/ CompletionLost(w) \/ AnnounceEscalation(w) \/ Crash(w)
    <3>. DEFINE s == [worker[w] EXCEPT !.pc = "announce"]
    <3>1. /\ s.pc = "announce" /\ IdleWorker.pc = "idle"
          /\ s \in WorkerState /\ IdleWorker \in WorkerState
      BY <2>0, IdleWorkerType DEF WorkerState
    <3>2. UNCHANGED <<holds, cert>>
      BY <2>6 DEF CompleteDeploymentJob, CompletionLost, AnnounceEscalation, Crash
    <3>3. \/ worker' = [worker EXCEPT ![w] = s]
          \/ worker' = [worker EXCEPT ![w] = IdleWorker]
      BY <2>6 DEF CompleteDeploymentJob, CompletionLost, AnnounceEscalation, Crash, Goto
    <3>4. OwnRowOnly(w)
      <4>1. CASE CompleteDeploymentJob(w)
        BY <1>0, <4>1 DEF CompleteDeploymentJob, OwnRowOnly, Working, Inv, TypeOK
      <4>2. CASE CompletionLost(w) \/ AnnounceEscalation(w) \/ Crash(w)
        BY <4>2 DEF CompletionLost, AnnounceEscalation, Crash, OwnRowOnly
      <4>. QED
        BY <2>6, <4>1, <4>2
    <3>. HIDE DEF s
    <3>5. PICK t \in WorkerState : /\ worker' = [worker EXCEPT ![w] = t]
                                   /\ t.pc = "idle" \/ t.pc = "announce"
      BY <3>1, <3>3
    <3>6. Exclusive' /\ NotAhead'
      BY <3>2, <3>4, <3>5, StopsWorking
    <3>. QED
      BY <1>1, <3>2, <3>6
  <2>7. CASE ExtendDeploymentLease(w)
    <3>1. Working(w) /\ jobs[worker[w].job].lapsed
      BY <2>7 DEF ExtendDeploymentLease, Working
    <3>. QED
      BY <3>1 DEF AdvanceInv, Exclusive, HasTheRow
  <2>. QED
    BY <1>3, <2>1, <2>2, <2>3, <2>4, <2>5, <2>6, <2>7 DEF WorkerStep, WorkerProceeds
<1>4. ASSUME NEW j \in Jobs, RowStep(j) PROVE Good
  <2>1. BecomeDue(j) \/ LeaseRunsOut(j)
    BY <1>4 DEF RowStep, LeaseLapses, CancelDeploymentJob, Upset, LeasesHold, Without
  <2>2. \A v \in Workers : Working(v) => worker[v].job # j
    <3>1. CASE BecomeDue(j)
      BY <3>1 DEF BecomeDue, AdvanceInv, Exclusive, HasTheRow
    <3>2. CASE LeaseRunsOut(j)
      BY <3>2 DEF LeaseRunsOut, Held, Working
    <3>. QED
      BY <2>1, <3>1, <3>2
  <2>3. /\ \E new : jobs' = [jobs EXCEPT ![j] = new]
        /\ UNCHANGED <<worker, holds, cert>>
    BY <2>1 DEF BecomeDue, LeaseRunsOut
  <2>. QED
    BY <1>1, <2>2, <2>3, ForeignRow
<1>5. ASSUME NEW p \in Places, SwitchPlace(p) PROVE Good
  <2>1. UNCHANGED <<jobs, worker, holds, cert>>
    BY <1>5 DEF SwitchPlace
  <2>. QED
    BY <1>0, <1>1, <2>1, QuietStep
<1>6. ASSUME UNCHANGED vars PROVE Good
  BY <1>0, <1>1, <1>6, QuietStep DEF vars
<1>7. Good
  <2>1. CASE Next
    BY <1>2, <1>3, <1>4, <1>5, <2>1 DEF Next, PlannerStep, WorkerStep, RowStep
  <2>. QED
    BY <1>6, <2>1
<1>. QED
  BY <1>7

\* As long as leases hold and nobody cancels, no place goes back from a
\* certificate to an older one, whatever crashes, late failures and lost updates
\* do (ClaimDeploymentJob, Executor.Deploy, CompleteDeploymentJob).
THEOREM PlacesOnlyAdvance == Spec => NeverDowngraded
<1>. DEFINE Steady == LeasesHold => Exclusive /\ NotAhead
            Forward == LeasesHold => \A p \in Places : holds'[p] >= holds[p]
<1>1. Init => Steady
  BY DEF Init, Exclusive, NotAhead, Working, IdleWorker
<1>2. Inv /\ Steady /\ [Next]_vars => Steady' /\ [Forward]_vars
  <2>. SUFFICES ASSUME Inv, Steady, [Next]_vars PROVE Steady' /\ [Forward]_vars
    OBVIOUS
  <2>1. CASE LeasesHold'
    BY <2>1, UpsetStep, AdvanceStep DEF AdvanceInv
  <2>2. CASE ~LeasesHold'
    <3>1. LeasesHold => UNCHANGED holds
      BY <2>2, UpsetStep
    <3>. QED
      BY <2>2, <3>1, Numbers
  <2>. QED
    BY <2>1, <2>2
<1>. QED
  BY Invariance, <1>1, <1>2, PTL DEF Spec, NeverDowngraded

(***************************************************************************)
(* The rollout.                                                            *)
(***************************************************************************)

-----------------------------------------------------------------------------
(* What each action does, pointwise *)

OnlyMoves(w) == \A v \in Workers \ {w} : worker'[v] = worker[v]
KeepsClaim(w) == worker'[w].job = worker[w].job /\ worker'[w].escalated = worker[w].escalated

OtherRowsKept(j) == \A k \in Jobs \ {j} : jobs'[k] = jobs[k]
KeepsRow(j) == /\ jobs'[j].place = jobs[j].place /\ jobs'[j].wave = jobs[j].wave
               /\ jobs[j].escalated => jobs'[j].escalated

\* StoreRenewal and DeployManually begin a rollout.
LEMMA BeginEffect ==
    ASSUME Inv, NEW e \in Planners, StoreRenewal(e) \/ DeployManually(e)
    PROVE  /\ UNCHANGED <<enabled, jobs, worker, holds, deployed, upsets, accepted, alerts>>
           /\ planner[e].pc = "idle" /\ planner'[e].pc = "list" /\ planner'[e].next = 1
           /\ \A d \in Planners \ {e} : planner'[d] = planner[d]
           /\ \/ /\ cert' = cert + 1 /\ manual' = manual /\ \A p \in Places : tried'[p] = FALSE
              \/ cert' = cert /\ manual' = manual + 1 /\ tried' = tried
<1>1. planner \in [Planners -> PlannerState]
  BY DEF Inv, TypeOK
<1>2. NoRollout.pc = "idle" /\ \A a : Rollout(a).pc = "list" /\ Rollout(a).next = 1
  BY DEF NoRollout, Rollout
<1>3. CASE StoreRenewal(e)
  BY <1>1, <1>2, <1>3 DEF StoreRenewal
<1>4. CASE DeployManually(e)
  BY <1>1, <1>2, <1>4 DEF DeployManually
<1> QED BY <1>3, <1>4

LEMMA ListEffect ==
    ASSUME Inv, NEW e \in Planners, ListPlaces(e) \/ WaveUnread(e)
    PROVE  /\ UNCHANGED <<cert, enabled, jobs, worker, holds, deployed, manual, accepted,
                          tried, alerts>>
           /\ planner[e].pc = "list" /\ planner'[e].pc = "queue"
           /\ planner'[e].next = planner[e].next
           /\ planner'[e].off = {p \in Places : ~enabled[p]}
           /\ \A d \in Planners \ {e} : planner'[d] = planner[d]
<1>1. planner \in [Planners -> PlannerState]
  BY DEF Inv, TypeOK
<1>2. PICK u \in SUBSET Places : planner' = [planner EXCEPT ![e] = Listed(e, u)]
  BY ListingIsListed
<1>3. /\ UNCHANGED <<cert, enabled, jobs, worker, holds, deployed, manual, accepted, tried, alerts>>
      /\ planner[e].pc = "list"
  BY DEF ListPlaces, WaveUnread
<1>4. planner'[e] = Listed(e, u) /\ \A d \in Planners \ {e} : planner'[d] = planner[d]
  BY <1>1, <1>2
<1> QED BY <1>3, <1>4, ListedType

\* The loop of EnqueueFor ends, or goes on to the next binding.
LEMMA AdvanceEffect ==
    ASSUME Inv, NEW e \in Planners, Advance(e)
    PROVE  /\ \A d \in Planners \ {e} : planner'[d] = planner[d]
           /\ \/ planner'[e].pc = "idle"
              \/ /\ planner'[e].next = planner[e].next + 1
                 /\ planner'[e].pc = planner[e].pc /\ planner'[e].off = planner[e].off
<1>1. planner \in [Planners -> PlannerState] /\ planner[e] \in PlannerState
  BY DEF Inv, TypeOK
<1> QED BY <1>1 DEF Advance, NoRollout, PlannerState

LEMMA EnqueueEffect ==
    ASSUME Inv, NEW e \in Planners, EnqueueDeployment(e)
    PROVE  /\ UNCHANGED <<cert, enabled, worker, holds, deployed, manual, upsets, accepted, tried,
                          alerts>>
           /\ planner[e].pc = "queue" /\ Advance(e) /\ Listing[planner[e].next] \in Places
           /\ \/ /\ jobs' = jobs
                 /\ \E k \in Jobs : Outstanding(k) /\ jobs[k].place = Listing[planner[e].next]
              \/ \E j \in Jobs : /\ jobs[j].status = "FREE" /\ OtherRowsKept(j)
                                 /\ jobs'[j] = QueuedRow(Listing[planner[e].next],
                                                          WaveRead(e, Listing[planner[e].next]))
<1>1. /\ jobs \in [Jobs -> JobRow] /\ planner[e] \in PlannerState
      /\ planner[e].next \in 1..Len(Listing)
  BY DEF Inv, TypeOK, PlannerState
<1>2. PICK j \in Jobs :
        /\ jobs[j].status = "FREE"
        /\ jobs' = IF IndexAllows(j, Listing[planner[e].next])
                   THEN [jobs EXCEPT ![j] = QueuedRow(Listing[planner[e].next],
                                                      WaveRead(e, Listing[planner[e].next]))]
                   ELSE jobs
  BY DEF EnqueueDeployment
<1>3. CASE IndexAllows(j, Listing[planner[e].next])
  BY <1>1, <1>2, <1>3, ListedPlace DEF EnqueueDeployment, OtherRowsKept
<1>4. CASE ~IndexAllows(j, Listing[planner[e].next])
  BY <1>1, <1>2, <1>4, ListedPlace DEF EnqueueDeployment, IndexAllows
<1> QED BY <1>3, <1>4

LEMMA CutShortEffect ==
    ASSUME Inv, NEW e \in Planners, RolloutCutShort(e)
    PROVE  /\ UNCHANGED <<cert, enabled, jobs, worker, holds, deployed, manual, accepted, tried, alerts>>
           /\ Upset("crash") /\ planner'[e].pc = "idle" /\ \A d \in Planners \ {e} : planner'[d] = planner[d]
BY DEF RolloutCutShort, NoRollout, Inv, TypeOK

LEMMA ClaimEffect ==
    ASSUME Inv, NEW w \in Workers, ClaimDeploymentJob(w)
    PROVE  /\ UNCHANGED <<cert, enabled, planner, holds, deployed, manual, upsets, accepted, tried,
                          alerts>>
           /\ worker[w].pc = "idle" /\ OnlyMoves(w) /\ worker'[w].pc = "read"
           /\ worker'[w].ok = FALSE
           /\ \E j \in Jobs :
                 /\ Claimable(j) /\ Outstanding(j) /\ OtherRowsKept(j) /\ KeepsRow(j)
                 /\ jobs'[j].status = "RUNNING" /\ jobs'[j].failed = jobs[j].failed
                 /\ worker'[w].job = j /\ worker'[w].escalated = jobs[j].escalated
<1>1. jobs \in [Jobs -> JobRow] /\ worker \in [Workers -> WorkerState]
  BY DEF Inv, TypeOK
<1>2. PICK j \in Jobs :
         /\ Claimable(j)
         /\ jobs' = [jobs EXCEPT ![j] = [jobs[j] EXCEPT !.status = "RUNNING",
                                                        !.lockedBy = w, !.lapsed = FALSE]]
         /\ worker' = [worker EXCEPT ![w] = [IdleWorker EXCEPT !.pc = "read", !.job = j,
                                               !.escalated = jobs[j].escalated]]
  BY DEF ClaimDeploymentJob
<1>3. /\ OtherRowsKept(j) /\ KeepsRow(j) /\ jobs'[j].status = "RUNNING"
      /\ jobs'[j].failed = jobs[j].failed
  BY <1>1, <1>2 DEF OtherRowsKept, KeepsRow, JobRow
<1>4. /\ worker'[w].job = j /\ worker'[w].escalated = jobs[j].escalated
      /\ worker'[w].pc = "read" /\ worker'[w].ok = FALSE /\ OnlyMoves(w)
  BY <1>1, <1>2 DEF IdleWorker, OnlyMoves
<1>5. Outstanding(j)
  BY <1>2 DEF Claimable, Ready, Outstanding
<1> QED BY <1>2, <1>3, <1>4, <1>5 DEF ClaimDeploymentJob

LEMMA BuildEffect ==
    ASSUME Inv, NEW w \in Workers, BuildBundle(w) \/ BuildFails(w)
    PROVE  /\ UNCHANGED <<cert, enabled, jobs, planner, holds, deployed, manual, accepted, tried,
                          alerts>>
           /\ worker[w].pc = "read" /\ OnlyMoves(w) /\ KeepsClaim(w)
           /\ \/ worker'[w].pc = "install" /\ worker'[w].fp = cert
              \/ worker'[w].pc = "finish" /\ worker'[w].ok = FALSE
<1>1. worker[w] \in WorkerState /\ worker \in [Workers -> WorkerState]
  BY DEF Inv, TypeOK
<1> DEFINE built == [worker[w] EXCEPT !.pc = "install", !.fp = cert]
           given == [worker[w] EXCEPT !.pc = "finish", !.ok = FALSE]
<1>2. /\ built.pc = "install" /\ built.fp = cert
      /\ given.pc = "finish" /\ given.ok = FALSE
      /\ \A s \in {built, given} : s.job = worker[w].job /\ s.escalated = worker[w].escalated
  BY <1>1 DEF WorkerState
<1>3. \E s \in {built, given} : worker' = [worker EXCEPT ![w] = s]
  BY DEF BuildBundle, BuildFails
<1>4. /\ UNCHANGED <<cert, enabled, jobs, planner, holds, deployed, manual, accepted, tried, alerts>>
      /\ worker[w].pc = "read"
  BY DEF BuildBundle, BuildFails
<1> HIDE DEF built, given
<1> QED BY <1>1, <1>2, <1>3, <1>4 DEF OnlyMoves, KeepsClaim

LEMMA InstallEffect ==
    ASSUME Inv, NEW w \in Workers, InstallSucceeds(w) \/ InstallFails(w)
    PROVE  /\ UNCHANGED <<cert, enabled, jobs, planner, deployed, manual, alerts>>
           /\ worker[w].pc = "install" /\ OnlyMoves(w) /\ KeepsClaim(w)
           /\ worker'[w].pc = "record" /\ worker'[w].fp = worker[w].fp
           /\ PlaceOf(w) \in Places
           /\ \A p \in Places \ {PlaceOf(w)} :
                 holds'[p] = holds[p] /\ accepted'[p] = accepted[p] /\ tried'[p] = tried[p]
           /\ holds'[PlaceOf(w)] \in {holds[PlaceOf(w)], worker[w].fp}
           /\ tried'[PlaceOf(w)] = (tried[PlaceOf(w)] \/ worker[w].fp = cert)
           /\ \/ /\ worker'[w].ok = TRUE /\ holds'[PlaceOf(w)] = worker[w].fp
                 /\ accepted'[PlaceOf(w)] = accepted[PlaceOf(w)] \cup {worker[w].fp}
              \/ worker'[w].ok = FALSE /\ accepted' = accepted
<1> DEFINE p == PlaceOf(w)
<1>1. /\ worker[w] \in WorkerState /\ worker \in [Workers -> WorkerState]
      /\ holds \in [Places -> Fingerprints] /\ accepted \in [Places -> SUBSET Fingerprints]
      /\ tried \in [Places -> BOOLEAN] /\ p \in Places /\ worker[w].pc = "install"
  BY HolderFacts DEF Inv, TypeOK, PlaceOf, InstallSucceeds, InstallFails
<1>2. /\ OnlyMoves(w) /\ KeepsClaim(w) /\ worker'[w].pc = "record" /\ worker'[w].fp = worker[w].fp
      /\ InstallSucceeds(w) => worker'[w].ok = TRUE
      /\ InstallFails(w) => worker'[w].ok = FALSE
  <2> DEFINE s(ok) == [worker[w] EXCEPT !.pc = "record", !.ok = ok]
  <2>1. \A ok \in BOOLEAN : /\ s(ok).pc = "record" /\ s(ok).fp = worker[w].fp /\ s(ok).ok = ok
                            /\ s(ok).job = worker[w].job /\ s(ok).escalated = worker[w].escalated
    BY <1>1 DEF WorkerState
  <2>2. /\ InstallSucceeds(w) => worker' = [worker EXCEPT ![w] = s(TRUE)]
        /\ InstallFails(w) => worker' = [worker EXCEPT ![w] = s(FALSE)]
    BY DEF InstallSucceeds, InstallFails
  <2> HIDE DEF s
  <2> QED BY <1>1, <2>1, <2>2 DEF OnlyMoves, KeepsClaim
<1>3. /\ tried'[p] = (tried[p] \/ worker[w].fp = cert)
      /\ \A q \in Places \ {p} : tried'[q] = tried[q]
  BY <1>1 DEF InstallSucceeds, InstallFails, Tried
<1>4. UNCHANGED <<cert, enabled, jobs, planner, deployed, manual, alerts>>
  BY DEF InstallSucceeds, InstallFails
<1> HIDE DEF p
<1>5. CASE InstallSucceeds(w)
  <2>1. /\ holds' = [holds EXCEPT ![p] = worker[w].fp]
        /\ accepted' = [accepted EXCEPT ![p] = accepted[p] \cup {worker[w].fp}]
    BY <1>5 DEF InstallSucceeds, p
  <2> QED BY <1>1, <1>2, <1>3, <1>4, <1>5, <2>1 DEF p
<1>6. CASE InstallFails(w)
  <2>1. holds' \in {holds, [holds EXCEPT ![p] = worker[w].fp]} /\ accepted' = accepted
    BY <1>6 DEF InstallFails, p
  <2> QED BY <1>1, <1>2, <1>3, <1>4, <1>6, <2>1 DEF p
<1> QED BY <1>5, <1>6

LEMMA RecordEffect ==
    ASSUME Inv, NEW w \in Workers, RecordDeploymentOutcome(w) \/ RecordOutcomeFails(w)
    PROVE  /\ UNCHANGED <<cert, enabled, jobs, planner, holds, manual, accepted, tried, alerts>>
           /\ worker[w].pc = "record" /\ OnlyMoves(w) /\ KeepsClaim(w)
           /\ worker'[w].pc = "finish" /\ worker'[w].fp = worker[w].fp
           /\ worker'[w].ok = worker[w].ok
           /\ \/ Upset("record")
              \/ deployed' = IF worker[w].ok THEN [deployed EXCEPT ![PlaceOf(w)] = worker[w].fp]
                             ELSE deployed
<1>1. worker[w] \in WorkerState /\ worker \in [Workers -> WorkerState]
  BY DEF Inv, TypeOK
<1> QED BY <1>1 DEF RecordDeploymentOutcome, RecordOutcomeFails, Goto, OnlyMoves, KeepsClaim, WorkerState

\* A goroutine gives its job up, or still has an escalation to announce that the
\* row did not show when it claimed it.
LetsGo(w) == /\ OnlyMoves(w)
             /\ \/ worker'[w] = IdleWorker
                \/ KeepsClaim(w) /\ worker'[w].pc = "announce" /\ ~worker[w].escalated

LEMMA CompleteEffect ==
    ASSUME Inv, NEW w \in Workers, CompleteDeploymentJob(w)
    PROVE  /\ UNCHANGED <<cert, enabled, planner, holds, deployed, manual, upsets, accepted, tried,
                          alerts>>
           /\ worker[w].pc = "finish" /\ LetsGo(w) /\ OtherRowsKept(worker[w].job)
           /\ \/ /\ worker[w].ok /\ jobs'[worker[w].job].status = "SUCCEEDED"
                 /\ KeepsRow(worker[w].job) /\ worker'[w] = IdleWorker
              \/ /\ ~worker[w].ok /\ jobs'[worker[w].job].status = "PENDING"
                 /\ KeepsRow(worker[w].job) /\ jobs'[worker[w].job].failed
                 /\ worker'[w].pc = "announce" => jobs'[worker[w].job].escalated
              \/ /\ ~worker[w].ok /\ jobs' = jobs
                 /\ ~IndexAllows(worker[w].job, jobs[worker[w].job].place)
<1> DEFINE j == worker[w].job
<1>1. /\ worker[w] \in WorkerState /\ worker \in [Workers -> WorkerState]
      /\ j \in Jobs /\ jobs \in [Jobs -> JobRow] /\ jobs[j] \in JobRow
      /\ worker[w].pc = "finish"
  BY HolderFacts DEF Inv, TypeOK, CompleteDeploymentJob
<1>2. UNCHANGED <<cert, enabled, planner, holds, deployed, manual, upsets, accepted, tried, alerts>>
  BY DEF CompleteDeploymentJob
<1>3. CASE /\ worker[w].ok /\ jobs' = [jobs EXCEPT ![j] = DoneRow(j)]
           /\ worker' = [worker EXCEPT ![w] = IdleWorker]
  <2>1. jobs'[j] = DoneRow(j) /\ OtherRowsKept(j)
    BY <1>1, <1>3 DEF OtherRowsKept
  <2>2. jobs'[j].status = "SUCCEEDED" /\ KeepsRow(j)
    BY <1>1, <2>1 DEF DoneRow, KeepsRow, JobRow
  <2> QED BY <1>1, <1>2, <1>3, <2>1, <2>2 DEF LetsGo, OnlyMoves
<1>4. ASSUME ~worker[w].ok, NEW esc \in Escalates,
             jobs' = IF IndexAllows(j, jobs[j].place) THEN [jobs EXCEPT ![j] = RetryRow(j, esc)] ELSE jobs,
             IF esc /\ ~worker[w].escalated THEN Goto(w, "announce")
             ELSE worker' = [worker EXCEPT ![w] = IdleWorker]
      PROVE  /\ LetsGo(w) /\ OtherRowsKept(j)
             /\ \/ /\ jobs'[j].status = "PENDING" /\ KeepsRow(j) /\ jobs'[j].failed
                   /\ worker'[w].pc = "announce" => jobs'[j].escalated
                \/ jobs' = jobs /\ ~IndexAllows(j, jobs[j].place)
  <2>1. LetsGo(w) /\ (worker'[w].pc = "announce" => esc)
    <3> DEFINE s == [worker[w] EXCEPT !.pc = "announce"]
    <3>1. /\ s.pc = "announce" /\ s.job = worker[w].job /\ s.escalated = worker[w].escalated
          /\ IdleWorker.pc = "idle"
      BY <1>1 DEF WorkerState, IdleWorker
    <3>2. \/ worker' = [worker EXCEPT ![w] = IdleWorker]
          \/ esc /\ ~worker[w].escalated /\ worker' = [worker EXCEPT ![w] = s]
      BY <1>4 DEF Goto
    <3> HIDE DEF s
    <3> QED BY <1>1, <3>1, <3>2 DEF LetsGo, OnlyMoves, KeepsClaim
  <2>2. CASE IndexAllows(j, jobs[j].place)
    <3>1. jobs'[j] = RetryRow(j, esc) /\ OtherRowsKept(j)
      BY <1>1, <1>4, <2>2 DEF OtherRowsKept
    <3>2. /\ jobs'[j].status = "PENDING" /\ KeepsRow(j) /\ jobs'[j].failed
          /\ esc => jobs'[j].escalated
      BY <1>1, <3>1 DEF RetryRow, KeepsRow, JobRow
    <3> QED BY <2>1, <3>1, <3>2
  <2> QED BY <1>4, <2>1, <2>2 DEF OtherRowsKept
<1> HIDE DEF j
<1>5. CASE worker[w].ok
  BY <1>3, <1>5 DEF CompleteDeploymentJob, j
<1>6. CASE ~worker[w].ok
  BY <1>1, <1>2, <1>4, <1>6 DEF CompleteDeploymentJob, j
<1> QED BY <1>5, <1>6

LEMMA LostEffect ==
    ASSUME Inv, NEW w \in Workers, CompletionLost(w)
    PROVE  /\ UNCHANGED <<cert, enabled, jobs, planner, holds, deployed, manual, accepted, tried,
                          alerts>>
           /\ worker[w].pc = "finish" /\ LetsGo(w) /\ Upset("complete")
<1>1. worker[w] \in WorkerState /\ worker \in [Workers -> WorkerState]
  BY DEF Inv, TypeOK
<1> QED BY <1>1 DEF CompletionLost, LetsGo, OnlyMoves, KeepsClaim, Goto, WorkerState

LEMMA AnnounceEffect ==
    ASSUME Inv, NEW w \in Workers, AnnounceEscalation(w)
    PROVE  /\ UNCHANGED <<cert, enabled, jobs, planner, holds, deployed, manual, upsets, accepted,
                          tried>>
           /\ worker[w].pc = "announce" /\ OnlyMoves(w) /\ worker'[w] = IdleWorker
           /\ alerts' = [alerts EXCEPT ![worker[w].job] = Twice(@)]
BY DEF AnnounceEscalation, OnlyMoves, Inv, TypeOK

LEMMA CrashEffect ==
    ASSUME Inv, NEW w \in Workers, Crash(w)
    PROVE  /\ UNCHANGED <<cert, enabled, jobs, planner, holds, deployed, manual, accepted, tried,
                          alerts>>
           /\ Upset("crash") /\ OnlyMoves(w) /\ worker'[w] = IdleWorker
BY DEF Crash, OnlyMoves, Inv, TypeOK

\* Clock, heartbeat: a row outstanding stays so.
LEMMA TimedEffect ==
    ASSUME Inv, NEW j \in Jobs,
           \/ BecomeDue(j) \/ LeaseRunsOut(j) \/ LeaseLapses(j)
           \/ \E w \in Workers : ExtendDeploymentLease(w) /\ worker[w].job = j
    PROVE  /\ UNCHANGED <<cert, enabled, worker, planner, holds, deployed, manual, accepted, tried,
                          alerts>>
           /\ OtherRowsKept(j) /\ KeepsRow(j) /\ jobs'[j].failed = jobs[j].failed
           /\ Outstanding(j) /\ jobs'[j].status = jobs[j].status
<1>1. jobs \in [Jobs -> JobRow] /\ jobs[j] \in JobRow
  BY DEF Inv, TypeOK
<1>2. /\ UNCHANGED <<cert, enabled, worker, planner, holds, deployed, manual, accepted, tried, alerts>>
      /\ jobs[j].status \in {"PENDING", "RUNNING"}
      /\ \/ jobs' = [jobs EXCEPT ![j] = [jobs[j] EXCEPT !.due = TRUE]]
         \/ jobs' = [jobs EXCEPT ![j] = [jobs[j] EXCEPT !.lapsed = TRUE]]
         \/ jobs' = [jobs EXCEPT ![j] = [jobs[j] EXCEPT !.lapsed = FALSE]]
  BY DEF BecomeDue, LeaseRunsOut, LeaseLapses, ExtendDeploymentLease
<1> QED BY <1>1, <1>2 DEF OtherRowsKept, KeepsRow, JobRow, Outstanding

LEMMA CancelEffect ==
    ASSUME Inv, NEW j \in Jobs, CancelDeploymentJob(j)
    PROVE  /\ UNCHANGED <<cert, enabled, worker, planner, holds, deployed, manual, accepted, tried,
                          alerts>>
           /\ Upset("cancel") /\ OtherRowsKept(j) /\ KeepsRow(j) /\ jobs'[j].status = "CANCELLED"
<1>1. jobs \in [Jobs -> JobRow] /\ jobs[j] \in JobRow
  BY DEF Inv, TypeOK
<1> QED BY <1>1 DEF CancelDeploymentJob, OtherRowsKept, KeepsRow, JobRow

\* An upset once met stays met, and one met now is not among those not met.
LEMMA UpsetFacts ==
    ASSUME [Next]_vars, NEW S
    PROVE  /\ Without(S)' => Without(S)
           /\ \A c \in S : Without(S)' => ~Upset(c)
<1>1. \A c \in S : Without(S)' => ~Upset(c)
  BY DEF Without, Upset
<1>2. upsets' = upsets \/ \E c : Upset(c)
  <2>1. ASSUME NEW e \in Planners, PlannerStep(e) PROVE upsets' = upsets \/ \E c : Upset(c)
    BY <2>1 DEF PlannerStep, PlannerProceeds, StoreRenewal, DeployManually, ListPlaces,
                WaveUnread, SkipPlace, EnqueueDeployment, RolloutCutShort
  <2>2. ASSUME NEW w \in Workers, WorkerStep(w) PROVE upsets' = upsets \/ \E c : Upset(c)
    <3>1. CASE \/ ClaimDeploymentJob(w) \/ BuildBundle(w) \/ InstallSucceeds(w)
               \/ RecordDeploymentOutcome(w) \/ CompleteDeploymentJob(w)
               \/ AnnounceEscalation(w) \/ ExtendDeploymentLease(w)
      BY <3>1 DEF ClaimDeploymentJob, BuildBundle, InstallSucceeds, RecordDeploymentOutcome,
                  CompleteDeploymentJob, AnnounceEscalation, ExtendDeploymentLease
    <3>2. CASE BuildFails(w) \/ InstallFails(w) \/ RecordOutcomeFails(w) \/ CompletionLost(w) \/ Crash(w)
      BY <3>2 DEF BuildFails, InstallFails, RecordOutcomeFails, CompletionLost, Crash
    <3>. QED
      BY <2>2, <3>1, <3>2 DEF WorkerStep, WorkerProceeds
  <2>3. ASSUME NEW j \in Jobs, RowStep(j) PROVE upsets' = upsets \/ \E c : Upset(c)
    BY <2>3 DEF RowStep, BecomeDue, LeaseRunsOut, LeaseLapses, CancelDeploymentJob
  <2>4. ASSUME NEW p \in Places, SwitchPlace(p) PROVE upsets' = upsets \/ \E c : Upset(c)
    BY <2>4 DEF SwitchPlace
  <2>5. CASE UNCHANGED vars
    BY <2>5 DEF vars
  <2>. QED
    BY <2>1, <2>2, <2>3, <2>4, <2>5 DEF Next, PlannerStep, WorkerStep, RowStep
<1>3. ASSUME upsets' = upsets PROVE Without(S)' => Without(S)
  BY <1>3 DEF Without
<1>4. ASSUME NEW c, Upset(c) PROVE Without(S)' => Without(S)
  BY <1>4 DEF Without, Upset
<1> QED BY <1>1, <1>2, <1>3, <1>4

-----------------------------------------------------------------------------
(* The record of a place catches up with the place *)

\* While leases hold, goroutines at work have their rows to themselves.
Steady == LeasesHold => Exclusive /\ NotAhead

LEMMA InitSteady == Init => Steady
BY DEF Init, Steady, Exclusive, NotAhead, Working, IdleWorker

LEMMA SteadyStep == Inv /\ Steady /\ [Next]_vars => Steady'
BY UpsetStep, AdvanceStep DEF Steady, AdvanceInv

\* A job for p waits or runs.
Busy(p) == \E j \in Jobs : Outstanding(j) /\ jobs[j].place = p

\* After a success the place has the goroutine's bundle, and once recorded the
\* record agrees.
Agrees(w) ==
    /\ worker[w].pc = "record" /\ worker[w].ok => holds[PlaceOf(w)] = worker[w].fp
    /\ worker[w].pc = "finish" /\ worker[w].ok => deployed[PlaceOf(w)] = holds[PlaceOf(w)]

Recorded == LeasesHold /\ Without({"record"})

CatchInv ==
    Recorded => /\ \A p \in Places : deployed[p] = holds[p] \/ Busy(p)
                /\ \A w \in Workers : Agrees(w)

LEMMA InitCatch == Init => CatchInv
BY DEF Init, CatchInv, Agrees, IdleWorker

\* Steps that leave places and records alone and take no job out of the queue.
LEMMA CatchKept ==
    ASSUME Inv, CatchInv, Recorded' => Recorded, UNCHANGED <<holds, deployed>>,
           Recorded' => \A p \in Places : Busy(p) => Busy(p)',
           \A k \in Jobs : jobs[k].status # "FREE" => jobs'[k].place = jobs[k].place,
           \A w \in Workers : \/ worker'[w] = worker[w]
                              \/ worker'[w].pc \notin {"record", "finish"}
                              \/ worker'[w].ok = FALSE
    PROVE  CatchInv'
<1> SUFFICES ASSUME Recorded', NEW w \in Workers PROVE Agrees(w)'
  BY DEF CatchInv
<1>1. CASE worker'[w] = worker[w] /\ worker[w].pc \in {"record", "finish"}
  <2>1. worker[w].job \in Jobs /\ jobs[worker[w].job].status # "FREE"
    BY <1>1, HolderFacts
  <2>2. PlaceOf(w)' = PlaceOf(w)
    BY <1>1, <2>1 DEF PlaceOf
  <2> QED BY <1>1, <2>2 DEF CatchInv, Agrees
<1> QED BY <1>1 DEF Agrees

LEMMA BusyKept ==
    ASSUME Inv, \A k \in Jobs : Outstanding(k) => Outstanding(k)' /\ jobs'[k].place = jobs[k].place
    PROVE  \A p \in Places : Busy(p) => Busy(p)'
BY DEF Busy

LEMMA CatchStep == Inv /\ Steady /\ CatchInv /\ [Next]_vars => CatchInv'
<1> SUFFICES ASSUME Inv, Steady, CatchInv, [Next]_vars, Recorded' PROVE CatchInv'
  BY DEF CatchInv
<1>0. /\ Recorded /\ Exclusive /\ ~Upset("record") /\ ~Upset("cancel") /\ AdvanceInv
  BY UpsetFacts, UpsetStep DEF Recorded, LeasesHold, Steady, AdvanceInv
<1>1. ASSUME UNCHANGED <<holds, deployed, jobs>>,
             \A w \in Workers : \/ worker'[w] = worker[w]
                                \/ worker'[w].pc \notin {"record", "finish"}
                                \/ worker'[w].ok = FALSE
      PROVE  CatchInv'
  BY <1>0, <1>1, CatchKept, BusyKept DEF Outstanding
<1>2. ASSUME NEW e \in Planners, PlannerStep(e) PROVE CatchInv'
  <2>1. CASE \/ StoreRenewal(e) \/ DeployManually(e) \/ ListPlaces(e) \/ SkipPlace(e)
             \/ WaveUnread(e) \/ RolloutCutShort(e)
    BY <1>1, <2>1 DEF StoreRenewal, DeployManually, ListPlaces, SkipPlace, WaveUnread,
                         RolloutCutShort
  <2>2. CASE EnqueueDeployment(e)
    <3>1. UNCHANGED <<holds, deployed, worker>>
      BY <2>2 DEF EnqueueDeployment
    <3>2. \A k \in Jobs : jobs[k].status # "FREE" => jobs'[k] = jobs[k]
      BY <2>2, EnqueueEffect DEF OtherRowsKept
    <3>3. \A p \in Places : Busy(p) => Busy(p)'
      BY <3>2, BusyKept DEF Outstanding
    <3> QED BY <1>0, <3>1, <3>2, <3>3, CatchKept
  <2> QED BY <1>2, <2>1, <2>2 DEF PlannerStep, PlannerProceeds
<1>3. ASSUME NEW w \in Workers, ClaimDeploymentJob(w) PROVE CatchInv'
  <2>1. PICK j \in Jobs : /\ Outstanding(j) /\ OtherRowsKept(j) /\ KeepsRow(j)
                          /\ jobs'[j].status = "RUNNING"
    BY <1>3, ClaimEffect
  <2>2. UNCHANGED <<holds, deployed>> /\ OnlyMoves(w) /\ worker'[w].pc = "read"
    BY <1>3, ClaimEffect
  <2>3. \A p \in Places : Busy(p) => Busy(p)'
    BY <2>1, BusyKept DEF Outstanding, OtherRowsKept, KeepsRow
  <2> QED BY <1>0, <2>1, <2>2, <2>3, CatchKept DEF OtherRowsKept, KeepsRow, OnlyMoves
<1>4. ASSUME NEW w \in Workers,
             BuildBundle(w) \/ BuildFails(w) \/ CompletionLost(w) \/ AnnounceEscalation(w) \/ Crash(w)
      PROVE  CatchInv'
  <2>1. /\ UNCHANGED <<holds, deployed, jobs>> /\ OnlyMoves(w)
        /\ worker'[w].pc \notin {"record", "finish"} \/ worker'[w].ok = FALSE
    <3>1. CASE BuildBundle(w) \/ BuildFails(w)
      BY <3>1, BuildEffect
    <3>2. CASE CompletionLost(w)
      BY <3>2, LostEffect DEF LetsGo, IdleWorker
    <3>3. CASE AnnounceEscalation(w)
      BY <3>3, AnnounceEffect DEF IdleWorker
    <3>4. CASE Crash(w)
      BY <3>4, CrashEffect DEF IdleWorker
    <3> QED BY <1>4, <3>1, <3>2, <3>3, <3>4
  <2> QED BY <1>1, <2>1 DEF OnlyMoves
\* The place a bundle reaches has the job that brought it, and no other goroutine.
<1>5. ASSUME NEW w \in Workers, InstallSucceeds(w) \/ InstallFails(w) PROVE CatchInv'
  <2> DEFINE p == PlaceOf(w)
  <2>1. /\ UNCHANGED <<jobs, deployed>> /\ worker[w].pc = "install" /\ OnlyMoves(w) /\ KeepsClaim(w)
        /\ worker'[w].pc = "record" /\ worker'[w].fp = worker[w].fp /\ p \in Places
        /\ \A q \in Places \ {p} : holds'[q] = holds[q]
        /\ worker'[w].ok = TRUE => holds'[p] = worker[w].fp
        /\ worker'[w].ok \in BOOLEAN
    BY <1>5, InstallEffect
  <2>2. Working(w) /\ worker[w].job \in Jobs /\ jobs[worker[w].job].status = "RUNNING"
    BY <1>0, <2>1, HolderFacts DEF Working, Exclusive, HasTheRow
  <2>3. Busy(p) /\ \A q \in Places : Busy(q)' <=> Busy(q)
    BY <2>1, <2>2 DEF Busy, Outstanding, PlaceOf
  <2>4. \A q \in Places : deployed'[q] = holds'[q] \/ Busy(q)'
    BY <1>0, <2>1, <2>3 DEF CatchInv
  <2>5. ASSUME NEW v \in Workers, v # w PROVE Agrees(v)'
    <3>1. CASE worker[v].pc \in {"record", "finish"}
      <4>1. PlaceOf(v) \in Places /\ PlaceOf(v) # p /\ PlaceOf(v)' = PlaceOf(v) /\ worker'[v] = worker[v]
        BY <1>0, <2>1, <2>2, <2>5, <3>1, Apart, HolderFacts DEF Working, PlaceOf, OnlyMoves
      <4> QED BY <1>0, <2>1, <4>1 DEF CatchInv, Agrees
    <3> QED BY <2>1, <2>5, <3>1 DEF Agrees, OnlyMoves
  <2>6. Agrees(w)'
    BY <2>1 DEF Agrees, PlaceOf, KeepsClaim
  <2> QED BY <2>4, <2>5, <2>6 DEF CatchInv
<1>6. ASSUME NEW w \in Workers, RecordDeploymentOutcome(w) \/ RecordOutcomeFails(w) PROVE CatchInv'
  <2> DEFINE p == PlaceOf(w)
  <2>1. /\ UNCHANGED <<jobs, holds>> /\ worker[w].pc = "record" /\ OnlyMoves(w) /\ KeepsClaim(w)
        /\ worker'[w].pc = "finish" /\ worker'[w].ok = worker[w].ok
        /\ deployed' = IF worker[w].ok THEN [deployed EXCEPT ![p] = worker[w].fp] ELSE deployed
    BY <1>0, <1>6, RecordEffect
  <2>2. /\ Working(w) /\ p \in Places /\ deployed \in [Places -> Fingerprints]
        /\ worker[w].ok => holds[p] = worker[w].fp
    BY <1>0, <2>1, HolderFacts DEF Working, PlaceOf, CatchInv, Agrees, Inv, TypeOK
  <2> HIDE DEF p
  <2>3. /\ \A q \in Places \ {p} : deployed'[q] = deployed[q]
        /\ worker[w].ok => deployed'[p] = holds'[p]
        /\ ~worker[w].ok => deployed'[p] = deployed[p]
    BY <2>1, <2>2
  <2>4. \A q \in Places : Busy(q)' <=> Busy(q)
    BY <2>1 DEF Busy, Outstanding
  <2>5. \A q \in Places : deployed'[q] = holds'[q] \/ Busy(q)'
    BY <1>0, <2>1, <2>3, <2>4 DEF CatchInv
  <2>6. ASSUME NEW v \in Workers, v # w PROVE Agrees(v)'
    <3>1. CASE worker[v].pc \in {"record", "finish"}
      <4>1. PlaceOf(v) \in Places /\ PlaceOf(v) # p /\ PlaceOf(v)' = PlaceOf(v) /\ worker'[v] = worker[v]
        BY <1>0, <2>1, <2>2, <2>6, <3>1, Apart, HolderFacts DEF Working, PlaceOf, OnlyMoves, p
      <4> QED BY <1>0, <2>1, <2>3, <4>1 DEF CatchInv, Agrees
    <3> QED BY <2>1, <2>6, <3>1 DEF Agrees, OnlyMoves
  <2>7. Agrees(w)'
    BY <2>1, <2>3 DEF Agrees, PlaceOf, KeepsClaim, p
  <2> QED BY <2>5, <2>6, <2>7 DEF CatchInv
\* A job leaves the queue only when its record agrees.
<1>7. ASSUME NEW w \in Workers, CompleteDeploymentJob(w) PROVE CatchInv'
  <2> DEFINE j == worker[w].job
  <2>1. /\ UNCHANGED <<holds, deployed>> /\ worker[w].pc = "finish" /\ OnlyMoves(w)
        /\ worker'[w].pc \notin {"record", "finish"} /\ OtherRowsKept(j)
        /\ jobs' = jobs \/ jobs'[j].place = jobs[j].place
        /\ worker[w].ok \/ jobs' = jobs \/ jobs'[j].status = "PENDING"
    BY <1>7, CompleteEffect DEF LetsGo, IdleWorker, KeepsRow
  <2>2. j \in Jobs /\ PlaceOf(w) = jobs[j].place /\ Agrees(w)
    BY <1>0, <2>1, HolderFacts DEF PlaceOf, CatchInv
  <2>3. \A k \in Jobs : jobs'[k].place = jobs[k].place
    BY <2>1, <2>2 DEF OtherRowsKept
  <2>4. ASSUME NEW q \in Places PROVE deployed'[q] = holds'[q] \/ Busy(q)'
    <3>1. CASE worker[w].ok /\ q = jobs[j].place
      BY <2>1, <2>2, <3>1 DEF Agrees
    <3>2. CASE Busy(q) /\ ~(worker[w].ok /\ q = jobs[j].place)
      <4>1. PICK k \in Jobs : Outstanding(k) /\ jobs[k].place = q
        BY <3>2 DEF Busy
      <4>2. Outstanding(k)'
        BY <2>1, <3>2, <4>1 DEF Outstanding, OtherRowsKept
      <4> QED BY <2>3, <4>1, <4>2 DEF Busy
    <3> QED BY <1>0, <2>1, <3>1, <3>2 DEF CatchInv
  <2>5. ASSUME NEW v \in Workers PROVE Agrees(v)'
    <3>1. CASE v # w /\ worker[v].pc \in {"record", "finish"}
      <4>1. PlaceOf(v)' = PlaceOf(v) /\ worker'[v] = worker[v]
        BY <2>1, <2>3, <3>1, HolderFacts DEF PlaceOf, OnlyMoves
      <4> QED BY <1>0, <2>1, <4>1 DEF CatchInv, Agrees
    <3> QED BY <2>1, <3>1 DEF Agrees, OnlyMoves
  <2> QED BY <2>4, <2>5 DEF CatchInv
<1>8. ASSUME NEW j \in Jobs,
             \/ BecomeDue(j) \/ LeaseRunsOut(j) \/ LeaseLapses(j)
             \/ \E w \in Workers : ExtendDeploymentLease(w) /\ worker[w].job = j
      PROVE  CatchInv'
  <2>1. /\ UNCHANGED <<worker, holds, deployed>>
        /\ OtherRowsKept(j) /\ KeepsRow(j) /\ Outstanding(j) /\ jobs'[j].status = jobs[j].status
    BY <1>8, TimedEffect
  <2>2. \A p \in Places : Busy(p) => Busy(p)'
    BY <2>1, BusyKept DEF OtherRowsKept, KeepsRow, Outstanding
  <2> QED BY <1>0, <2>1, <2>2, CatchKept DEF OtherRowsKept, KeepsRow
<1>9. ASSUME NEW w \in Workers, ExtendDeploymentLease(w) PROVE CatchInv'
  BY <1>8, <1>9, HolderFacts DEF ExtendDeploymentLease
<1>10. CASE (\E p \in Places : SwitchPlace(p)) \/ UNCHANGED vars
  BY <1>1, <1>10 DEF SwitchPlace, vars
<1>11. \A j \in Jobs : ~CancelDeploymentJob(j)
  BY <1>0 DEF CancelDeploymentJob
<1> QED
  BY <1>2, <1>3, <1>4, <1>5, <1>6, <1>7, <1>8, <1>9, <1>10, <1>11
     DEF Next, PlannerStep, WorkerProceeds

\* A place whose record disagrees with what it really has is still being worked
\* on, across crashes, refusals, late answers and lost completions: what
\* RecordDeploymentOutcome and CompleteDeploymentJob leave to the next attempt.
THEOREM RecordsCatchUp == Spec => []RecordCatchesUp
<1>1. Init => Inv /\ Steady /\ CatchInv
  BY InitInv, InitSteady, InitCatch
<1>2. Inv /\ Steady /\ CatchInv /\ [Next]_vars => (Inv /\ Steady /\ CatchInv)'
  BY StepInv, SteadyStep, CatchStep
<1>3. CatchInv => RecordCatchesUp
  BY DEF CatchInv, RecordCatchesUp, Recorded, Busy
<1> QED BY <1>1, <1>2, <1>3, PTL DEF Spec

-----------------------------------------------------------------------------
(* One announcement per job *)

\* The proviso of AnnouncedOnce.
WritesLand == LeasesHold /\ Without({"complete"})

\* The escalation of j has been published, or a goroutine is about to.
Told(j) == alerts[j] > 0 \/ \E w \in Workers : worker[w].pc = "announce" /\ worker[w].job = j

\* An escalation told shows in the row a later claim will read, and in what a
\* goroutine at work on the job has read already.
ToldShows ==
    \A j \in Jobs : Told(j) =>
        /\ jobs[j].status # "FREE"
        /\ Outstanding(j) => jobs[j].escalated
        /\ \A w \in Workers : Working(w) /\ worker[w].job = j => worker[w].escalated

\* One goroutine announces, and before anybody has.
OneAnnouncer ==
    /\ \A j \in Jobs : alerts[j] <= 1
    /\ \A w \in Workers : worker[w].pc = "announce" =>
         /\ alerts[worker[w].job] = 0
         /\ \A v \in Workers : worker[v].pc = "announce" /\ worker[v].job = worker[w].job
                                 => v = w

AnnounceInv == WritesLand => ToldShows /\ OneAnnouncer

LEMMA InitAnnounce == Init => AnnounceInv
BY DEF Init, AnnounceInv, ToldShows, OneAnnouncer, Told, Working, IdleWorker

\* No goroutine starts to announce, and those at work know what they knew.
NoNewAlert ==
    /\ alerts' = alerts
    /\ \A v \in Workers : worker'[v].pc = "announce" => /\ worker[v].pc = "announce"
                                                       /\ worker'[v].job = worker[v].job
    /\ \A v \in Workers : Working(v)' => /\ Working(v) /\ worker'[v].job = worker[v].job
                                         /\ worker'[v].escalated = worker[v].escalated

\* An escalation told of still shows in its row.
StillShows ==
    \A j \in Jobs : Told(j) => /\ jobs'[j].status # "FREE"
                               /\ Outstanding(j)' => jobs'[j].escalated

LEMMA AnnounceKept ==
    ASSUME Inv, ToldShows, OneAnnouncer, NoNewAlert, StillShows
    PROVE  ToldShows' /\ OneAnnouncer'
<1>1. \A j \in Jobs : Told(j)' => Told(j)
  BY DEF Told, NoNewAlert
<1>2. ToldShows'
  BY <1>1 DEF ToldShows, NoNewAlert, StillShows
<1>3. OneAnnouncer'
  BY DEF OneAnnouncer, NoNewAlert
<1> QED BY <1>2, <1>3

LEMMA AnnounceStep == Inv /\ Steady /\ AnnounceInv /\ [Next]_vars => AnnounceInv'
<1> SUFFICES ASSUME Inv, Steady, AnnounceInv, [Next]_vars, WritesLand'
             PROVE  ToldShows' /\ OneAnnouncer'
  BY DEF AnnounceInv
<1> DEFINE Fine == ToldShows' /\ OneAnnouncer'
<1>0. /\ WritesLand /\ Exclusive /\ ~Upset("complete") /\ ~Upset("cancel") /\ AdvanceInv
      /\ ToldShows /\ OneAnnouncer
  BY UpsetFacts, UpsetStep DEF WritesLand, LeasesHold, Steady, AdvanceInv, AnnounceInv
<1>1. ASSUME jobs' = jobs, NoNewAlert PROVE Fine
  BY <1>0, <1>1, AnnounceKept DEF ToldShows, StillShows, Outstanding
<1>2. ASSUME worker' = worker, alerts' = alerts, jobs' = jobs PROVE Fine
  BY <1>1, <1>2 DEF NoNewAlert, Working
<1>3. ASSUME NEW e \in Planners, PlannerStep(e) PROVE Fine
  <2>1. CASE \/ StoreRenewal(e) \/ DeployManually(e) \/ ListPlaces(e) \/ SkipPlace(e)
             \/ WaveUnread(e) \/ RolloutCutShort(e)
    BY <1>2, <2>1 DEF StoreRenewal, DeployManually, ListPlaces, SkipPlace, WaveUnread,
                         RolloutCutShort
  <2>2. CASE EnqueueDeployment(e)
    <3>1. /\ worker' = worker /\ alerts' = alerts
          /\ \A k \in Jobs : jobs[k].status # "FREE" => jobs'[k] = jobs[k]
      BY <2>2, EnqueueEffect DEF OtherRowsKept
    <3>2. NoNewAlert /\ StillShows
      BY <1>0, <3>1 DEF NoNewAlert, StillShows, ToldShows, Working, Outstanding
    <3> QED BY <1>0, <3>2, AnnounceKept
  <2> QED BY <1>3, <2>1, <2>2 DEF PlannerStep, PlannerProceeds
\* A claim reads escalated_at, and an escalation told shows there.
<1>4. ASSUME NEW w \in Workers, ClaimDeploymentJob(w) PROVE Fine
  <2>1. PICK j \in Jobs : /\ Outstanding(j) /\ OtherRowsKept(j) /\ KeepsRow(j)
                          /\ jobs'[j].status = "RUNNING"
                          /\ worker'[w].job = j /\ worker'[w].escalated = jobs[j].escalated
    BY <1>4, ClaimEffect
  <2>2. alerts' = alerts /\ OnlyMoves(w) /\ worker[w].pc = "idle" /\ worker'[w].pc = "read"
    BY <1>4, ClaimEffect
  <2>3. \A k \in Jobs : Told(k)' <=> Told(k)
    BY <2>2 DEF Told, OnlyMoves
  <2>4. StillShows
    BY <1>0, <2>1 DEF ToldShows, StillShows, OtherRowsKept, KeepsRow, Outstanding
  <2>5. ToldShows'
    BY <1>0, <2>1, <2>2, <2>3, <2>4 DEF ToldShows, StillShows, OnlyMoves, Working
  <2>6. OneAnnouncer'
    BY <1>0, <2>2 DEF OneAnnouncer, OnlyMoves
  <2> QED BY <2>5, <2>6
<1>5. ASSUME NEW w \in Workers, jobs' = jobs, alerts' = alerts, OnlyMoves(w), KeepsClaim(w), Working(w),
             worker'[w].pc # "announce"
      PROVE  Fine
  BY <1>1, <1>5 DEF NoNewAlert, OnlyMoves, KeepsClaim, Working
<1>6. ASSUME NEW w \in Workers,
             \/ BuildBundle(w) \/ BuildFails(w) \/ InstallSucceeds(w) \/ InstallFails(w)
             \/ RecordDeploymentOutcome(w) \/ RecordOutcomeFails(w)
      PROVE  Fine
  <2>1. CASE BuildBundle(w) \/ BuildFails(w)
    BY <1>5, <2>1, BuildEffect DEF Working
  <2>2. CASE InstallSucceeds(w) \/ InstallFails(w)
    BY <1>5, <2>2, InstallEffect DEF Working
  <2>3. CASE RecordDeploymentOutcome(w) \/ RecordOutcomeFails(w)
    BY <1>5, <2>3, RecordEffect DEF Working
  <2> QED BY <1>6, <2>1, <2>2, <2>3
\* A goroutine goes on to announce only what the row did not show it: nobody has
\* told, the row was its own, and from now on the row shows it.
<1>7. ASSUME NEW w \in Workers, CompleteDeploymentJob(w) PROVE Fine
  <2> DEFINE j == worker[w].job
  <2>0. worker[w].pc = "finish" /\ alerts' = alerts /\ LetsGo(w) /\ OtherRowsKept(j)
    BY <1>7, CompleteEffect
  <2>1. /\ j \in Jobs /\ Working(w) /\ jobs[j].status = "RUNNING"
    BY <1>0, <2>0, HolderFacts DEF Working, Exclusive, HasTheRow
  <2>2. IndexAllows(j, jobs[j].place)
    BY <2>1 DEF Inv, OneOutstandingPerPlace, IndexAllows, Outstanding
  <2>3. /\ jobs'[j].status \in {"PENDING", "SUCCEEDED"} /\ KeepsRow(j)
        /\ worker'[w].pc = "announce" => jobs'[j].escalated
    BY <1>7, <2>2, CompleteEffect DEF IdleWorker
  <2> HIDE DEF j
  <2>4. StillShows
    <3>1. ASSUME NEW k \in Jobs \ {j}, Told(k)
          PROVE  jobs'[k].status # "FREE" /\ (Outstanding(k)' => jobs'[k].escalated)
      BY <1>0, <2>0, <3>1 DEF ToldShows, OtherRowsKept, Outstanding
    <3>2. ASSUME Told(j) PROVE jobs'[j].status # "FREE" /\ jobs'[j].escalated
      BY <1>0, <2>1, <2>3, <3>2 DEF ToldShows, KeepsRow, Outstanding
    <3> QED BY <2>1, <3>1, <3>2 DEF StillShows
  <2>5. \A v \in Workers : Working(v)' => v # w /\ Working(v) /\ worker'[v] = worker[v]
    BY <2>0 DEF LetsGo, OnlyMoves, Working, IdleWorker
  <2>6. CASE worker'[w] = IdleWorker
    <3>1. NoNewAlert
      BY <2>0, <2>5, <2>6 DEF NoNewAlert, LetsGo, OnlyMoves, IdleWorker
    <3> QED BY <1>0, <2>4, <3>1, AnnounceKept
  <2>7. CASE KeepsClaim(w) /\ worker'[w].pc = "announce" /\ ~worker[w].escalated
    <3>1. ~Told(j) /\ alerts[j] = 0 /\ worker'[w].job = j
      BY <1>0, <2>1, <2>7 DEF ToldShows, Told, KeepsClaim, Inv, TypeOK, j
    <3>2. \A k \in Jobs \ {j} : Told(k)' => Told(k)
      BY <2>0, <2>7, <3>1 DEF Told, LetsGo, OnlyMoves
    <3>3. \A v \in Workers : ~(Working(v)' /\ worker'[v].job = j)
      BY <1>0, <2>1, <2>5, Apart DEF j
    <3>4. ASSUME NEW k \in Jobs, k # j, Told(k)'
          PROVE  /\ jobs'[k].status # "FREE" /\ (Outstanding(k)' => jobs'[k].escalated)
                 /\ \A v \in Workers : Working(v)' /\ worker'[v].job = k => worker'[v].escalated
      BY <1>0, <2>4, <2>5, <3>2, <3>4 DEF ToldShows, StillShows
    <3>5. ToldShows'
      BY <2>3, <2>7, <3>3, <3>4 DEF ToldShows
    <3>6. ASSUME NEW v \in Workers, v # w, worker'[v].pc = "announce"
          PROVE  worker'[v].job # j /\ worker'[v] = worker[v]
      BY <2>0, <3>1, <3>6 DEF Told, LetsGo, OnlyMoves
    <3>7. OneAnnouncer'
      BY <1>0, <2>0, <2>7, <3>1, <3>6 DEF OneAnnouncer
    <3> QED BY <3>5, <3>7
  <2> QED BY <2>0, <2>6, <2>7 DEF LetsGo
<1>8. ASSUME NEW w \in Workers, AnnounceEscalation(w) PROVE Fine
  <2> DEFINE j == worker[w].job
  <2>1. /\ jobs' = jobs /\ OnlyMoves(w) /\ worker[w].pc = "announce" /\ worker'[w] = IdleWorker
        /\ alerts' = [alerts EXCEPT ![j] = Twice(@)]
    BY <1>8, AnnounceEffect
  <2>2. j \in Jobs
    BY <2>1, HolderFacts
  <2>3. alerts[j] = 0 /\ alerts'[j] = 1 /\ \A k \in Jobs \ {j} : alerts'[k] = alerts[k]
    BY <1>0, <2>1, <2>2 DEF OneAnnouncer, Twice, Inv, TypeOK
  <2>4. \A k \in Jobs : Told(k)' => Told(k)
    BY <2>1, <2>3 DEF Told, OnlyMoves, IdleWorker
  <2>5. ToldShows'
    BY <1>0, <2>1, <2>4 DEF ToldShows, OnlyMoves, Working, IdleWorker, Outstanding
  <2>6. OneAnnouncer'
    BY <1>0, <2>1, <2>3, HolderFacts DEF OneAnnouncer, OnlyMoves, IdleWorker
  <2> QED BY <2>5, <2>6
<1>9. ASSUME NEW w \in Workers, Crash(w) PROVE Fine
  BY <1>1, <1>9, CrashEffect DEF NoNewAlert, OnlyMoves, Working, IdleWorker
<1>10. ASSUME NEW j \in Jobs,
             \/ BecomeDue(j) \/ LeaseRunsOut(j) \/ LeaseLapses(j)
             \/ \E w \in Workers : ExtendDeploymentLease(w) /\ worker[w].job = j
      PROVE  Fine
  <2>1. /\ worker' = worker /\ alerts' = alerts
        /\ OtherRowsKept(j) /\ KeepsRow(j) /\ Outstanding(j) /\ jobs'[j].status = jobs[j].status
    BY <1>10, TimedEffect
  <2>2. NoNewAlert /\ StillShows
    BY <1>0, <2>1 DEF NoNewAlert, StillShows, ToldShows, Working, Outstanding, OtherRowsKept, KeepsRow
  <2> QED BY <1>0, <2>2, AnnounceKept
<1>11. ASSUME NEW w \in Workers, ExtendDeploymentLease(w) PROVE Fine
  BY <1>10, <1>11, HolderFacts DEF ExtendDeploymentLease
<1>12. CASE (\E p \in Places : SwitchPlace(p)) \/ UNCHANGED vars
  BY <1>2, <1>12 DEF SwitchPlace, vars
<1>13. /\ \A j \in Jobs : ~CancelDeploymentJob(j)
       /\ \A w \in Workers : ~CompletionLost(w)
  BY <1>0 DEF CancelDeploymentJob, CompletionLost
<1> QED
  BY <1>3, <1>4, <1>6, <1>7, <1>8, <1>9, <1>10, <1>11, <1>12, <1>13
     DEF Next, PlannerStep, WorkerProceeds

\* While leases hold and completions are written, a job that needs somebody's
\* attention is announced at most once over all its attempts.
THEOREM OneAnnouncement == Spec => []AnnouncedOnce
<1>1. Init => Inv /\ Steady /\ AnnounceInv
  BY InitInv, InitSteady, InitAnnounce
<1>2. Inv /\ Steady /\ AnnounceInv /\ [Next]_vars => (Inv /\ Steady /\ AnnounceInv)'
  BY StepInv, SteadyStep, AnnounceStep
<1>3. AnnounceInv => AnnouncedOnce
  BY DEF AnnounceInv, AnnouncedOnce, WritesLand, OneAnnouncer
<1> QED BY <1>1, <1>2, <1>3, PTL DEF Spec

-----------------------------------------------------------------------------
(* Earlier waves first *)

\* The proviso of StagingFirst, and what it promises.
OneRollout == Without({"cancel", "switch"}) /\ cert + manual <= 1
Staged ==
    \A p, q \in Places :
        Wave[q] < Wave[p] /\ ListedBefore(q, p) /\ q \notin OptedOut /\ InItsWave(p)
          => holds[p] \in accepted[q]

\* The rollout has come past p and found or left a job there.
HasJob(p) == \E j \in Jobs : jobs[j].status # "FREE" /\ jobs[j].place = p

\* Places a rollout brings the certificate to before it comes to p, when it has
\* queued p in its wave.
Before(p) == {q \in Places \ OptedOut : Wave[q] < Wave[p] /\ ListedBefore(q, p)}

NothingBegun ==
    /\ \A j \in Jobs : jobs[j].status = "FREE"
    /\ \A w \in Workers : worker[w].pc = "idle"
    /\ \A e \in Planners : planner[e].pc = "idle"

\* A row that was queued is in the wave of its place, or in the first one.
RowStaged(j) ==
    /\ jobs[j].status # "CANCELLED"
    /\ jobs[j].status # "FREE" => jobs[j].wave \in {0, Wave[jobs[j].place]}
    /\ jobs[j].status = "SUCCEEDED" => cert \in accepted[jobs[j].place]
    /\ jobs[j].status # "FREE" => \A q \in Before(jobs[j].place) : HasJob(q)

\* The goroutine's row was queued in the wave of its place.
OnWave(w) == Working(w) /\ jobs[worker[w].job].wave = Wave[PlaceOf(w)]

WorkerStaged(w) ==
    /\ OnWave(w) => \A q \in Before(PlaceOf(w)) : cert \in accepted[q]
    /\ worker[w].pc = "install" => worker[w].fp = cert
    /\ worker[w].pc \in {"record", "finish"} /\ worker[w].ok => cert \in accepted[PlaceOf(w)]

PlannerStaged(e) ==
    /\ planner[e].pc = "list" => planner[e].next = 1
    /\ planner[e].pc = "queue" =>
         /\ planner[e].off = {}
         /\ \A i \in 1..Len(Listing) : i < planner[e].next => Listing[i] \in OptedOut \/ HasJob(Listing[i])

StageParts ==
    /\ cert + manual = 0 => NothingBegun
    /\ \A p \in Places : enabled[p]
    /\ \A j \in Jobs : RowStaged(j)
    /\ \A w \in Workers : WorkerStaged(w)
    /\ \A e \in Planners : PlannerStaged(e)
    /\ Staged

StageInv == OneRollout => StageParts

LEMMA InitStage == Init => StageInv
<1> SUFFICES ASSUME Init PROVE StageParts
  BY DEF StageInv
<1>1. NothingBegun
  BY DEF Init, NothingBegun, FreeRow, IdleWorker, NoRollout
<1>2. Staged /\ \A p \in Places : enabled[p]
  BY DEF Init, Staged
<1> QED BY <1>1, <1>2 DEF StageParts, NothingBegun, RowStaged, WorkerStaged, PlannerStaged, OnWave,
                              Working

LEMMA Counts == ASSUME Inv PROVE cert \in Nat /\ manual \in Nat
BY Numbers, DeploymentAssumption DEF Inv, TypeOK

\* Before the first rollout there is nothing for anybody to do but begin it.
LEMMA BegunStep ==
    ASSUME Inv, StageParts, cert + manual = 0, Next
    PROVE  \/ \E e \in Planners : StoreRenewal(e) \/ DeployManually(e)
           \/ \E p \in Places : SwitchPlace(p)
<1>0. NothingBegun
  BY DEF StageParts
<1>1. \A e \in Planners : ~PlannerProceeds(e) /\ ~WaveUnread(e) /\ ~RolloutCutShort(e)
  BY <1>0 DEF NothingBegun, PlannerProceeds, ListPlaces, WaveUnread, SkipPlace, EnqueueDeployment,
              RolloutCutShort
<1>2. \A j \in Jobs : ~Outstanding(j)
  BY <1>0 DEF NothingBegun, Outstanding
<1>3. \A w \in Workers : ~ClaimDeploymentJob(w)
  BY <1>2, ClaimEffect
<1>4. \A w \in Workers : /\ ~BuildBundle(w) /\ ~BuildFails(w) /\ ~InstallSucceeds(w) /\ ~InstallFails(w)
                         /\ ~RecordDeploymentOutcome(w) /\ ~RecordOutcomeFails(w)
                         /\ ~CompleteDeploymentJob(w) /\ ~CompletionLost(w)
                         /\ ~AnnounceEscalation(w) /\ ~ExtendDeploymentLease(w) /\ ~Crash(w)
  BY <1>0 DEF NothingBegun, BuildBundle, BuildFails, InstallSucceeds, InstallFails, RecordDeploymentOutcome,
              RecordOutcomeFails, CompleteDeploymentJob, CompletionLost, AnnounceEscalation,
              ExtendDeploymentLease, Crash
<1>5. \A j \in Jobs : ~BecomeDue(j) /\ ~LeaseRunsOut(j) /\ ~LeaseLapses(j) /\ ~CancelDeploymentJob(j)
  BY <1>0, <1>2 DEF NothingBegun, BecomeDue, LeaseRunsOut, LeaseLapses, CancelDeploymentJob
<1> QED BY <1>1, <1>3, <1>4, <1>5 DEF Next, WorkerProceeds

\* What stays: nothing is begun or switched, rows stay in use for their place, and
\* what was accepted stays accepted.
Onward ==
    /\ UNCHANGED <<cert, manual, enabled>>
    /\ \A k \in Jobs : jobs[k].status # "FREE"
                         => /\ jobs'[k].status # "FREE" /\ jobs'[k].place = jobs[k].place
                            /\ jobs'[k].wave = jobs[k].wave
    /\ \A p \in Places : accepted[p] \subseteq accepted'[p]

LEMMA HasJobKept == ASSUME Onward PROVE \A p \in Places : HasJob(p) => HasJob(p)'
BY DEF Onward, HasJob

\* A row that was in use and still has its status.
LEMMA RowKept ==
    ASSUME Inv, Onward, NEW j \in Jobs, RowStaged(j),
           jobs'[j].status # jobs[j].status => jobs[j].status # "FREE" /\ Outstanding(j)'
    PROVE  RowStaged(j)'
<1>1. CASE jobs[j].status # "FREE"
  <2>1. /\ jobs[j].place \in Places /\ jobs'[j].place = jobs[j].place /\ cert' = cert
        /\ jobs'[j].wave = jobs[j].wave
        /\ accepted[jobs[j].place] \subseteq accepted'[jobs[j].place]
    BY <1>1 DEF Onward, Inv, TypeOK, RowsNamed, JobRow
  <2>2. \A q \in Before(jobs[j].place) : HasJob(q)'
    BY <1>1, HasJobKept DEF RowStaged, Before
  <2> QED BY <1>1, <2>1, <2>2 DEF RowStaged, Outstanding, Before
<1> QED BY <1>1 DEF RowStaged

\* A goroutine that stays where it is.
LEMMA WorkerKept ==
    ASSUME Inv, Onward, NEW w \in Workers, WorkerStaged(w), worker'[w] = worker[w]
    PROVE  WorkerStaged(w)'
<1>1. CASE worker[w].pc # "idle"
  <2>1. /\ PlaceOf(w) \in Places /\ PlaceOf(w)' = PlaceOf(w) /\ cert' = cert
        /\ OnWave(w)' => OnWave(w)
    BY <1>1, HolderFacts DEF Onward, PlaceOf, OnWave, Working
  <2>2. \A q \in Places : accepted[q] \subseteq accepted'[q]
    BY DEF Onward
  <2> QED BY <2>1, <2>2 DEF WorkerStaged, Before
<1> QED BY <1>1 DEF WorkerStaged, Working, OnWave

LEMMA PlannerKept ==
    ASSUME Inv, Onward, NEW e \in Planners, PlannerStaged(e), planner'[e] = planner[e]
    PROVE  PlannerStaged(e)'
BY HasJobKept, ListedPlace DEF PlannerStaged

\* A place that is in its wave after the step was in its wave before.
LEMMA InItsWaveBefore ==
    ASSUME Inv, Onward PROVE \A p \in Places : InItsWave(p)' => InItsWave(p)
<1>1. \A p \in Places, j \in Jobs : jobs[j].place = p => jobs[j].status # "FREE"
  BY DeploymentAssumption DEF Inv, RowsNamed
<1> QED BY <1>1 DEF Onward, InItsWave

LEMMA StagedKept == ASSUME Inv, Onward, Staged, holds' = holds PROVE Staged'
BY InItsWaveBefore DEF Onward, Staged

\* The whole, from the one row, goroutine or rollout that moves.
LEMMA StageAssemble ==
    ASSUME Inv, StageParts, cert + manual # 0, Onward,
           \A j \in Jobs : jobs'[j].status = jobs[j].status \/ RowStaged(j)',
           \A w \in Workers : worker'[w] = worker[w] \/ WorkerStaged(w)',
           \A e \in Planners : planner'[e] = planner[e] \/ PlannerStaged(e)',
           holds' = holds \/ Staged'
    PROVE  StageParts'
<1>1. cert' + manual' # 0 /\ \A p \in Places : enabled'[p]
  BY DEF Onward, StageParts
<1>2. \A j \in Jobs : RowStaged(j)'
  <2> SUFFICES ASSUME NEW j \in Jobs, jobs'[j].status = jobs[j].status PROVE RowStaged(j)'
    OBVIOUS
  <2>1. RowStaged(j)
    BY DEF StageParts
  <2> QED BY <2>1, RowKept DEF Outstanding
<1>3. \A w \in Workers : WorkerStaged(w)'
  BY WorkerKept DEF StageParts
<1>4. \A e \in Planners : PlannerStaged(e)'
  BY PlannerKept DEF StageParts
<1>5. Staged'
  BY StagedKept DEF StageParts
<1> QED BY <1>1, <1>2, <1>3, <1>4, <1>5 DEF StageParts

\* The rollout begins: the only one there will be.
LEMMA BeginStage ==
    ASSUME Inv, StageInv, NEW e \in Planners, StoreRenewal(e) \/ DeployManually(e), OneRollout'
    PROVE  StageParts'
<1>1. /\ UNCHANGED <<enabled, jobs, worker, holds, accepted, upsets>>
      /\ planner'[e].pc = "list" /\ planner'[e].next = 1
      /\ \A d \in Planners \ {e} : planner'[d] = planner[d]
  BY BeginEffect
<1>0. cert' + manual' = cert + manual + 1
  <2>1. (cert' = cert + 1 /\ manual' = manual) \/ (cert' = cert /\ manual' = manual + 1)
    BY BeginEffect
  <2> QED BY <2>1, Counts
<1>2. cert + manual = 0 /\ cert' + manual' # 0
  BY <1>0, <1>1, Counts DEF OneRollout
<1>3. Without({"cancel", "switch"})
  BY <1>1 DEF OneRollout, Without
<1>4. StageParts /\ NothingBegun
  BY <1>2, <1>3 DEF StageInv, StageParts, OneRollout
<1>5. \A j \in Jobs : RowStaged(j)'
  BY <1>1, <1>4 DEF NothingBegun, RowStaged
<1>6. \A w \in Workers : WorkerStaged(w)'
  BY <1>1, <1>4 DEF NothingBegun, WorkerStaged, OnWave, Working
<1>7. \A d \in Planners : PlannerStaged(d)'
  BY <1>1, <1>4 DEF NothingBegun, PlannerStaged
<1>8. Staged' /\ \A p \in Places : enabled'[p]
  BY <1>1, <1>4 DEF StageParts, Staged, InItsWave
<1> QED BY <1>2, <1>5, <1>6, <1>7, <1>8 DEF StageParts

\* The loop of EnqueueFor moves past a binding that has its job, or wants none.
LEMMA AdvanceStage ==
    ASSUME Inv, StageParts, Onward, NEW e \in Planners, planner[e].pc = "queue", Advance(e),
           NEW p, p = Listing[planner[e].next], p \in OptedOut \/ HasJob(p)'
    PROVE  PlannerStaged(e)'
<1>1. planner[e].next \in 1..Len(Listing) /\ planner[e].off = {} /\ PlannerStaged(e)
  BY DEF Inv, TypeOK, PlannerState, StageParts, PlannerStaged
<1>2. \/ planner'[e].pc = "idle"
      \/ /\ planner'[e].next = planner[e].next + 1
         /\ planner'[e].pc = "queue" /\ planner'[e].off = {}
  BY <1>1, AdvanceEffect
<1>3. \A i \in 1..Len(Listing) : i < planner[e].next + 1 => Listing[i] \in OptedOut \/ HasJob(Listing[i])'
  <2> SUFFICES ASSUME NEW i \in 1..Len(Listing), i < planner[e].next + 1
               PROVE  Listing[i] \in OptedOut \/ HasJob(Listing[i])'
    OBVIOUS
  <2>1. CASE i = planner[e].next
    BY <2>1
  <2>2. CASE i < planner[e].next
    BY <1>1, <2>2, HasJobKept, ListedPlace DEF PlannerStaged
  <2> QED BY <1>1, <2>1, <2>2
<1> QED BY <1>2, <1>3 DEF PlannerStaged

LEMMA EnqueueStage ==
    ASSUME Inv, StageParts, cert + manual # 0, NEW e \in Planners, EnqueueDeployment(e)
    PROVE  StageParts'
<1>0. PICK p \in Places : p = Listing[planner[e].next]
  BY EnqueueEffect
<1>1. /\ UNCHANGED <<cert, manual, enabled, worker, holds, accepted>>
      /\ planner[e].pc = "queue" /\ Advance(e)
      /\ \A k \in Jobs : jobs[k].status # "FREE" => jobs'[k] = jobs[k]
  BY EnqueueEffect DEF OtherRowsKept
<1>2. Onward
  BY <1>1 DEF Onward
<1>. DEFINE new == QueuedRow(p, WaveRead(e, p))
<1>3. /\ new.status = "PENDING" /\ new.place = p /\ new.wave \in {0, Wave[p]}
  BY QueuedRowFacts, WaveReadFacts
<1>4. new = QueuedRow(Listing[planner[e].next], WaveRead(e, Listing[planner[e].next]))
  BY <1>0
<1>. HIDE DEF new
<1>5. HasJob(p)' /\ \A j \in Jobs : jobs'[j] = jobs[j] \/ (jobs[j].status = "FREE" /\ jobs'[j] = new)
  <2>1. CASE jobs' = jobs /\ \E k \in Jobs : Outstanding(k) /\ jobs[k].place = p
    BY <2>1 DEF HasJob, Outstanding
  <2>2. CASE \E j \in Jobs : /\ jobs[j].status = "FREE" /\ OtherRowsKept(j) /\ jobs'[j] = new
    BY <1>1, <1>3, <2>2 DEF HasJob, OtherRowsKept
  <2> QED BY <1>0, <1>4, <2>1, <2>2, EnqueueEffect
<1>6. PlannerStaged(e)'
  BY <1>0, <1>1, <1>2, <1>5, AdvanceStage
<1>7. ASSUME NEW q \in Before(p) PROVE HasJob(q)'
  <2>1. planner[e].next \in 1..Len(Listing) /\ PlannerStaged(e) /\ Len(Listing) \in Nat
    BY DeploymentAssumption DEF Inv, TypeOK, PlannerState, StageParts
  <2>2. PICK i \in 1..(planner[e].next - 1) : Listing[i] = q
    BY <1>0, <2>1 DEF Before, ListedBefore
  <2>3. i \in 1..Len(Listing) /\ i < planner[e].next
    BY <2>1
  <2> QED BY <1>1, <1>2, <2>1, <2>2, <2>3, HasJobKept DEF PlannerStaged, Before
<1>8. ASSUME NEW j \in Jobs, jobs'[j] = new PROVE RowStaged(j)'
  BY <1>1, <1>3, <1>7, <1>8 DEF RowStaged, Before
<1>9. \A d \in Planners : planner'[d] = planner[d] \/ PlannerStaged(d)'
  BY <1>1, <1>6, AdvanceEffect
<1>10. \A j \in Jobs : jobs'[j].status = jobs[j].status \/ RowStaged(j)'
  BY <1>5, <1>8
<1> QED BY <1>1, <1>2, <1>9, <1>10, StageAssemble

\* A claim: nothing is outstanding in earlier waves, so all of it has succeeded.
LEMMA ClaimStage ==
    ASSUME Inv, StageParts, cert + manual # 0, NEW w \in Workers, ClaimDeploymentJob(w)
    PROVE  StageParts'
<1>1. PICK j \in Jobs : /\ Claimable(j) /\ Outstanding(j) /\ OtherRowsKept(j) /\ KeepsRow(j)
                        /\ jobs'[j].status = "RUNNING" /\ worker'[w].job = j
  BY ClaimEffect
<1>2. /\ UNCHANGED <<cert, manual, enabled, planner, holds, accepted>> /\ OnlyMoves(w)
      /\ worker'[w].pc = "read"
  BY ClaimEffect
<1>3. Onward
  BY <1>1, <1>2 DEF Onward, OtherRowsKept, KeepsRow, Outstanding
<1>4. \A k \in Jobs : jobs'[k].status = jobs[k].status \/ RowStaged(k)'
  <2>1. RowStaged(j)' /\ \A k \in Jobs \ {j} : jobs'[k] = jobs[k]
    BY <1>1, <1>3, RowKept DEF StageParts, Outstanding, OtherRowsKept
  <2> QED BY <2>1
<1>5. jobs[j].place \in Places /\ jobs'[j].place = jobs[j].place
  BY <1>1 DEF Inv, TypeOK, RowsNamed, JobRow, Outstanding, KeepsRow
<1>6. ASSUME NEW q \in Before(jobs[j].place), jobs[j].wave = Wave[jobs[j].place]
      PROVE  cert \in accepted[q]
  <2>1. PICK k \in Jobs : jobs[k].status # "FREE" /\ jobs[k].place = q
    BY <1>1 DEF StageParts, RowStaged, HasJob, Outstanding
  <2>2. ~Outstanding(k)
    <3>1. /\ jobs[k].wave \in {0, Wave[q]} /\ Wave[q] \in Nat /\ Wave[jobs[j].place] \in Nat
          /\ Wave[q] < Wave[jobs[j].place]
      BY <1>5, <2>1, DeploymentAssumption DEF StageParts, RowStaged, Before
    <3>2. jobs[k].wave < jobs[j].wave
      BY <1>6, <3>1
    <3> QED BY <1>1, <3>2 DEF Claimable, WaveAllows
  <2>3. jobs[k].status = "SUCCEEDED"
    BY <2>1, <2>2 DEF Outstanding, Inv, TypeOK, JobRow, Statuses, StageParts, RowStaged
  <2> QED BY <2>1, <2>3 DEF StageParts, RowStaged
<1>7. WorkerStaged(w)'
  <2>1. PlaceOf(w)' = jobs[j].place /\ (OnWave(w)' => jobs[j].wave = Wave[jobs[j].place])
    BY <1>1, <1>5 DEF PlaceOf, OnWave, KeepsRow
  <2> QED BY <1>2, <1>6, <2>1 DEF WorkerStaged, Before
<1> QED BY <1>2, <1>3, <1>4, <1>7, StageAssemble DEF OnlyMoves

\* Steps of a goroutine that write no row.
LEMMA WorkStage ==
    ASSUME Inv, StageParts, cert + manual # 0, NEW w \in Workers,
           UNCHANGED <<cert, manual, enabled, jobs, planner>>, OnlyMoves(w),
           \A p \in Places : accepted[p] \subseteq accepted'[p],
           WorkerStaged(w)', holds' = holds \/ Staged'
    PROVE  StageParts'
<1>1. Onward
  BY DEF Onward
<1> QED BY <1>1, StageAssemble DEF OnlyMoves

LEMMA StageStep == Inv /\ StageInv /\ [Next]_vars => StageInv'
<1> SUFFICES ASSUME Inv, StageInv, [Next]_vars, OneRollout' PROVE StageParts'
  BY DEF StageInv
<1>0. ASSUME NEW e \in Planners, StoreRenewal(e) \/ DeployManually(e) PROVE StageParts'
  BY <1>0, BeginStage
<1>1. /\ Without({"cancel", "switch"}) /\ ~Upset("cancel") /\ ~Upset("switch")
  BY UpsetFacts DEF OneRollout
<1>2. CASE UNCHANGED vars
  <2>1. UNCHANGED <<cert, manual, enabled, jobs, worker, planner, holds, accepted, upsets>>
    BY <1>2 DEF vars
  <2>2. StageParts
    BY <1>1, <2>1 DEF StageInv, OneRollout
  <2> QED
    BY <2>1, <2>2 DEF StageParts, NothingBegun, RowStaged, WorkerStaged, PlannerStaged, Staged,
                      OnWave, Working, PlaceOf, HasJob, InItsWave
<1>3. CASE Next /\ ~\E e \in Planners : StoreRenewal(e) \/ DeployManually(e)
  <2>1. cert' = cert /\ manual' = manual
    BY <1>3 DEF Next, PlannerProceeds, WorkerProceeds, ListPlaces, WaveUnread, SkipPlace,
                EnqueueDeployment, RolloutCutShort, ClaimDeploymentJob, BuildBundle, BuildFails, InstallSucceeds,
                InstallFails, RecordDeploymentOutcome, RecordOutcomeFails, CompleteDeploymentJob,
                CompletionLost, AnnounceEscalation, ExtendDeploymentLease, Crash, BecomeDue,
                LeaseRunsOut, LeaseLapses, CancelDeploymentJob, SwitchPlace
  <2>2. StageParts
    BY <1>1, <2>1 DEF StageInv, OneRollout
  <2>3. cert + manual # 0
    BY <1>1, <1>3, <2>2, BegunStep DEF SwitchPlace
  <2>4. ASSUME NEW e \in Planners,
               ListPlaces(e) \/ WaveUnread(e) \/ SkipPlace(e) \/ RolloutCutShort(e)
        PROVE  StageParts'
    <3>1. UNCHANGED <<cert, manual, enabled, jobs, worker, holds, accepted>>
      BY <2>4 DEF ListPlaces, WaveUnread, SkipPlace, RolloutCutShort
    <3>2. Onward
      BY <3>1 DEF Onward
    <3>3. PlannerStaged(e)' /\ \A d \in Planners \ {e} : planner'[d] = planner[d]
      <4>1. CASE ListPlaces(e) \/ WaveUnread(e)
        <5>1. planner[e].next = 1 /\ \A p \in Places : enabled[p]
          BY <2>2, <4>1, ListEffect DEF StageParts, PlannerStaged
        <5>2. planner'[e].pc = "queue" /\ planner'[e].next = 1 /\ planner'[e].off = {}
          BY <4>1, <5>1, ListEffect
        <5> QED BY <4>1, <5>2, ListEffect DEF PlannerStaged
      <4>2. CASE SkipPlace(e)
        <5>1. planner[e].pc = "queue" /\ Advance(e) /\ planner[e].off = {}
              /\ Listing[planner[e].next] \in OptedOut
          BY <2>2, <4>2 DEF SkipPlace, Skips, StageParts, PlannerStaged
        <5> QED BY <2>2, <3>2, <5>1, AdvanceStage, AdvanceEffect
      <4>3. CASE RolloutCutShort(e)
        BY <4>3, CutShortEffect DEF PlannerStaged
      <4> QED BY <2>4, <4>1, <4>2, <4>3
    <3> QED BY <2>2, <2>3, <3>1, <3>2, <3>3, StageAssemble
  <2>5. ASSUME NEW e \in Planners, EnqueueDeployment(e) PROVE StageParts'
    BY <2>2, <2>3, <2>5, EnqueueStage
  <2>6. ASSUME NEW w \in Workers, ClaimDeploymentJob(w) PROVE StageParts'
    BY <2>2, <2>3, <2>6, ClaimStage
  <2>7. ASSUME NEW w \in Workers, BuildBundle(w) \/ BuildFails(w) PROVE StageParts'
    <3>1. /\ UNCHANGED <<cert, manual, enabled, jobs, planner, holds, accepted>>
          /\ worker[w].pc = "read" /\ OnlyMoves(w) /\ KeepsClaim(w)
          /\ \/ worker'[w].pc = "install" /\ worker'[w].fp = cert
             \/ worker'[w].pc = "finish" /\ worker'[w].ok = FALSE
      BY <2>7, BuildEffect
    <3>2. PlaceOf(w)' = PlaceOf(w) /\ WorkerStaged(w) /\ Working(w) /\ (OnWave(w)' => OnWave(w))
      BY <2>2, <3>1 DEF PlaceOf, KeepsClaim, StageParts, Working, OnWave
    <3>3. WorkerStaged(w)'
      BY <3>1, <3>2 DEF WorkerStaged, Before
    <3> QED BY <2>2, <2>3, <3>1, <3>3, WorkStage
  \* What arrives is the certificate every earlier place has accepted.
  <2>8. ASSUME NEW w \in Workers, InstallSucceeds(w) \/ InstallFails(w) PROVE StageParts'
    <3> DEFINE p == PlaceOf(w)
    <3>1. /\ UNCHANGED <<cert, manual, enabled, jobs, planner>>
          /\ worker[w].pc = "install" /\ OnlyMoves(w) /\ KeepsClaim(w)
          /\ worker'[w].pc = "record" /\ p \in Places
          /\ \A q \in Places \ {p} : holds'[q] = holds[q] /\ accepted'[q] = accepted[q]
          /\ holds'[p] \in {holds[p], worker[w].fp}
          /\ \/ worker'[w].ok = TRUE /\ accepted'[p] = accepted[p] \cup {worker[w].fp}
             \/ worker'[w].ok = FALSE /\ accepted' = accepted
      BY <2>8, InstallEffect
    <3>2. /\ worker[w].fp = cert /\ Working(w)
          /\ OnWave(w) => \A q \in Before(p) : cert \in accepted[q]
      BY <2>2, <3>1 DEF StageParts, WorkerStaged, Working
    <3>3. PlaceOf(w)' = p /\ (OnWave(w)' => OnWave(w))
      BY <3>1, <3>2 DEF PlaceOf, KeepsClaim, OnWave
    <3>7. InItsWave(p) => OnWave(w)
      BY <3>1, <3>2, HolderFacts DEF InItsWave, OnWave, PlaceOf
    <3>8. Onward
      BY <3>1 DEF Onward
    <3> HIDE DEF p
    <3>4. \A q \in Places : accepted[q] \subseteq accepted'[q]
      BY <3>1
    <3>5. WorkerStaged(w)'
      BY <3>1, <3>2, <3>3, <3>4 DEF WorkerStaged, Before
    <3>6. Staged'
      <4> SUFFICES ASSUME NEW a \in Places, NEW q \in Places, Wave[q] < Wave[a],
                          ListedBefore(q, a), q \notin OptedOut, InItsWave(a)'
                   PROVE  holds'[a] \in accepted'[q]
        BY DEF Staged, ListedBefore
      <4>0. InItsWave(a)
        BY <3>8, InItsWaveBefore
      <4>1. holds[a] \in accepted'[q]
        BY <2>2, <3>4, <4>0 DEF StageParts, Staged
      <4>2. a = p => cert \in accepted'[q]
        BY <3>2, <3>4, <3>7, <4>0 DEF Before
      <4> QED BY <3>1, <3>2, <4>1, <4>2
    <3> QED BY <2>2, <2>3, <3>1, <3>4, <3>5, <3>6, WorkStage
  <2>9. ASSUME NEW w \in Workers, RecordDeploymentOutcome(w) \/ RecordOutcomeFails(w) PROVE StageParts'
    <3>1. /\ UNCHANGED <<cert, manual, enabled, jobs, planner, holds, accepted>>
          /\ worker[w].pc = "record" /\ OnlyMoves(w) /\ KeepsClaim(w)
          /\ worker'[w].pc = "finish" /\ worker'[w].ok = worker[w].ok
      BY <2>9, RecordEffect
    <3>2. PlaceOf(w)' = PlaceOf(w) /\ WorkerStaged(w) /\ Working(w) /\ (OnWave(w)' => OnWave(w))
      BY <2>2, <3>1 DEF PlaceOf, KeepsClaim, StageParts, Working, OnWave
    <3>3. WorkerStaged(w)'
      BY <3>1, <3>2 DEF WorkerStaged, Before
    <3> QED BY <2>2, <2>3, <3>1, <3>3, WorkStage
  <2>10. ASSUME NEW w \in Workers, LetsGo(w) \/ worker'[w] = IdleWorker PROVE WorkerStaged(w)'
    BY <2>10 DEF LetsGo, WorkerStaged, OnWave, Working, IdleWorker
  \* A job that ends in success has brought the certificate.
  <2>11. ASSUME NEW w \in Workers, CompleteDeploymentJob(w) PROVE StageParts'
    <3>0. PICK j \in Jobs : j = worker[w].job
      BY <2>11, CompleteEffect, HolderFacts
    <3>1. /\ UNCHANGED <<cert, manual, enabled, planner, holds, accepted>>
          /\ worker[w].pc = "finish" /\ LetsGo(w) /\ OtherRowsKept(j)
      BY <2>11, <3>0, CompleteEffect
    <3>2. jobs[j].status # "FREE" /\ WorkerStaged(w) /\ PlaceOf(w) = jobs[j].place
          /\ RowStaged(j)
      BY <2>2, <3>0, <3>1, HolderFacts DEF StageParts, PlaceOf
    <3>3. \/ jobs' = jobs
          \/ /\ jobs'[j].place = jobs[j].place /\ jobs'[j].wave = jobs[j].wave
             /\ \/ worker[w].ok /\ jobs'[j].status = "SUCCEEDED"
                \/ jobs'[j].status = "PENDING"
      BY <2>11, <3>0, CompleteEffect DEF KeepsRow
    <3>4. Onward
      BY <3>1, <3>2, <3>3 DEF Onward, OtherRowsKept
    <3>5. jobs' = jobs \/ RowStaged(j)'
      <4>1. CASE /\ worker[w].ok /\ jobs'[j].status = "SUCCEEDED"
                 /\ jobs'[j].place = jobs[j].place /\ jobs'[j].wave = jobs[j].wave
        <5>1. cert' \in accepted'[jobs'[j].place]
          BY <3>1, <3>2, <4>1 DEF WorkerStaged
        <5>2. \A q \in Before(jobs'[j].place) : HasJob(q)'
          BY <3>2, <3>4, <4>1, HasJobKept DEF RowStaged, Before
        <5> QED BY <3>2, <4>1, <5>1, <5>2 DEF RowStaged, Before
      <4>2. CASE jobs'[j].status = "PENDING"
        BY <3>2, <3>4, <4>2, RowKept DEF Outstanding
      <4> QED BY <3>3, <4>1, <4>2
    <3>6. \A k \in Jobs : jobs'[k].status = jobs[k].status \/ RowStaged(k)'
      BY <3>1, <3>5 DEF OtherRowsKept
    <3>7. \A v \in Workers : worker'[v] = worker[v] \/ WorkerStaged(v)'
      BY <2>10, <3>1 DEF LetsGo, OnlyMoves
    <3> QED BY <2>2, <2>3, <3>1, <3>4, <3>6, <3>7, StageAssemble
  <2>12. ASSUME NEW w \in Workers, CompletionLost(w) \/ AnnounceEscalation(w) \/ Crash(w) PROVE StageParts'
    <3>1. CASE CompletionLost(w)
      BY <2>2, <2>3, <2>10, <3>1, LostEffect, WorkStage DEF LetsGo
    <3>2. CASE AnnounceEscalation(w)
      BY <2>2, <2>3, <2>10, <3>2, AnnounceEffect, WorkStage
    <3>3. CASE Crash(w)
      BY <2>2, <2>3, <2>10, <3>3, CrashEffect, WorkStage
    <3> QED BY <2>12, <3>1, <3>2, <3>3
  <2>13. ASSUME NEW j \in Jobs,
               \/ BecomeDue(j) \/ LeaseRunsOut(j) \/ LeaseLapses(j)
               \/ \E w \in Workers : ExtendDeploymentLease(w) /\ worker[w].job = j
        PROVE  StageParts'
    <3>1. /\ UNCHANGED <<cert, manual, enabled, worker, planner, holds, accepted>>
          /\ OtherRowsKept(j) /\ KeepsRow(j) /\ Outstanding(j) /\ jobs'[j].status = jobs[j].status
      BY <2>13, TimedEffect
    <3>2. Onward
      BY <3>1 DEF Onward, OtherRowsKept, KeepsRow
    <3>3. \A k \in Jobs : jobs'[k].status = jobs[k].status
      BY <3>1 DEF OtherRowsKept
    <3> QED BY <2>2, <2>3, <3>1, <3>2, <3>3, StageAssemble
  <2>14. ASSUME NEW w \in Workers, ExtendDeploymentLease(w) PROVE StageParts'
    BY <2>13, <2>14, HolderFacts DEF ExtendDeploymentLease
  <2>15. (\A j \in Jobs : ~CancelDeploymentJob(j)) /\ (\A p \in Places : ~SwitchPlace(p))
    BY <1>1 DEF CancelDeploymentJob, SwitchPlace
  <2> QED
    BY <1>3, <2>4, <2>5, <2>6, <2>7, <2>8, <2>9, <2>11, <2>12, <2>13, <2>14, <2>15
       DEF Next, PlannerProceeds, WorkerProceeds
<1> QED BY <1>0, <1>2, <1>3

\* A rollout that meets no other one's jobs: its certificate reaches a place only
\* after every place of an earlier wave that was queued before it has accepted it,
\* provided its target could be read and nobody cancels or switches a place off.
\* Crashes, lapsed leases and refused installs change nothing about it, and neither
\* does another target that could not be read.
THEOREM StagingGoesFirst == Spec => []StagingFirst
<1>1. Init => Inv /\ StageInv
  BY InitInv, InitStage
<1>2. Inv /\ StageInv /\ [Next]_vars => (Inv /\ StageInv)'
  BY StepInv, StageStep
<1>3. StageInv => StagingFirst
  BY DEF StageInv, StageParts, Staged, StagingFirst, OneRollout
<1> QED BY <1>1, <1>2, <1>3, PTL DEF Spec

-----------------------------------------------------------------------------
(* The canary rule bounds the damage *)

\* The proviso of CanaryBoundsTheDamage: nothing has gone wrong but refusals.
OnlyRefusals == Without(Upsets \ {"fail"})

Failing(p) == \E j \in Jobs : Outstanding(j) /\ jobs[j].failed /\ jobs[j].place = p
AtWork(p) == \E w \in Workers : Working(w) /\ PlaceOf(w) = p

\* The places a refused certificate has come to.
Hit == {p \in Places : Failing(p) \/ AtWork(p)}

NobodyAccepts == \A p \in Places : cert \notin accepted[p]

\* A goroutine with an older bundle has its place to itself, so that nobody has
\* tried the newest certificate there since it was stored.
Outdated(w) == worker[w].fp # cert => ~tried[PlaceOf(w)]

Informed(w) ==
    /\ worker[w].pc = "install" => Outdated(w)
    /\ worker[w].pc \in {"record", "finish"} /\ worker[w].ok
         => worker[w].fp \in accepted[PlaceOf(w)] /\ Outdated(w)

CanaryParts ==
    /\ IsFiniteSet(Hit) /\ Cardinality(Hit) <= Cardinality(Workers)
    /\ \A w \in Workers : Informed(w)
    /\ NobodyAccepts => \A p \in Places : tried[p] => p \in Hit

CanaryInv == OnlyRefusals => CanaryParts

LEMMA InitCanary == Init => CanaryInv
<1> SUFFICES ASSUME Init PROVE CanaryParts
  BY DEF CanaryInv
<1>1. Hit = {}
  BY DEF Init, Hit, Failing, AtWork, Outstanding, Working, FreeRow, IdleWorker
<1>2. IsFiniteSet(Hit) /\ Cardinality(Hit) = 0
  BY <1>1, FS_EmptySet
<1>3. Cardinality(Workers) \in Nat
  BY DeploymentAssumption, FS_CardinalityType
<1>4. \A w \in Workers : Informed(w)
  BY DEF Init, Informed, IdleWorker
<1>5. \A p \in Places : ~tried[p]
  BY DEF Init
<1> QED BY <1>2, <1>3, <1>4, <1>5 DEF CanaryParts

\* Under the proviso leases hold and rows are their goroutines' own.
LEMMA RefusalsOnly ==
    ASSUME Inv, Steady, OnlyRefusals PROVE AdvanceInv
<1>1. upsets.met \subseteq Upsets
  BY DEF Inv, TypeOK
<1>2. LeasesHold
  BY <1>1 DEF OnlyRefusals, LeasesHold, Without
<1> QED BY <1>2 DEF Steady, AdvanceInv

\* Fewer places hit.
LEMMA FewerHit ==
    ASSUME IsFiniteSet(Hit), Cardinality(Hit) <= Cardinality(Workers), Hit' \subseteq Hit
    PROVE  IsFiniteSet(Hit') /\ Cardinality(Hit') <= Cardinality(Workers)
<1>1. /\ IsFiniteSet(Hit') /\ Cardinality(Hit') <= Cardinality(Hit)
      /\ Cardinality(Hit) \in Nat /\ Cardinality(Hit') \in Nat /\ Cardinality(Workers) \in Nat
  BY FS_Subset, FS_CardinalityType, DeploymentAssumption
<1> QED BY <1>1

\* Places at which goroutines are at work are at most as many as goroutines.
LEMMA AtWorkBound ==
    ASSUME Inv, \A p \in Hit : AtWork(p)
    PROVE  IsFiniteSet(Hit) /\ Cardinality(Hit) <= Cardinality(Workers)
<1> DEFINE W == {w \in Workers : Working(w) /\ PlaceOf(w) \in Hit}
           f == [w \in W |-> PlaceOf(w)]
<1>1. /\ IsFiniteSet(W) /\ Cardinality(W) <= Cardinality(Workers)
      /\ Cardinality(W) \in Nat /\ Cardinality(Workers) \in Nat
  BY FS_Subset, FS_CardinalityType, DeploymentAssumption
<1>2. f \in Surjection(W, Hit)
  <2>1. f \in [W -> Hit]
    OBVIOUS
  <2>2. \A p \in Hit : \E w \in W : f[w] = p
    BY DEF AtWork
  <2> HIDE DEF f, W
  <2> QED BY <2>1, <2>2 DEF Surjection
<1> HIDE DEF f, W
<1>3. IsFiniteSet(Hit) /\ Cardinality(Hit) <= Cardinality(W)
  BY <1>1, <1>2, FS_Surjection
<1>4. Cardinality(Hit) \in Nat
  BY <1>3, FS_CardinalityType
<1> QED BY <1>1, <1>3, <1>4

\* Goroutines keep their jobs or take none, rows keep their place and standing.
LEMMA SameHit ==
    ASSUME Inv,
           \A v \in Workers : /\ Working(v)' <=> Working(v)
                              /\ Working(v) => worker'[v].job = worker[v].job,
           \A k \in Jobs : /\ jobs[k].status # "FREE" => jobs'[k].place = jobs[k].place
                           /\ Outstanding(k)' /\ jobs'[k].failed <=> Outstanding(k) /\ jobs[k].failed
    PROVE  /\ Hit' = Hit
           /\ \A v \in Workers : Working(v) => PlaceOf(v) \in Places /\ PlaceOf(v)' = PlaceOf(v)
<1>1. \A v \in Workers : Working(v) => PlaceOf(v) \in Places /\ PlaceOf(v)' = PlaceOf(v)
  BY HolderFacts DEF Working, PlaceOf
<1>2. \A p \in Places : AtWork(p)' <=> AtWork(p)
  BY <1>1 DEF AtWork
<1>3. \A p \in Places : Failing(p)' <=> Failing(p)
  BY DEF Failing, Outstanding
<1> QED BY <1>1, <1>2, <1>3 DEF Hit

\* A goroutine that stays where it is.
LEMMA InformedKept ==
    ASSUME Inv, NEW w \in Workers, Informed(w), worker'[w] = worker[w], PlaceOf(w)' = PlaceOf(w),
           PlaceOf(w) \in Places => /\ accepted[PlaceOf(w)] \subseteq accepted'[PlaceOf(w)]
                                    /\ tried'[PlaceOf(w)] => tried[PlaceOf(w)],
           cert' = cert
    PROVE  Informed(w)'
<1>1. Working(w) => PlaceOf(w) \in Places
  BY HolderFacts DEF Working, PlaceOf
<1> QED BY <1>1 DEF Informed, Outdated, Working

LEMMA CanaryKept ==
    ASSUME Inv, CanaryParts, UNCHANGED <<cert, accepted, tried>>,
           \A v \in Workers : /\ Working(v)' <=> Working(v)
                              /\ Working(v) => worker'[v].job = worker[v].job,
           \A v \in Workers : worker'[v] = worker[v] \/ Informed(v)',
           \A k \in Jobs : /\ jobs[k].status # "FREE" => jobs'[k].place = jobs[k].place
                           /\ Outstanding(k)' /\ jobs'[k].failed <=> Outstanding(k) /\ jobs[k].failed
    PROVE  CanaryParts'
<1>1. /\ Hit' = Hit
      /\ \A v \in Workers : Working(v) => PlaceOf(v) \in Places /\ PlaceOf(v)' = PlaceOf(v)
  BY SameHit
<1>2. \A v \in Workers : Informed(v)'
  <2> SUFFICES ASSUME NEW v \in Workers, worker'[v] = worker[v] PROVE Informed(v)'
    OBVIOUS
  <2>1. CASE Working(v)
    BY <1>1, <2>1, InformedKept DEF CanaryParts
  <2>2. CASE ~Working(v)
    BY <2>2 DEF Informed, Working
  <2> QED BY <2>1, <2>2
<1>3. NobodyAccepts' <=> NobodyAccepts
  BY DEF NobodyAccepts
<1> QED BY <1>1, <1>2, <1>3 DEF CanaryParts

\* Steps of one goroutine at work that write no row.
LEMMA WorkCanary ==
    ASSUME Inv, CanaryParts, NEW w \in Workers, UNCHANGED <<cert, accepted, tried, jobs>>,
           OnlyMoves(w), KeepsClaim(w), Working(w), Working(w)', Informed(w)'
    PROVE  CanaryParts'
<1>1. \A v \in Workers : /\ Working(v)' <=> Working(v)
                         /\ Working(v) => worker'[v].job = worker[v].job
  BY DEF OnlyMoves, KeepsClaim, Working
<1>2. \A v \in Workers : worker'[v] = worker[v] \/ Informed(v)'
  BY DEF OnlyMoves
<1>3. \A k \in Jobs : /\ jobs[k].status # "FREE" => jobs'[k].place = jobs[k].place
                      /\ Outstanding(k)' /\ jobs'[k].failed <=> Outstanding(k) /\ jobs[k].failed
  BY DEF Outstanding
<1> QED BY <1>1, <1>2, <1>3, CanaryKept

LEMMA BeginCanary ==
    ASSUME Inv, CanaryParts, NEW e \in Planners, StoreRenewal(e) \/ DeployManually(e)
    PROVE  CanaryParts'
<1>1. UNCHANGED <<jobs, worker, accepted>>
  BY BeginEffect
<1>2. \/ \A p \in Places : tried'[p] = FALSE
      \/ cert' = cert /\ tried' = tried
  BY BeginEffect
<1>3. /\ Hit' = Hit
      /\ \A v \in Workers : Working(v) => PlaceOf(v) \in Places /\ PlaceOf(v)' = PlaceOf(v)
  BY <1>1, SameHit DEF Working, Outstanding
<1>4. CASE cert' = cert /\ tried' = tried
  BY <1>1, <1>4, CanaryKept DEF Working, Outstanding
<1>5. CASE \A p \in Places : tried'[p] = FALSE
  <2>1. \A v \in Workers : Informed(v)'
    BY <1>1, <1>3, <1>5 DEF CanaryParts, Informed, Outdated, Working
  <2> QED BY <1>3, <1>5, <2>1 DEF CanaryParts
<1> QED BY <1>2, <1>4, <1>5

\* A job that has failed is claimed at a place hit already; any other only while
\* nothing has failed.
LEMMA ClaimCanary ==
    ASSUME Inv, CanaryParts, NEW w \in Workers, ClaimDeploymentJob(w), Inv'
    PROVE  CanaryParts'
<1>1. PICK j \in Jobs : /\ Claimable(j) /\ Outstanding(j) /\ OtherRowsKept(j) /\ KeepsRow(j)
                        /\ jobs'[j].status = "RUNNING" /\ jobs'[j].failed = jobs[j].failed
                        /\ worker'[w].job = j
  BY ClaimEffect
<1>2. /\ UNCHANGED <<cert, accepted, tried>> /\ OnlyMoves(w)
      /\ worker[w].pc = "idle" /\ worker'[w].pc = "read"
  BY ClaimEffect
<1>3. \A k \in Jobs : /\ jobs'[k].place = jobs[k].place
                      /\ Outstanding(k)' /\ jobs'[k].failed <=> Outstanding(k) /\ jobs[k].failed
  BY <1>1 DEF OtherRowsKept, KeepsRow, Outstanding
<1>4. \A v \in Workers \ {w} : /\ worker'[v] = worker[v] /\ (Working(v)' <=> Working(v))
                               /\ Working(v) => PlaceOf(v) \in Places /\ PlaceOf(v)' = PlaceOf(v)
  BY <1>2, <1>3, HolderFacts DEF OnlyMoves, Working, PlaceOf
<1>5. ~Working(w) /\ Working(w)' /\ PlaceOf(w)' = jobs[j].place /\ jobs[j].place \in Places
  BY <1>1, <1>2, <1>3 DEF Working, PlaceOf, Inv, TypeOK, RowsNamed, JobRow, Outstanding
<1>6. \A p \in Places : AtWork(p)' <=> AtWork(p) \/ p = jobs[j].place
  BY <1>4, <1>5 DEF AtWork
<1>7. \A p \in Places : Failing(p)' <=> Failing(p)
  BY <1>3 DEF Failing, Outstanding
<1>8. IsFiniteSet(Hit') /\ Cardinality(Hit') <= Cardinality(Workers)
  <2>1. CASE jobs[j].failed
    <3>1. jobs[j].place \in Hit
      BY <1>1, <1>5, <2>1 DEF Hit, Failing
    <3>2. Hit' \subseteq Hit
      BY <1>6, <1>7, <3>1 DEF Hit
    <3> QED BY <3>2, FewerHit DEF CanaryParts
  <2>2. CASE ~jobs[j].failed
    <3>1. \A p \in Places : ~Failing(p)
      BY <1>1, <2>2 DEF Claimable, CanaryAllows, Failing
    <3>2. (\A p \in Hit : AtWork(p))'
      BY <1>7, <3>1 DEF Hit
    <3>3. (Inv /\ (\A p \in Hit : AtWork(p)) => IsFiniteSet(Hit) /\ Cardinality(Hit) <= Cardinality(Workers))'
      BY AtWorkBound, PTL
    <3> QED BY <3>2, <3>3
  <2> QED BY <2>1, <2>2
<1>9. Informed(w)'
  BY <1>2 DEF Informed
<1>10. \A v \in Workers \ {w} : Informed(v)'
  BY <1>2, <1>4 DEF CanaryParts, Informed, Outdated, Working
<1>11. NobodyAccepts' => \A p \in Places : tried'[p] => p \in Hit'
  BY <1>2, <1>6, <1>7 DEF CanaryParts, NobodyAccepts, Hit
<1> QED BY <1>8, <1>9, <1>10, <1>11 DEF CanaryParts

LEMMA InstallCanary ==
    ASSUME Inv, AdvanceInv, CanaryParts, NEW w \in Workers, InstallSucceeds(w) \/ InstallFails(w)
    PROVE  CanaryParts'
<1>1. /\ UNCHANGED <<cert, jobs>> /\ worker[w].pc = "install" /\ OnlyMoves(w) /\ KeepsClaim(w)
      /\ worker'[w].pc = "record" /\ worker'[w].fp = worker[w].fp
  BY InstallEffect
<1>2. PICK p \in Places : p = PlaceOf(w)
  BY InstallEffect
<1>3. /\ \A q \in Places \ {p} : accepted'[q] = accepted[q] /\ tried'[q] = tried[q]
      /\ tried'[p] = (tried[p] \/ worker[w].fp = cert)
      /\ \/ worker'[w].ok = TRUE /\ accepted'[p] = accepted[p] \cup {worker[w].fp}
         \/ worker'[w].ok = FALSE /\ accepted' = accepted
  BY <1>2, InstallEffect
<1>4. \A v \in Workers : /\ Working(v)' <=> Working(v)
                         /\ Working(v) => worker'[v].job = worker[v].job
  BY <1>1 DEF OnlyMoves, KeepsClaim, Working
<1>5. /\ Hit' = Hit
      /\ \A v \in Workers : Working(v) => PlaceOf(v) \in Places /\ PlaceOf(v)' = PlaceOf(v)
  BY <1>1, <1>4, SameHit DEF Outstanding
<1>6. p \in Hit /\ Working(w) /\ PlaceOf(w)' = p
  BY <1>1, <1>2, <1>5 DEF Hit, AtWork, Working
<1>7. ASSUME NEW v \in Workers, v # w PROVE Informed(v)'
  <2>1. CASE Working(v)
    <3>1. PlaceOf(v) # p /\ PlaceOf(v) \in Places /\ PlaceOf(v)' = PlaceOf(v)
      BY <1>2, <1>5, <1>6, <1>7, <2>1, Apart
    <3> QED BY <1>1, <1>3, <1>7, <3>1 DEF CanaryParts, Informed, Outdated, OnlyMoves
  <2>2. CASE ~Working(v)
    BY <1>4, <1>7, <2>2 DEF Informed, Working
  <2> QED BY <2>1, <2>2
<1>8. Informed(w)'
  BY <1>1, <1>2, <1>3, <1>6 DEF CanaryParts, Informed, Outdated
<1>9. NobodyAccepts' => \A q \in Places : tried'[q] => q \in Hit'
  BY <1>1, <1>3, <1>5, <1>6 DEF CanaryParts, NobodyAccepts
<1> QED BY <1>5, <1>7, <1>8, <1>9 DEF CanaryParts

\* A refusal leaves its mark on the row, an acceptance ends the premise.
LEMMA CompleteCanary ==
    ASSUME Inv, AdvanceInv, CanaryParts, NEW w \in Workers, CompleteDeploymentJob(w)
    PROVE  CanaryParts'
<1>0. PICK j \in Jobs : j = worker[w].job
  BY CompleteEffect, HolderFacts
<1>1. /\ UNCHANGED <<cert, accepted, tried>> /\ worker[w].pc = "finish" /\ LetsGo(w)
      /\ OtherRowsKept(j)
  BY <1>0, CompleteEffect
<1>2. /\ Working(w) /\ jobs[j].status = "RUNNING" /\ PlaceOf(w) = jobs[j].place
      /\ jobs[j].place \in Places
  BY <1>0, <1>1, HolderFacts DEF Working, AdvanceInv, Exclusive, HasTheRow, PlaceOf
<1>3. IndexAllows(j, jobs[j].place)
  BY <1>2 DEF Inv, OneOutstandingPerPlace, IndexAllows, Outstanding
<1>4. /\ jobs'[j].place = jobs[j].place
      /\ \/ worker[w].ok /\ jobs'[j].status = "SUCCEEDED"
         \/ ~worker[w].ok /\ jobs'[j].status = "PENDING" /\ jobs'[j].failed
  BY <1>0, <1>3, CompleteEffect DEF KeepsRow
<1>5. /\ ~Working(w)'
      /\ \A v \in Workers \ {w} : /\ worker'[v] = worker[v] /\ (Working(v)' <=> Working(v))
                                  /\ Working(v) => PlaceOf(v) \in Places /\ PlaceOf(v)' = PlaceOf(v)
  <2>1. ~Working(w)' /\ \A v \in Workers \ {w} : worker'[v] = worker[v]
    BY <1>1 DEF LetsGo, OnlyMoves, Working, IdleWorker
  <2>2. \A k \in Jobs : jobs'[k].place = jobs[k].place
    BY <1>1, <1>4 DEF OtherRowsKept
  <2> QED BY <2>1, <2>2, HolderFacts DEF Working, PlaceOf
<1>6. \A q \in Places : AtWork(q)' => AtWork(q)
  BY <1>5 DEF AtWork
<1>7. \A q \in Places : Failing(q)' => Failing(q) \/ q = PlaceOf(w)
  BY <1>1, <1>2, <1>4 DEF Failing, OtherRowsKept, Outstanding
<1>8. Hit' \subseteq Hit
  BY <1>2, <1>6, <1>7 DEF Hit, AtWork
<1>9. \A q \in Places : AtWork(q) => AtWork(q)' \/ q = PlaceOf(w)
  BY <1>5 DEF AtWork
<1>10. \A q \in Places : Failing(q) => Failing(q)' \/ q = PlaceOf(w)
  BY <1>1, <1>2 DEF Failing, OtherRowsKept, Outstanding
<1>11. ~worker[w].ok => jobs[j].place \in Hit'
  BY <1>2, <1>4 DEF Hit, Failing, Outstanding
<1>12. worker[w].ok /\ NobodyAccepts => ~tried[PlaceOf(w)]
  BY <1>1, <1>2 DEF CanaryParts, Informed, Outdated, NobodyAccepts
<1>13. NobodyAccepts' => \A q \in Places : tried'[q] => q \in Hit'
  <2> SUFFICES ASSUME NobodyAccepts, NEW q \in Places, tried[q] PROVE q \in Hit'
    BY <1>1 DEF NobodyAccepts
  <2>1. q \in Hit
    BY DEF CanaryParts
  <2>2. CASE q = PlaceOf(w)
    BY <1>2, <1>11, <1>12, <2>2
  <2>3. CASE q # PlaceOf(w)
    BY <1>9, <1>10, <2>1, <2>3 DEF Hit
  <2> QED BY <2>2, <2>3
<1>14. \A v \in Workers : Informed(v)'
  <2>1. Informed(w)'
    BY <1>5 DEF Informed, Working
  <2>2. ASSUME NEW v \in Workers, v # w PROVE Informed(v)'
    BY <1>1, <1>5, <2>2 DEF CanaryParts, Informed, Outdated, Working
  <2> QED BY <2>1, <2>2
<1> QED BY <1>8, <1>13, <1>14, FewerHit DEF CanaryParts

LEMMA CanaryStep == Inv /\ Steady /\ CanaryInv /\ [Next]_vars => CanaryInv'
<1> SUFFICES ASSUME Inv, Steady, CanaryInv, [Next]_vars, OnlyRefusals' PROVE CanaryParts'
  BY DEF CanaryInv
<1>0. OnlyRefusals /\ CanaryParts /\ AdvanceInv /\ Inv'
  BY UpsetFacts, RefusalsOnly, StepInv DEF OnlyRefusals, CanaryInv
<1>1. \A c : Upset(c) => c = "fail"
  BY UpsetFacts DEF OnlyRefusals, Upset
<1>2. ASSUME UNCHANGED <<cert, accepted, tried, worker>>,
             \A k \in Jobs : /\ jobs[k].status # "FREE" => jobs'[k].place = jobs[k].place
                             /\ Outstanding(k)' /\ jobs'[k].failed <=> Outstanding(k) /\ jobs[k].failed
      PROVE  CanaryParts'
  BY <1>0, <1>2, CanaryKept DEF Working
<1>3. ASSUME NEW e \in Planners, StoreRenewal(e) \/ DeployManually(e) PROVE CanaryParts'
  BY <1>0, <1>3, BeginCanary
<1>4. ASSUME NEW e \in Planners, PlannerProceeds(e) PROVE CanaryParts'
  <2>1. CASE ListPlaces(e) \/ SkipPlace(e)
    BY <1>2, <2>1 DEF ListPlaces, SkipPlace, Outstanding
  <2>2. CASE EnqueueDeployment(e)
    <3>1. UNCHANGED <<cert, accepted, tried, worker>>
      BY <2>2, EnqueueEffect
    <3>2. \A k \in Jobs : jobs'[k] = jobs[k] \/ (jobs[k].status = "FREE" /\ ~jobs'[k].failed)
      <4>1. \A p, n : ~QueuedRow(p, n).failed
        BY DEF QueuedRow, FreeRow
      <4> QED BY <2>2, <4>1, EnqueueEffect DEF OtherRowsKept
    <3>3. \A k \in Jobs : /\ jobs[k].status # "FREE" => jobs'[k].place = jobs[k].place
                          /\ Outstanding(k)' /\ jobs'[k].failed <=> Outstanding(k) /\ jobs[k].failed
      BY <3>2 DEF Outstanding
    <3> QED BY <1>2, <3>1, <3>3
  <2> QED BY <1>4, <2>1, <2>2 DEF PlannerProceeds
<1>5. ASSUME NEW w \in Workers, ClaimDeploymentJob(w) PROVE CanaryParts'
  BY <1>0, <1>5, ClaimCanary
<1>6. ASSUME NEW w \in Workers, BuildBundle(w) \/ BuildFails(w) PROVE CanaryParts'
  <2>1. /\ UNCHANGED <<cert, jobs, accepted, tried>>
        /\ worker[w].pc = "read" /\ OnlyMoves(w) /\ KeepsClaim(w)
        /\ \/ worker'[w].pc = "install" /\ worker'[w].fp = cert
           \/ worker'[w].pc = "finish" /\ worker'[w].ok = FALSE
    BY <1>6, BuildEffect
  <2>2. Informed(w)' /\ Working(w) /\ Working(w)'
    BY <2>1 DEF Informed, Outdated, Working
  <2> QED BY <1>0, <2>1, <2>2, WorkCanary
<1>7. ASSUME NEW w \in Workers, InstallSucceeds(w) \/ InstallFails(w) PROVE CanaryParts'
  BY <1>0, <1>7, InstallCanary
<1>8. ASSUME NEW w \in Workers, RecordDeploymentOutcome(w) \/ RecordOutcomeFails(w) PROVE CanaryParts'
  <2>1. /\ UNCHANGED <<cert, jobs, accepted, tried>>
        /\ worker[w].pc = "record" /\ OnlyMoves(w) /\ KeepsClaim(w)
        /\ worker'[w].pc = "finish" /\ worker'[w].fp = worker[w].fp /\ worker'[w].ok = worker[w].ok
    BY <1>8, RecordEffect
  <2>2. PlaceOf(w)' = PlaceOf(w)
    BY <2>1 DEF PlaceOf, KeepsClaim
  <2>3. Informed(w)' /\ Working(w) /\ Working(w)'
    BY <1>0, <2>1, <2>2 DEF CanaryParts, Informed, Outdated, Working
  <2> QED BY <1>0, <2>1, <2>3, WorkCanary
<1>9. ASSUME NEW w \in Workers, CompleteDeploymentJob(w) PROVE CanaryParts'
  BY <1>0, <1>9, CompleteCanary
<1>10. ASSUME NEW w \in Workers, AnnounceEscalation(w) PROVE CanaryParts'
  <2>1. /\ UNCHANGED <<cert, jobs, accepted, tried>>
        /\ worker[w].pc = "announce" /\ OnlyMoves(w) /\ worker'[w] = IdleWorker
    BY <1>10, AnnounceEffect
  <2>2. \A v \in Workers : /\ Working(v)' <=> Working(v)
                           /\ Working(v) => worker'[v].job = worker[v].job
    BY <2>1 DEF OnlyMoves, Working, IdleWorker
  <2>3. \A v \in Workers : worker'[v] = worker[v] \/ Informed(v)'
    BY <2>1 DEF OnlyMoves, Informed, IdleWorker
  <2> QED BY <1>0, <2>1, <2>2, <2>3, CanaryKept DEF Outstanding
<1>11. ASSUME NEW j \in Jobs,
             \/ BecomeDue(j) \/ LeaseRunsOut(j) \/ LeaseLapses(j)
             \/ \E w \in Workers : ExtendDeploymentLease(w) /\ worker[w].job = j
      PROVE  CanaryParts'
  <2>1. /\ UNCHANGED <<cert, worker, accepted, tried>>
        /\ OtherRowsKept(j) /\ KeepsRow(j) /\ Outstanding(j) /\ jobs'[j].status = jobs[j].status
        /\ jobs'[j].failed = jobs[j].failed
    BY <1>11, TimedEffect
  <2> QED BY <1>2, <2>1 DEF OtherRowsKept, KeepsRow, Outstanding
<1>12. ASSUME NEW w \in Workers, ExtendDeploymentLease(w) PROVE CanaryParts'
  BY <1>11, <1>12, HolderFacts DEF ExtendDeploymentLease
<1>13. /\ \A j \in Jobs : ~CancelDeploymentJob(j)
       /\ \A w \in Workers : ~CompletionLost(w) /\ ~Crash(w)
       /\ \A p \in Places : ~SwitchPlace(p)
       /\ \A e \in Planners : ~RolloutCutShort(e) /\ ~WaveUnread(e)
  BY <1>1 DEF CancelDeploymentJob, CompletionLost, Crash, SwitchPlace, RolloutCutShort, WaveUnread
<1>14. CASE UNCHANGED vars
  BY <1>2, <1>14 DEF vars, Outstanding
<1> QED
  BY <1>3, <1>4, <1>5, <1>6, <1>7, <1>8, <1>9, <1>10, <1>11, <1>12, <1>13, <1>14
     DEF Next, WorkerProceeds

\* A certificate that every place refuses is tried at no more places than there
\* are workers before the canary rule of the claim query stops the rollout.
THEOREM CanaryStops == Spec => []CanaryBoundsTheDamage
<1>1. Init => Inv /\ Steady /\ CanaryInv
  BY InitInv, InitSteady, InitCanary
<1>2. Inv /\ Steady /\ CanaryInv /\ [Next]_vars => (Inv /\ Steady /\ CanaryInv)'
  BY StepInv, SteadyStep, CanaryStep
<1>3. CanaryInv => CanaryBoundsTheDamage
  <2> SUFFICES ASSUME CanaryParts, NobodyAccepts
               PROVE  Cardinality({p \in Places : tried[p]}) <= Cardinality(Workers)
    BY DEF CanaryInv, CanaryBoundsTheDamage, OnlyRefusals, NobodyAccepts
  <2> DEFINE T == {p \in Places : tried[p]}
  <2>1. T \subseteq Hit /\ IsFiniteSet(Hit) /\ Cardinality(Hit) <= Cardinality(Workers)
    BY DEF CanaryParts
  <2> HIDE DEF T
  <2>2. /\ IsFiniteSet(T) /\ Cardinality(T) <= Cardinality(Hit)
        /\ Cardinality(Hit) \in Nat /\ Cardinality(T) \in Nat /\ Cardinality(Workers) \in Nat
    BY <2>1, FS_Subset, FS_CardinalityType, DeploymentAssumption
  <2>3. Cardinality(T) <= Cardinality(Workers)
    BY <2>1, <2>2
  <2> QED BY <2>3 DEF T
<1> QED BY <1>1, <1>2, <1>3, PTL DEF Spec
=============================================================================
