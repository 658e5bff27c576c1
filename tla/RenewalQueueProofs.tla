------------------------- MODULE RenewalQueueProofs -------------------------
(***************************************************************************)
(* Theorems about RenewalQueue for every number of certificates, jobs,     *)
(* replicas and workers. First the claim discipline of the queue, then     *)
(* what the executor promises on top of it: one renewer per certificate,   *)
(* the crash guard, the roll-out of what was stored, one alert per job and *)
(* the bound on the overshoot of the rate limit.                           *)
(***************************************************************************)
EXTENDS RenewalQueue, FiniteSetTheorems, TLAPS

LEMMA UpType == \A n \in 0..AttemptsCap : Up(n) \in 0..AttemptsCap
BY ConstantsAssumption DEF Up, EscalateAfterAttempts

LEMMA DownType == \A n \in 0..AttemptsCap : Down(n) \subseteq 0..AttemptsCap
BY ConstantsAssumption DEF Down, EscalateAfterAttempts

LEMMA TwiceType == \A n \in 0..2 : Twice(n) \in 0..2
BY DEF Twice

LEMMA FreeRowType == FreeRow \in JobRow
BY ConstantsAssumption DEF FreeRow, JobRow, Statuses, EscalateAfterAttempts

LEMMA QueuedRowType == \A c \in Certs, f \in Nat : QueuedRow(c, f) \in JobRow
BY ConstantsAssumption DEF QueuedRow, JobRow, Statuses, EscalateAfterAttempts

LEMMA IdleWorkerType == IdleWorker \in WorkerState
BY ConstantsAssumption DEF IdleWorker, WorkerState, PCs, EscalateAfterAttempts

\* Rows of a table whose rows are all well-typed stay well-typed under the
\* writes that settle a job.
LEMMA SettleType ==
    ASSUME NEW row \in JobRow, NEW s \in Statuses, NEW e \in BOOLEAN
    PROVE  Settle(row, s, e) \in JobRow
BY DEF Settle, JobRow, Statuses

LEMMA FailToType ==
    ASSUME TypeOK, NEW w \in Workers, NEW esc \in BOOLEAN
    PROVE  FailTo(w, esc) \in WorkerState
<1>1. worker[w] \in WorkerState
  BY DEF TypeOK
<1> QED BY <1>1 DEF FailTo, WorkerState, PCs

LEMMA DecisionType ==
    ASSUME TypeOK, NEW w \in Workers
    PROVE  Decision(w) \in WorkerState
<1>0. worker[w] \in WorkerState
  BY DEF TypeOK
<1>1. ASSUME NEW pc \in PCs, NEW o \in {"PENDING", "SUCCEEDED", "CANCELLED"}
      PROVE  Goto(w, pc, o) \in WorkerState
  BY <1>0 DEF Goto, WorkerState
<1> QED BY <1>1 DEF Decision, PCs

LEMMA EscalateType == \A n : ShouldEscalate(n) \subseteq BOOLEAN
BY DEF ShouldEscalate

-----------------------------------------------------------------------------
(* Type correctness *)

\* A row names a certificate from the moment it is inserted.
RowsNamed == \A j \in Jobs : jobs[j].status = "FREE" <=> jobs[j].cert = NoOne

\* A goroutine that is not idle is at work on a row that was inserted.
HoldersNamed ==
    \A w \in Workers : /\ worker[w].pc = "idle" => worker[w].job = NoOne
                       /\ worker[w].pc # "idle" => /\ worker[w].job \in Jobs
                                                   /\ jobs[worker[w].job].status # "FREE"

\* TypeOK alone is not inductive: StoreCertificate and Rollout index fp and
\* rolledOut by the certificate of the row they hold.
TypeInv == TypeOK /\ RowsNamed /\ HoldersNamed

LEMMA InitTypeInv == Init => TypeInv
<1> SUFFICES ASSUME Init PROVE TypeInv
  OBVIOUS
<1>1. jobs \in [Jobs -> JobRow]
  <2>1. {FreeRow} \cup {QueuedRow(c, 0) : c \in {d \in Certs : Custody[d] = "ELSEWHERE"}}
          \subseteq JobRow
    BY QueuedRowType, FreeRowType
  <2> QED BY <2>1 DEF Init
<1>2. /\ worker \in [Workers -> WorkerState]
      /\ scan \in [Replicas -> ScanState]
  BY IdleWorkerType DEF Init, ScanState, NoScan
<1>3. TypeOK
  BY <1>1, <1>2 DEF Init, TypeOK
<1>4. RowsNamed
  BY ConstantsAssumption DEF Init, RowsNamed, FreeRow, QueuedRow
<1>5. HoldersNamed
  BY DEF Init, HoldersNamed, IdleWorker
<1> QED BY <1>3, <1>4, <1>5 DEF TypeInv

\* What a goroutine at work may index by.
LEMMA HolderTypes ==
    ASSUME TypeInv, NEW w \in Workers, worker[w].pc # "idle"
    PROVE  /\ worker[w].job \in Jobs
           /\ jobs[worker[w].job] \in JobRow
           /\ jobs[worker[w].job].cert \in Certs
           /\ jobs[worker[w].job].status # "FREE"
           /\ worker[w] \in WorkerState
           /\ worker[w].attempts \in 0..AttemptsCap
<1>1. worker[w].job \in Jobs /\ jobs[worker[w].job].status # "FREE"
  BY DEF TypeInv, HoldersNamed
<1>2. jobs[worker[w].job] \in JobRow /\ worker[w] \in WorkerState
  BY <1>1 DEF TypeInv, TypeOK
<1> QED BY <1>1, <1>2 DEF TypeInv, RowsNamed, JobRow, WorkerState

\* What a step may do to the rows and to the goroutines without disturbing
\* RowsNamed and HoldersNamed.
RowsKept == \A k \in Jobs : /\ jobs'[k].cert = jobs[k].cert
                            /\ jobs'[k].status = "FREE" <=> jobs[k].status = "FREE"
WorkersKept == \A v \in Workers :
    \/ /\ worker'[v].job = worker[v].job
       /\ worker'[v].pc = "idle" <=> worker[v].pc = "idle"
    \/ worker'[v].job = NoOne /\ worker'[v].pc = "idle"

\* A goroutine at work goes on with its job, or gives it up.
Moves(w, new) == /\ worker' = [worker EXCEPT ![w] = new]
                 /\ \/ new = IdleWorker
                    \/ new.job = worker[w].job /\ new.pc # "idle"

LEMMA KeepNames ==
    ASSUME TypeInv, RowsKept, WorkersKept PROVE RowsNamed' /\ HoldersNamed'
BY DEF TypeInv, RowsKept, WorkersKept, RowsNamed, HoldersNamed

LEMMA WorkerMove ==
    ASSUME TypeInv, NEW w \in Workers, worker[w].pc # "idle",
           NEW new \in WorkerState, Moves(w, new)
    PROVE  worker' \in [Workers -> WorkerState] /\ WorkersKept
BY DEF TypeInv, TypeOK, Moves, WorkersKept, IdleWorker

LEMMA RowUpdate ==
    ASSUME TypeInv, NEW j \in Jobs, NEW row \in JobRow,
           jobs' = [jobs EXCEPT ![j] = row], row.cert = jobs[j].cert,
           row.status = "FREE" <=> jobs[j].status = "FREE"
    PROVE  jobs' \in [Jobs -> JobRow] /\ RowsKept
BY DEF TypeInv, TypeOK, RowsKept

LEMMA RowsSame ==
    ASSUME TypeInv, jobs' = jobs PROVE jobs' \in [Jobs -> JobRow] /\ RowsKept
BY DEF TypeInv, TypeOK, RowsKept

LEMMA WorkersSame ==
    ASSUME TypeInv, worker' = worker
    PROVE  worker' \in [Workers -> WorkerState] /\ WorkersKept
BY DEF TypeInv, TypeOK, WorkersKept

LEMMA GotoType ==
    ASSUME TypeInv, NEW w \in Workers, NEW pc \in PCs \ {"idle"},
           NEW o \in {"PENDING", "SUCCEEDED", "CANCELLED"}
    PROVE  /\ Goto(w, pc, o) \in WorkerState
           /\ Goto(w, pc, o).job = worker[w].job
           /\ Goto(w, pc, o).pc # "idle"
<1>1. worker[w] \in WorkerState
  BY DEF TypeInv, TypeOK
<1> QED BY <1>1 DEF Goto, WorkerState, PCs

LEMMA FailToKeeps ==
    ASSUME TypeInv, NEW w \in Workers, NEW esc \in BOOLEAN
    PROVE  /\ FailTo(w, esc) \in WorkerState
           /\ FailTo(w, esc).job = worker[w].job
           /\ FailTo(w, esc).pc # "idle"
<1>1. worker[w] \in WorkerState
  BY DEF TypeInv, TypeOK
<1> QED BY <1>1 DEF FailTo, WorkerState, PCs

LEMMA DecisionKeeps ==
    ASSUME TypeInv, NEW w \in Workers
    PROVE  /\ Decision(w) \in WorkerState
           /\ Decision(w).job = worker[w].job
           /\ Decision(w).pc # "idle"
BY GotoType DEF Decision, PCs

\* Every action keeps every variable within its type.
LEMMA TypeStep == TypeInv /\ [Next]_vars => TypeInv'
<1> SUFFICES ASSUME TypeInv, [Next]_vars PROVE TypeInv'
  OBVIOUS
<1> USE UpType, DownType, TwiceType, IdleWorkerType, EscalateType
<1>1. ASSUME NEW r \in Replicas, NEW c \in Certs, ReadForEnqueue(r, c) PROVE TypeInv'
  <2>1. scan' \in [Replicas -> ScanState]
    BY <1>1 DEF ReadForEnqueue, ScanState, TypeInv, TypeOK
  <2> QED BY <1>1, <2>1, RowsSame, WorkersSame, KeepNames DEF ReadForEnqueue, TypeInv, TypeOK
<1>2. ASSUME NEW r \in Replicas, NEW j \in Jobs, EnqueueRenewal(r, j) PROVE TypeInv'
  <2>1. scan[r] \in ScanState /\ scan' \in [Replicas -> ScanState]
    BY <1>2 DEF EnqueueRenewal, ScanState, NoScan, TypeInv, TypeOK
  <2>2. CASE jobs' = jobs
    BY <1>2, <2>1, <2>2, RowsSame, WorkersSame, KeepNames DEF EnqueueRenewal, TypeInv, TypeOK
  <2>3. CASE jobs' = [jobs EXCEPT ![j] = QueuedRow(scan[r].cert, scan[r].fp)]
    <3> DEFINE row == QueuedRow(scan[r].cert, scan[r].fp)
    <3>1. /\ row \in JobRow /\ row.cert \in Certs /\ row.status = "PENDING"
      BY <1>2, <2>1, QueuedRowType DEF EnqueueRenewal, ScanState, QueuedRow
    <3>2. /\ jobs' \in [Jobs -> JobRow]
          /\ \A k \in Jobs : jobs'[k] = IF k = j THEN row ELSE jobs[k]
      BY <2>3, <3>1 DEF TypeInv, TypeOK
    <3>3. TypeOK'
      BY <1>2, <2>1, <3>2 DEF EnqueueRenewal, TypeInv, TypeOK
    <3>4. RowsNamed'
      BY <3>1, <3>2, ConstantsAssumption DEF RowsNamed, TypeInv
    <3>5. HoldersNamed'
      BY <1>2, <3>1, <3>2 DEF HoldersNamed, TypeInv, EnqueueRenewal
    <3> QED BY <3>3, <3>4, <3>5 DEF TypeInv
  <2> QED BY <1>2, <2>2, <2>3 DEF EnqueueRenewal
<1>3. ASSUME NEW r \in Replicas, Crash(r) PROVE TypeInv'
  <2>1. scan' \in [Replicas -> ScanState]
    BY <1>3 DEF Crash, ScanState, NoScan, TypeInv, TypeOK
  <2>2. worker' \in [Workers -> WorkerState] /\ WorkersKept
    BY <1>3 DEF Crash, WorkersKept, IdleWorker, TypeInv, TypeOK
  <2> QED BY <1>3, <2>1, <2>2, RowsSame, KeepNames DEF Crash, Upset, TypeInv, TypeOK
<1>4. ASSUME NEW w \in Workers, NEW j \in Jobs, ClaimRenewalJob(w, j) PROVE TypeInv'
  <2> DEFINE row == ClaimedRow(jobs[j], w)
             new == [IdleWorker EXCEPT !.pc = "check", !.job = j,
                                       !.attempts = Up(jobs[j].attempts),
                                       !.escalated = jobs[j].escalated,
                                       !.fp = jobs[j].fp]
  <2>1. jobs[j] \in JobRow /\ jobs[j].status \in {"PENDING", "RUNNING"}
    BY <1>4 DEF TypeInv, TypeOK, ClaimRenewalJob, Claimable
  <2>2. row \in JobRow /\ row.cert = jobs[j].cert /\ row.status = "RUNNING"
    BY <2>1, ConstantsAssumption DEF ClaimedRow, WorkerName, JobRow, Statuses
  <2>3. jobs' \in [Jobs -> JobRow] /\ RowsKept
    BY <1>4, <2>1, <2>2, RowUpdate DEF ClaimRenewalJob
  <2>4. new \in WorkerState /\ new.job = j /\ new.pc = "check"
    BY <2>1 DEF WorkerState, IdleWorker, PCs, JobRow
  <2>5. /\ worker' \in [Workers -> WorkerState]
        /\ \A v \in Workers : worker'[v] = IF v = w THEN new ELSE worker[v]
    BY <1>4, <2>4 DEF ClaimRenewalJob, TypeInv, TypeOK
  <2>6. TypeOK'
    BY <1>4, <2>3, <2>5 DEF ClaimRenewalJob, TypeInv, TypeOK
  <2> HIDE DEF row, new
  <2>7. RowsNamed'
    BY <2>3 DEF RowsKept, RowsNamed, TypeInv
  <2>8. HoldersNamed'
    BY <2>1, <2>3, <2>4, <2>5 DEF RowsKept, HoldersNamed, TypeInv
  <2> QED BY <2>6, <2>7, <2>8 DEF TypeInv
<1>5. ASSUME NEW w \in Workers, Check(w) PROVE TypeInv'
  <2> DEFINE me == worker[w]
             j  == worker[w].job
             c  == jobs[j].cert
  <2>0. /\ me.pc # "idle" /\ j \in Jobs /\ jobs[j] \in JobRow /\ c \in Certs
        /\ jobs[j].status # "FREE" /\ me \in WorkerState /\ me.attempts \in 0..AttemptsCap
    BY <1>5, HolderTypes DEF Check
  <2>1. \E new \in WorkerState : Moves(w, new)
    <3>1. /\ Goto(w, "finish", "CANCELLED") \in WorkerState
          /\ Moves(w, Goto(w, "finish", "CANCELLED"))
            \/ Moves(w, Goto(w, "read", "PENDING"))
            \/ Moves(w, Decision(w))
          /\ Goto(w, "read", "PENDING") \in WorkerState
          /\ Decision(w) \in WorkerState
      BY <1>5, GotoType, DecisionKeeps DEF Check, Moves, PCs
    <3> QED BY <3>1
  <2>2. worker' \in [Workers -> WorkerState] /\ WorkersKept
    BY <2>0, <2>1, WorkerMove
  <2>3. jobs' \in [Jobs -> JobRow] /\ RowsKept
    BY <1>5, RowsSame DEF Check
  <2>4. TypeOK'
    BY <1>5, <2>0, <2>2, <2>3 DEF Check, TypeInv, TypeOK, Upset
  <2> QED BY <2>2, <2>3, <2>4, KeepNames DEF TypeInv
<1>6. ASSUME NEW w \in Workers, ReadCertificate(w) PROVE TypeInv'
  <2> DEFINE me == worker[w]
             j  == worker[w].job
             c  == jobs[j].cert
  <2>0. /\ me.pc # "idle" /\ j \in Jobs /\ jobs[j] \in JobRow /\ c \in Certs
        /\ jobs[j].status # "FREE" /\ me \in WorkerState /\ me.attempts \in 0..AttemptsCap
    BY <1>6, HolderTypes DEF ReadCertificate
  <2>1. \E new \in WorkerState : Moves(w, new)
    <3>1. CASE \E esc \in ShouldEscalate(me.attempts) :
                  worker' = [worker EXCEPT ![w] = FailTo(w, esc)]
      <4>1. PICK esc \in BOOLEAN : worker' = [worker EXCEPT ![w] = FailTo(w, esc)]
        BY <3>1
      <4> QED BY <4>1, FailToKeeps DEF Moves
    <3>2. CASE worker' = [worker EXCEPT ![w] = [me EXCEPT !.pc = "call", !.copy = fp[c]]]
      <4>1. fp[c] \in Nat
        BY <2>0 DEF TypeInv, TypeOK
      <4>2. [me EXCEPT !.pc = "call", !.copy = fp[c]] \in WorkerState
        BY <2>0, <4>1 DEF WorkerState, PCs
      <4> QED BY <2>0, <3>2, <4>2 DEF Moves, WorkerState
    <3> QED BY <1>6, <3>1, <3>2 DEF ReadCertificate
  <2>2. worker' \in [Workers -> WorkerState] /\ WorkersKept
    BY <2>0, <2>1, WorkerMove
  <2>3. jobs' \in [Jobs -> JobRow] /\ RowsKept
    BY <1>6, RowsSame DEF ReadCertificate
  <2>4. TypeOK'
    BY <1>6, <2>0, <2>2, <2>3 DEF ReadCertificate, TypeInv, TypeOK
  <2> QED BY <2>2, <2>3, <2>4, KeepNames DEF TypeInv
<1>7. ASSUME NEW w \in Workers, CallAccepted(w) PROVE TypeInv'
  <2> DEFINE me == worker[w]
             j  == worker[w].job
             c  == jobs[j].cert
  <2>0. /\ me.pc # "idle" /\ j \in Jobs /\ jobs[j] \in JobRow /\ c \in Certs
        /\ jobs[j].status # "FREE" /\ me \in WorkerState /\ me.attempts \in 0..AttemptsCap
    BY <1>7, HolderTypes DEF CallAccepted
  <2>1. \E new \in WorkerState : Moves(w, new)
    <3>1. issued + 1 \in Nat
      BY DEF TypeInv, TypeOK
    <3>2. [me EXCEPT !.pc = "store", !.new = issued + 1] \in WorkerState
      BY <2>0, <3>1 DEF WorkerState, PCs
    <3> QED BY <1>7, <2>0, <3>2 DEF CallAccepted, Moves, WorkerState
  <2>2. worker' \in [Workers -> WorkerState] /\ WorkersKept
    BY <2>0, <2>1, WorkerMove
  <2>3. jobs' \in [Jobs -> JobRow] /\ RowsKept
    BY <1>7, RowsSame DEF CallAccepted
  <2>4. TypeOK'
    BY <1>7, <2>0, <2>2, <2>3 DEF CallAccepted, TypeInv, TypeOK
  <2> QED BY <2>2, <2>3, <2>4, KeepNames DEF TypeInv
<1>8. ASSUME NEW w \in Workers, CallFailed(w) PROVE TypeInv'
  <2> DEFINE me == worker[w]
             j  == worker[w].job
             c  == jobs[j].cert
  <2>0. /\ me.pc # "idle" /\ j \in Jobs /\ jobs[j] \in JobRow /\ c \in Certs
        /\ jobs[j].status # "FREE" /\ me \in WorkerState /\ me.attempts \in 0..AttemptsCap
    BY <1>8, HolderTypes DEF CallFailed
  <2>1. \E new \in WorkerState : Moves(w, new)
    <3>1. [me EXCEPT !.pc = "refused"] \in WorkerState
      BY <2>0 DEF WorkerState, PCs
    <3> QED BY <1>8, <2>0, <3>1 DEF CallFailed, Moves, WorkerState
  <2>2. worker' \in [Workers -> WorkerState] /\ WorkersKept
    BY <2>0, <2>1, WorkerMove
  <2>3. jobs' \in [Jobs -> JobRow] /\ RowsKept
    BY <1>8, RowsSame DEF CallFailed
  <2>4. TypeOK'
    BY <1>8, <2>0, <2>2, <2>3 DEF CallFailed, TypeInv, TypeOK, Upset
  <2> QED BY <2>2, <2>3, <2>4, KeepNames DEF TypeInv
<1>9. ASSUME NEW w \in Workers, RecordFailure(w) PROVE TypeInv'
  <2> DEFINE me == worker[w]
             j  == worker[w].job
             c  == jobs[j].cert
  <2>0. /\ me.pc # "idle" /\ j \in Jobs /\ jobs[j] \in JobRow /\ c \in Certs
        /\ jobs[j].status # "FREE" /\ me \in WorkerState /\ me.attempts \in 0..AttemptsCap
    BY <1>9, HolderTypes DEF RecordFailure
  <2>1. \E new \in WorkerState : Moves(w, new)
    <3>1. PICK esc \in BOOLEAN : worker' = [worker EXCEPT ![w] = FailTo(w, esc)]
      BY <1>9 DEF RecordFailure
    <3> QED BY <3>1, FailToKeeps DEF Moves
  <2>2. worker' \in [Workers -> WorkerState] /\ WorkersKept
    BY <2>0, <2>1, WorkerMove
  <2>3. jobs' \in [Jobs -> JobRow] /\ RowsKept
    BY <1>9, RowsSame DEF RecordFailure
  <2>4. TypeOK'
    <3>1. fp' \in [Certs -> Nat]
      BY <1>9, <2>0 DEF RecordFailure, WorkerState, TypeInv, TypeOK
    <3> QED BY <1>9, <2>2, <2>3, <3>1 DEF RecordFailure, Upset, TypeInv, TypeOK
  <2> QED BY <2>2, <2>3, <2>4, KeepNames DEF TypeInv
<1>10. ASSUME NEW w \in Workers, StoreCertificate(w) PROVE TypeInv'
  <2> DEFINE me == worker[w]
             j  == worker[w].job
             c  == jobs[j].cert
  <2>0. /\ me.pc # "idle" /\ j \in Jobs /\ jobs[j] \in JobRow /\ c \in Certs
        /\ jobs[j].status # "FREE" /\ me \in WorkerState /\ me.attempts \in 0..AttemptsCap
    BY <1>10, HolderTypes DEF StoreCertificate
  <2>1. \E new \in WorkerState : Moves(w, new)
    <3>1. [me EXCEPT !.pc = "rollout"] \in WorkerState
      BY <2>0 DEF WorkerState, PCs
    <3>2. Moves(w, [me EXCEPT !.pc = "rollout"]) \/ \E esc \in BOOLEAN : Moves(w, FailTo(w, esc))
      BY <1>10, <2>0, FailToKeeps DEF StoreCertificate, Moves, WorkerState
    <3> QED BY <3>1, <3>2, FailToKeeps
  <2>2. worker' \in [Workers -> WorkerState] /\ WorkersKept
    BY <2>0, <2>1, WorkerMove
  <2>3. jobs' \in [Jobs -> JobRow] /\ RowsKept
    BY <1>10, RowsSame DEF StoreCertificate
  <2>4. TypeOK'
    <3>1. fp' \in [Certs -> Nat] /\ stored' \in [Jobs -> 0..2]
      BY <1>10, <2>0 DEF StoreCertificate, WorkerState, TypeInv, TypeOK
    <3> QED BY <1>10, <2>2, <2>3, <3>1 DEF StoreCertificate, Upset, TypeInv, TypeOK
  <2> QED BY <2>2, <2>3, <2>4, KeepNames DEF TypeInv
<1>11. ASSUME NEW w \in Workers, Rollout(w) PROVE TypeInv'
  <2> DEFINE me == worker[w]
             j  == worker[w].job
             c  == jobs[j].cert
  <2>0. /\ me.pc # "idle" /\ j \in Jobs /\ jobs[j] \in JobRow /\ c \in Certs
        /\ jobs[j].status # "FREE" /\ me \in WorkerState /\ me.attempts \in 0..AttemptsCap
    BY <1>11, HolderTypes DEF Rollout
  <2>1. \E new \in WorkerState : Moves(w, new)
    BY <1>11, GotoType DEF Rollout, Moves, PCs
  <2>2. worker' \in [Workers -> WorkerState] /\ WorkersKept
    BY <2>0, <2>1, WorkerMove
  <2>3. jobs' \in [Jobs -> JobRow] /\ RowsKept
    BY <1>11, RowsSame DEF Rollout
  <2>4. TypeOK'
    <3>1. rolledOut' \in [Certs -> Nat]
      BY <1>11, <2>0 DEF Rollout, WorkerState, TypeInv, TypeOK
    <3> QED BY <1>11, <2>2, <2>3, <3>1 DEF Rollout, Upset, TypeInv, TypeOK
  <2> QED BY <2>2, <2>3, <2>4, KeepNames DEF TypeInv
<1>12. ASSUME NEW w \in Workers, CompleteRenewalJob(w) PROVE TypeInv'
  <2> DEFINE me == worker[w]
             j  == worker[w].job
             c  == jobs[j].cert
  <2>0. /\ me.pc # "idle" /\ j \in Jobs /\ jobs[j] \in JobRow /\ c \in Certs
        /\ jobs[j].status # "FREE" /\ me \in WorkerState /\ me.attempts \in 0..AttemptsCap
    BY <1>12, HolderTypes DEF CompleteRenewalJob
  <2>1. \E new \in WorkerState : Moves(w, new)
    <3>1. [me EXCEPT !.pc = "announce"] \in WorkerState
      BY <2>0 DEF WorkerState, PCs
    <3> QED BY <1>12, <2>0, <3>1 DEF CompleteRenewalJob, AfterFinish, Moves, WorkerState
  <2>2. worker' \in [Workers -> WorkerState] /\ WorkersKept
    BY <2>0, <2>1, WorkerMove
  <2>3. jobs' \in [Jobs -> JobRow] /\ RowsKept
    <3> DEFINE row == Settle(jobs[j], me.outcome, me.escalate)
    <3>0. /\ me.outcome \in {"PENDING", "SUCCEEDED", "CANCELLED"}
          /\ me.escalate \in BOOLEAN
      BY <2>0 DEF WorkerState
    <3>1. row \in JobRow /\ row.cert = jobs[j].cert /\ row.status # "FREE"
      <4>1. row \in JobRow
        BY <2>0, <3>0, SettleType DEF Statuses
      <4> QED BY <2>0, <3>0, <4>1 DEF Settle, JobRow
    <3>2. CASE jobs' = jobs
      BY <3>2, RowsSame
    <3>3. CASE jobs' = [jobs EXCEPT ![j] = row]
      BY <2>0, <3>1, <3>3, RowUpdate
    <3> QED BY <1>12, <3>2, <3>3 DEF CompleteRenewalJob
  <2>4. TypeOK'
    <3>1. window' \subseteq Jobs
      BY <1>12, <2>0 DEF CompleteRenewalJob, TypeInv, TypeOK
    <3> QED BY <1>12, <2>2, <2>3, <3>1 DEF CompleteRenewalJob, Upset, TypeInv, TypeOK
  <2> QED BY <2>2, <2>3, <2>4, KeepNames DEF TypeInv
<1>13. ASSUME NEW w \in Workers, DeferRenewalJob(w) PROVE TypeInv'
  <2> DEFINE me == worker[w]
             j  == worker[w].job
             c  == jobs[j].cert
  <2>0. /\ me.pc # "idle" /\ j \in Jobs /\ jobs[j] \in JobRow /\ c \in Certs
        /\ jobs[j].status # "FREE" /\ me \in WorkerState /\ me.attempts \in 0..AttemptsCap
    BY <1>13, HolderTypes DEF DeferRenewalJob
  <2>1. \E new \in WorkerState : Moves(w, new)
    <3>1. [me EXCEPT !.pc = "announce"] \in WorkerState
      BY <2>0 DEF WorkerState, PCs
    <3> QED BY <1>13, <2>0, <3>1 DEF DeferRenewalJob, Moves, WorkerState
  <2>2. worker' \in [Workers -> WorkerState] /\ WorkersKept
    BY <2>0, <2>1, WorkerMove
  <2>3. jobs' \in [Jobs -> JobRow] /\ RowsKept
    <3>1. CASE jobs' = jobs
      BY <3>1, RowsSame
    <3>2. ASSUME NEW e \in BOOLEAN, NEW n \in Down(jobs[j].attempts),
                 jobs' = [jobs EXCEPT ![j] =
                            [Settle(jobs[j], "PENDING", e) EXCEPT !.attempts = n]]
          PROVE  jobs' \in [Jobs -> JobRow] /\ RowsKept
      <4> DEFINE row == [Settle(jobs[j], "PENDING", e) EXCEPT !.attempts = n]
      <4>1. n \in 0..AttemptsCap
        BY <2>0, <3>2 DEF JobRow
      <4>2. row \in JobRow /\ row.cert = jobs[j].cert /\ row.status = "PENDING"
        BY <2>0, <4>1 DEF Settle, JobRow, Statuses
      <4> QED BY <2>0, <3>2, <4>2, RowUpdate
    <3> QED BY <1>13, <3>1, <3>2 DEF DeferRenewalJob
  <2>4. TypeOK'
    BY <1>13, <2>2, <2>3 DEF DeferRenewalJob, Upset, TypeInv, TypeOK
  <2> QED BY <2>2, <2>3, <2>4, KeepNames DEF TypeInv
<1>14. ASSUME NEW w \in Workers, Announce(w) PROVE TypeInv'
  <2> DEFINE me == worker[w]
             j  == worker[w].job
             c  == jobs[j].cert
  <2>0. /\ me.pc # "idle" /\ j \in Jobs /\ jobs[j] \in JobRow /\ c \in Certs
        /\ jobs[j].status # "FREE" /\ me \in WorkerState /\ me.attempts \in 0..AttemptsCap
    BY <1>14, HolderTypes DEF Announce
  <2>1. \E new \in WorkerState : Moves(w, new)
    BY <1>14 DEF Announce, Moves
  <2>2. worker' \in [Workers -> WorkerState] /\ WorkersKept
    BY <2>0, <2>1, WorkerMove
  <2>3. jobs' \in [Jobs -> JobRow] /\ RowsKept
    BY <1>14, RowsSame DEF Announce
  <2>4. TypeOK'
    BY <1>14, <2>0, <2>2, <2>3 DEF Announce, TypeInv, TypeOK
  <2> QED BY <2>2, <2>3, <2>4, KeepNames DEF TypeInv
<1>15. ASSUME NEW w \in Workers, ExtendRenewalLease(w) PROVE TypeInv'
  <2> DEFINE j == worker[w].job
  <2>1. j \in Jobs /\ jobs[j] \in JobRow /\ jobs[j].status # "FREE"
    BY <1>15, HolderTypes DEF ExtendRenewalLease
  <2>2. [jobs[j] EXCEPT !.lapsed = FALSE] \in JobRow /\ [jobs[j] EXCEPT !.lapsed = FALSE].cert = jobs[j].cert /\ [jobs[j] EXCEPT !.lapsed = FALSE].status # "FREE"
    BY <2>1 DEF JobRow, Statuses
  <2>3. jobs' \in [Jobs -> JobRow] /\ RowsKept
    BY <1>15, <2>1, <2>2, RowUpdate DEF ExtendRenewalLease
  <2> QED BY <1>15, <2>3, WorkersSame, KeepNames DEF ExtendRenewalLease, Upset, TypeInv, TypeOK
<1>16. ASSUME NEW j \in Jobs, BecomeDue(j) PROVE TypeInv'
  <2>1. j \in Jobs /\ jobs[j] \in JobRow /\ jobs[j].status # "FREE"
    BY <1>16 DEF BecomeDue, TypeInv, TypeOK
  <2>2. [jobs[j] EXCEPT !.due = TRUE] \in JobRow /\ [jobs[j] EXCEPT !.due = TRUE].cert = jobs[j].cert /\ [jobs[j] EXCEPT !.due = TRUE].status # "FREE"
    BY <2>1 DEF JobRow, Statuses
  <2>3. jobs' \in [Jobs -> JobRow] /\ RowsKept
    BY <1>16, <2>1, <2>2, RowUpdate DEF BecomeDue
  <2> QED BY <1>16, <2>3, WorkersSame, KeepNames DEF BecomeDue, Upset, TypeInv, TypeOK
<1>17. ASSUME NEW j \in Jobs, LeaseLapses(j) PROVE TypeInv'
  <2>1. j \in Jobs /\ jobs[j] \in JobRow /\ jobs[j].status # "FREE"
    BY <1>17 DEF LeaseLapses, TypeInv, TypeOK
  <2>2. [jobs[j] EXCEPT !.lapsed = TRUE] \in JobRow /\ [jobs[j] EXCEPT !.lapsed = TRUE].cert = jobs[j].cert /\ [jobs[j] EXCEPT !.lapsed = TRUE].status # "FREE"
    BY <2>1 DEF JobRow, Statuses
  <2>3. jobs' \in [Jobs -> JobRow] /\ RowsKept
    BY <1>17, <2>1, <2>2, RowUpdate DEF LeaseLapses
  <2> QED BY <1>17, <2>3, WorkersSame, KeepNames DEF LeaseLapses, Upset, TypeInv, TypeOK
<1>18. ASSUME NEW j \in Jobs, CancelRenewalJob(j) PROVE TypeInv'
  <2> DEFINE row == [jobs[j] EXCEPT !.status = "CANCELLED", !.lockedBy = NoOne, !.lapsed = FALSE]
  <2>1. j \in Jobs /\ jobs[j] \in JobRow /\ jobs[j].status # "FREE"
    BY <1>18 DEF CancelRenewalJob, Outstanding, TypeInv, TypeOK
  <2>2. row \in JobRow /\ row.cert = jobs[j].cert /\ row.status # "FREE"
    BY <2>1 DEF JobRow, Statuses
  <2>3. jobs' \in [Jobs -> JobRow] /\ RowsKept
    BY <1>18, <2>1, <2>2, RowUpdate DEF CancelRenewalJob
  <2> QED BY <1>18, <2>3, WorkersSame, KeepNames DEF CancelRenewalJob, Upset, TypeInv, TypeOK
<1>19. ASSUME NEW j \in Jobs, AgeOut(j) PROVE TypeInv'
  BY <1>19, RowsSame, WorkersSame, KeepNames DEF AgeOut, TypeInv, TypeOK
<1>20. ASSUME NEW d \in Certs, DeleteCertificate(d) PROVE TypeInv'
  <2> DEFINE gone(k) == [jobs[k] EXCEPT !.status = "DELETED", !.lockedBy = NoOne,
                                        !.lapsed = FALSE]
  <2>1. \A k \in Jobs : /\ jobs[k] \in JobRow
                        /\ jobs[k].cert = d => jobs[k].status # "FREE"
    BY ConstantsAssumption DEF TypeInv, TypeOK, RowsNamed
  <2>2. \A k \in Jobs : /\ gone(k) \in JobRow
                        /\ gone(k).cert = jobs[k].cert
                        /\ gone(k).status = "DELETED"
    BY <2>1 DEF JobRow, Statuses
  <2>3. jobs' = [k \in Jobs |-> IF jobs[k].cert = d THEN gone(k) ELSE jobs[k]]
    BY <1>20 DEF DeleteCertificate
  <2>4. jobs' \in [Jobs -> JobRow]
    BY <2>1, <2>2, <2>3
  <2>5. RowsKept
    BY <2>1, <2>2, <2>3 DEF RowsKept
  <2>6. /\ window' \subseteq Jobs /\ exists' \in [Certs -> BOOLEAN]
        /\ upsets' \in [count : Nat, met : SUBSET Upsets]
    <3>1. /\ window \subseteq Jobs /\ exists \in [Certs -> BOOLEAN]
          /\ upsets \in [count : Nat, met : SUBSET Upsets]
      BY DEF TypeInv, TypeOK
    <3>2. /\ window' = {k \in window : jobs[k].cert # d}
          /\ exists' = [exists EXCEPT ![d] = FALSE]
          /\ Upset("delete")
      BY <1>20 DEF DeleteCertificate
    <3> QED BY <3>1, <3>2 DEF Upset
  <2>7. TypeOK'
    BY <1>20, <2>4, <2>6 DEF DeleteCertificate, TypeInv, TypeOK
  <2> QED BY <1>20, <2>5, <2>7, WorkersSame, KeepNames DEF DeleteCertificate, TypeInv
<1>21. ASSUME UNCHANGED vars PROVE TypeInv'
  BY <1>21, RowsSame, WorkersSame, KeepNames DEF vars, TypeInv, TypeOK
<1> QED
  BY <1>1, <1>2, <1>3, <1>4, <1>5, <1>6, <1>7, <1>8, <1>9, <1>10, <1>11, <1>12, <1>13,
     <1>14, <1>15, <1>16, <1>17, <1>18, <1>19, <1>20, <1>21
     DEF Next, WorkerStep

\* The rows, the goroutines and the counters keep their types in every reachable
\* state, whatever the failures and the interleaving.
THEOREM TypeCorrect == Spec => []TypeOK
<1>1. Spec => []TypeInv
  BY InitTypeInv, TypeStep, PTL DEF Spec
<1>2. TypeInv => TypeOK
  BY DEF TypeInv
<1> QED BY <1>1, <1>2, PTL

-----------------------------------------------------------------------------
(* Lock discipline and exclusivity *)

Working(w) == worker[w].pc \notin {"idle", "announce"}

\* With heartbeats on time, the row of a goroutine at work is RUNNING under a
\* lease that has not lapsed, unless it was cancelled or deleted under it; either
\* way nobody can claim it, so no other goroutine is at work on it.
HolderInv ==
    Reliable => \A w \in Workers : Working(w) =>
        /\ jobs[worker[w].job].status \in {"RUNNING", "CANCELLED", "DELETED"}
        /\ jobs[worker[w].job].status = "RUNNING" => ~jobs[worker[w].job].lapsed
        /\ \A v \in Workers : Working(v) /\ worker[v].job = worker[w].job => v = w

LockInv == LockFollowsStatus /\ OneOutstandingPerCertificate

\* No goroutine takes up another job.
NoNewWork == \A v \in Workers : Working(v)' => Working(v) /\ worker'[v].job = worker[v].job

LEMMA InitSafe == Init => LockInv /\ HolderInv
<1> SUFFICES ASSUME Init PROVE LockInv /\ HolderInv
  OBVIOUS
<1>1. ASSUME NEW j \in Jobs
      PROVE  /\ jobs[j].status \in {"FREE", "PENDING"}
             /\ jobs[j].lockedBy = NoOne /\ jobs[j].lapsed = FALSE
  <2>1. jobs[j] = FreeRow \/ \E c \in Certs : jobs[j] = QueuedRow(c, 0)
    BY DEF Init
  <2>2. CASE jobs[j] = FreeRow
    BY <2>2 DEF FreeRow
  <2>3. ASSUME NEW c \in Certs, jobs[j] = QueuedRow(c, 0)
        PROVE  /\ jobs[j].status = "PENDING"
               /\ jobs[j].lockedBy = NoOne /\ jobs[j].lapsed = FALSE
    BY <2>3 DEF QueuedRow
  <2> QED BY <2>1, <2>2, <2>3
<1>2. LockFollowsStatus
  BY <1>1 DEF LockFollowsStatus
<1>3. OneOutstandingPerCertificate
  <2>1. \A j, k \in Jobs : j # k /\ jobs[j].cert = jobs[k].cert => jobs[j].cert = NoOne
    BY DEF Init
  <2>2. \A j \in Jobs : Outstanding(j) => jobs[j].cert # NoOne
    BY InitTypeInv DEF Outstanding, TypeInv, RowsNamed
  <2> QED BY <2>1, <2>2 DEF OneOutstandingPerCertificate
<1>4. HolderInv
  BY DEF Init, HolderInv, Working, IdleWorker
<1> QED BY <1>2, <1>3, <1>4 DEF LockInv

\* A step meets one upset at most.
LEMMA UpsetsStep ==
    ASSUME [Next]_vars PROVE upsets' = upsets \/ \E class \in Upsets : Upset(class)
<1>1. ASSUME NEW r \in Replicas,
             Crash(r) \/ (\E c \in Certs : ReadForEnqueue(r, c))
                      \/ (\E j \in Jobs : EnqueueRenewal(r, j))
      PROVE  upsets' = upsets \/ \E class \in Upsets : Upset(class)
  BY <1>1 DEF Crash, ReadForEnqueue, EnqueueRenewal, Upset
<1>2. ASSUME NEW w \in Workers, WorkerStep(w) \/ ExtendRenewalLease(w)
      PROVE  upsets' = upsets \/ \E class \in Upsets : Upset(class)
  <2>1. CASE \/ (\E j \in Jobs : ClaimRenewalJob(w, j)) \/ ReadCertificate(w)
             \/ CallAccepted(w) \/ Announce(w) \/ ExtendRenewalLease(w)
    BY <2>1 DEF ClaimRenewalJob, ReadCertificate, CallAccepted, Announce, ExtendRenewalLease
  <2>2. CASE RecordFailure(w) \/ Check(w) \/ CallFailed(w) \/ StoreCertificate(w) \/ Rollout(w)
    BY <2>2 DEF RecordFailure, Check, CallFailed, StoreCertificate, Rollout, Upset
  <2>3. CASE CompleteRenewalJob(w) \/ DeferRenewalJob(w)
    BY <2>3 DEF CompleteRenewalJob, DeferRenewalJob, Upset
  <2> QED BY <1>2, <2>1, <2>2, <2>3 DEF WorkerStep
<1>3. ASSUME NEW j \in Jobs,
             BecomeDue(j) \/ LeaseLapses(j) \/ AgeOut(j) \/ CancelRenewalJob(j)
      PROVE  upsets' = upsets \/ \E class \in Upsets : Upset(class)
  BY <1>3 DEF BecomeDue, LeaseLapses, AgeOut, CancelRenewalJob, Upset
<1>4. ASSUME NEW d \in Certs, DeleteCertificate(d)
      PROVE  upsets' = upsets \/ \E class \in Upsets : Upset(class)
  BY <1>4 DEF DeleteCertificate, Upset
<1>5. CASE UNCHANGED vars
  BY <1>5 DEF vars
<1> QED BY <1>1, <1>2, <1>3, <1>4, <1>5 DEF Next

\* An upset once met stays met.
LEMMA WithoutBefore == ASSUME [Next]_vars, NEW S PROVE Without(S)' => Without(S)
BY UpsetsStep DEF Without, Upset

LEMMA ReliableBefore == ASSUME [Next]_vars PROVE Reliable' => Reliable
BY WithoutBefore DEF Reliable, Without

\* Steps that write no row.
LEMMA QuietStep ==
    ASSUME LockInv, HolderInv, jobs' = jobs, NoNewWork, Reliable' => Reliable
    PROVE  LockInv' /\ HolderInv'
<1>1. LockInv'
  BY DEF LockInv, LockFollowsStatus, OneOutstandingPerCertificate, Outstanding
<1>2. HolderInv'
  BY DEF HolderInv, NoNewWork
<1> QED BY <1>1, <1>2

\* Steps that write one row.
RowWritten(j, row) ==
    /\ row \in JobRow
    /\ jobs' = [jobs EXCEPT ![j] = row]
    /\ row.status = "RUNNING" <=> row.lockedBy # NoOne
    /\ row.lapsed => row.status = "RUNNING"
    /\ row.status \in {"PENDING", "RUNNING"} =>
          \A k \in Jobs \ {j} : ~(Outstanding(k) /\ jobs[k].cert = row.cert)

LEMMA RowWrite ==
    ASSUME TypeInv, LockInv, NEW j \in Jobs, NEW row, RowWritten(j, row)
    PROVE  LockInv' /\ \A k \in Jobs : jobs'[k] = IF k = j THEN row ELSE jobs[k]
<1>1. \A k \in Jobs : jobs'[k] = IF k = j THEN row ELSE jobs[k]
  BY DEF RowWritten, TypeInv, TypeOK
<1>2. LockFollowsStatus'
  BY <1>1 DEF RowWritten, LockInv, LockFollowsStatus
<1>3. OneOutstandingPerCertificate'
  BY <1>1 DEF RowWritten, LockInv, OneOutstandingPerCertificate, Outstanding
<1> QED BY <1>1, <1>2, <1>3 DEF LockInv

\* A row rewritten in place, outstanding before and after, of one certificate.
LEMMA InPlace ==
    ASSUME LockInv, NEW j \in Jobs, Outstanding(j), NEW row, row.cert = jobs[j].cert
    PROVE  \A k \in Jobs \ {j} : ~(Outstanding(k) /\ jobs[k].cert = row.cert)
BY DEF LockInv, OneOutstandingPerCertificate

\* Every action keeps the lock discipline and the exclusivity of the holders.
LEMMA SafeStep == TypeInv /\ LockInv /\ HolderInv /\ [Next]_vars => LockInv' /\ HolderInv'
<1> SUFFICES ASSUME TypeInv, LockInv, HolderInv, [Next]_vars
             PROVE  LockInv' /\ HolderInv'
  OBVIOUS
<1> Reliable' => Reliable
  BY ReliableBefore
<1>1. ASSUME NEW r \in Replicas, NEW c \in Certs, ReadForEnqueue(r, c)
      PROVE  LockInv' /\ HolderInv'
  BY <1>1, QuietStep DEF ReadForEnqueue, NoNewWork, Working
<1>2. ASSUME NEW r \in Replicas, NEW j \in Jobs, EnqueueRenewal(r, j)
      PROVE  LockInv' /\ HolderInv'
  <2>1. CASE jobs' = jobs
    BY <1>2, <2>1, QuietStep DEF EnqueueRenewal, NoNewWork, Working
  <2>2. CASE /\ jobs' = [jobs EXCEPT ![j] = QueuedRow(scan[r].cert, scan[r].fp)]
             /\ IndexAllows(j, scan[r].cert)
    <3> DEFINE row == QueuedRow(scan[r].cert, scan[r].fp)
    <3>1. scan[r].cert \in Certs /\ scan[r].fp \in Nat
      BY <1>2 DEF EnqueueRenewal, TypeInv, TypeOK, ScanState
    <3>2. RowWritten(j, row)
      BY <2>2, <3>1, QueuedRowType DEF RowWritten, QueuedRow, IndexAllows
    <3>3. HolderInv'
      BY <1>2, <3>2, RowWrite DEF EnqueueRenewal, HolderInv, HoldersNamed, TypeInv,
         Working
    <3> QED BY <3>2, <3>3, RowWrite
  <2> QED BY <1>2, <2>1, <2>2 DEF EnqueueRenewal
<1>3. ASSUME NEW r \in Replicas, Crash(r) PROVE LockInv' /\ HolderInv'
  BY <1>3, QuietStep DEF Crash, NoNewWork, Working, IdleWorker
<1>4. ASSUME NEW w \in Workers, NEW j \in Jobs, ClaimRenewalJob(w, j)
      PROVE  LockInv' /\ HolderInv'
  <2> DEFINE row == ClaimedRow(jobs[j], w)
             new == [IdleWorker EXCEPT !.pc = "check", !.job = j,
                                       !.attempts = Up(jobs[j].attempts),
                                       !.escalated = jobs[j].escalated,
                                       !.fp = jobs[j].fp]
  <2>1. /\ jobs[j] \in JobRow /\ Outstanding(j)
        /\ jobs[j].status = "RUNNING" => jobs[j].lapsed
    BY <1>4 DEF TypeInv, TypeOK, ClaimRenewalJob, Claimable, Outstanding
  <2>2. /\ row \in JobRow /\ row.cert = jobs[j].cert /\ row.status = "RUNNING"
        /\ row.lockedBy # NoOne /\ row.lapsed = FALSE
    <3>1. Up(jobs[j].attempts) \in 0..AttemptsCap /\ ReplicaOf[w] \in Replicas
      BY <2>1, UpType, ConstantsAssumption DEF JobRow
    <3>2. row \in JobRow
      BY <2>1, <3>1 DEF ClaimedRow, WorkerName, JobRow, Statuses
    <3> QED BY <2>1, <3>1, <3>2, ConstantsAssumption DEF ClaimedRow, WorkerName, JobRow
  <2>3. RowWritten(j, row)
    BY <1>4, <2>1, <2>2, InPlace DEF RowWritten, ClaimRenewalJob
  <2>4. new.job = j /\ new.pc = "check"
    BY DEF IdleWorker
  <2>5. \A v \in Workers : worker'[v] = IF v = w THEN new ELSE worker[v]
    BY <1>4 DEF ClaimRenewalJob, TypeInv, TypeOK
  <2>6. LockInv' /\ \A k \in Jobs : jobs'[k] = IF k = j THEN row ELSE jobs[k]
    BY <2>3, RowWrite
  <2> HIDE DEF row, new
  \* Nobody was at work on j: its row would be RUNNING under a live lease.
  <2>7. ASSUME Reliable, NEW v \in Workers, Working(v) PROVE worker[v].job # j
    BY <2>1, <2>7 DEF HolderInv, Outstanding
  <2>8. ASSUME NEW v \in Workers, Working(v)' PROVE v = w \/ Working(v)
    BY <2>5, <2>8 DEF Working
  <2>9. ASSUME NEW v \in Workers, Working(v) PROVE worker[v].job \in Jobs
    BY <2>9 DEF Working, HoldersNamed, TypeInv
  <2>10. HolderInv'
    <3> SUFFICES ASSUME Reliable, NEW v \in Workers, Working(v)'
                 PROVE  /\ jobs'[worker'[v].job].status \in {"RUNNING", "CANCELLED", "DELETED"}
                        /\ jobs'[worker'[v].job].status = "RUNNING"
                              => ~jobs'[worker'[v].job].lapsed
                        /\ \A u \in Workers : Working(u)' /\ worker'[u].job = worker'[v].job
                              => u = v
      BY DEF HolderInv
    <3>1. CASE v = w
      BY <2>2, <2>4, <2>5, <2>6, <2>7, <2>8, <3>1
    <3>2. CASE v # w
      <4>1. Working(v) /\ worker'[v] = worker[v] /\ worker[v].job # j /\ worker[v].job \in Jobs
        BY <2>5, <2>7, <2>8, <2>9, <3>2
      <4>2. jobs'[worker[v].job] = jobs[worker[v].job]
        BY <2>6, <4>1
      <4> QED BY <2>4, <2>5, <2>8, <4>1, <4>2 DEF HolderInv
    <3> QED BY <3>1, <3>2
  <2> QED BY <2>6, <2>10
<1>5. ASSUME NEW w \in Workers, Check(w) PROVE LockInv' /\ HolderInv'
  <2>1. worker[w].pc \notin {"idle", "announce"}
    BY <1>5 DEF Check
  <2>2. \A v \in Workers \ {w} : worker'[v] = worker[v]
    BY <1>5 DEF Check, TypeInv, TypeOK
  <2>3. worker'[w].job = worker[w].job
    BY <1>5, GotoType, DecisionKeeps DEF Check, PCs, TypeInv, TypeOK
  <2> QED BY <1>5, <2>1, <2>2, <2>3, QuietStep DEF Check, NoNewWork, Working
<1>6. ASSUME NEW w \in Workers, ReadCertificate(w) PROVE LockInv' /\ HolderInv'
  <2>1. worker[w].pc \notin {"idle", "announce"}
    BY <1>6 DEF ReadCertificate
  <2>2. \A v \in Workers \ {w} : worker'[v] = worker[v]
    BY <1>6 DEF ReadCertificate, TypeInv, TypeOK
  <2>3. worker'[w].job = worker[w].job
    <3>1. CASE worker' = [worker EXCEPT ![w] = [worker[w] EXCEPT !.pc = "call",
                                               !.copy = fp[jobs[worker[w].job].cert]]]
      BY <3>1 DEF TypeInv, TypeOK, WorkerState
    <3>2. CASE \E esc \in ShouldEscalate(worker[w].attempts) :
                  worker' = [worker EXCEPT ![w] = FailTo(w, esc)]
      <4>1. PICK esc \in BOOLEAN : worker' = [worker EXCEPT ![w] = FailTo(w, esc)]
        BY <3>2, EscalateType
      <4> QED BY <4>1, FailToKeeps DEF TypeInv, TypeOK
    <3> QED BY <1>6, <3>1, <3>2 DEF ReadCertificate
  <2> QED BY <1>6, <2>1, <2>2, <2>3, QuietStep DEF ReadCertificate, NoNewWork, Working
<1>7. ASSUME NEW w \in Workers, CallAccepted(w) PROVE LockInv' /\ HolderInv'
  <2>1. worker[w].pc \notin {"idle", "announce"}
    BY <1>7 DEF CallAccepted
  <2>2. \A v \in Workers \ {w} : worker'[v] = worker[v]
    BY <1>7 DEF CallAccepted, TypeInv, TypeOK
  <2>3. worker'[w].job = worker[w].job
    BY <1>7 DEF CallAccepted, TypeInv, TypeOK, WorkerState
  <2> QED BY <1>7, <2>1, <2>2, <2>3, QuietStep DEF CallAccepted, NoNewWork, Working
<1>8. ASSUME NEW w \in Workers, CallFailed(w) PROVE LockInv' /\ HolderInv'
  <2>1. worker[w].pc \notin {"idle", "announce"}
    BY <1>8 DEF CallFailed
  <2>2. \A v \in Workers \ {w} : worker'[v] = worker[v]
    BY <1>8 DEF CallFailed, TypeInv, TypeOK
  <2>3. worker'[w].job = worker[w].job
    BY <1>8 DEF CallFailed, TypeInv, TypeOK, WorkerState
  <2> QED BY <1>8, <2>1, <2>2, <2>3, QuietStep DEF CallFailed, NoNewWork, Working
<1>9. ASSUME NEW w \in Workers, RecordFailure(w) PROVE LockInv' /\ HolderInv'
  <2>1. worker[w].pc \notin {"idle", "announce"}
    BY <1>9 DEF RecordFailure
  <2>2. \A v \in Workers \ {w} : worker'[v] = worker[v]
    BY <1>9 DEF RecordFailure, TypeInv, TypeOK
  <2>3. worker'[w].job = worker[w].job
    BY <1>9 DEF RecordFailure, TypeInv, TypeOK, WorkerState, FailTo
  <2> QED BY <1>9, <2>1, <2>2, <2>3, QuietStep DEF RecordFailure, NoNewWork, Working
<1>10. ASSUME NEW w \in Workers, StoreCertificate(w) PROVE LockInv' /\ HolderInv'
  <2>1. worker[w].pc \notin {"idle", "announce"}
    BY <1>10 DEF StoreCertificate
  <2>2. \A v \in Workers \ {w} : worker'[v] = worker[v]
    BY <1>10 DEF StoreCertificate, TypeInv, TypeOK
  <2>3. worker'[w].job = worker[w].job
    <3>1. CASE worker' = [worker EXCEPT ![w] = [worker[w] EXCEPT !.pc = "rollout"]]
      BY <3>1 DEF TypeInv, TypeOK, WorkerState
    <3>2. CASE \E esc \in ShouldEscalate(worker[w].attempts) :
                  worker' = [worker EXCEPT ![w] = FailTo(w, esc)]
      <4>1. PICK esc \in BOOLEAN : worker' = [worker EXCEPT ![w] = FailTo(w, esc)]
        BY <3>2, EscalateType
      <4> QED BY <4>1, FailToKeeps DEF TypeInv, TypeOK
    <3> QED BY <1>10, <3>1, <3>2 DEF StoreCertificate
  <2> QED BY <1>10, <2>1, <2>2, <2>3, QuietStep DEF StoreCertificate, NoNewWork, Working
<1>11. ASSUME NEW w \in Workers, Rollout(w) PROVE LockInv' /\ HolderInv'
  <2>1. worker[w].pc \notin {"idle", "announce"}
    BY <1>11 DEF Rollout
  <2>2. \A v \in Workers \ {w} : worker'[v] = worker[v]
    BY <1>11 DEF Rollout, TypeInv, TypeOK
  <2>3. worker'[w].job = worker[w].job
    BY <1>11 DEF Rollout, TypeInv, TypeOK, WorkerState, Goto
  <2> QED BY <1>11, <2>1, <2>2, <2>3, QuietStep DEF Rollout, NoNewWork, Working
<1>12. ASSUME NEW w \in Workers, CompleteRenewalJob(w) PROVE LockInv' /\ HolderInv'
  <2> DEFINE me == worker[w]
             j  == worker[w].job
  <2>1. /\ Working(w) /\ j \in Jobs /\ jobs[j] \in JobRow /\ me \in WorkerState
    BY <1>12, HolderTypes DEF CompleteRenewalJob, Working
  <2>2. /\ \A v \in Workers \ {w} : worker'[v] = worker[v]
        /\ ~Working(w)'
    BY <1>12 DEF CompleteRenewalJob, AfterFinish, Working, IdleWorker, TypeInv, TypeOK, WorkerState
  <2>3. NoNewWork
    BY <2>2 DEF NoNewWork, Working
  <2>4. CASE jobs' = jobs
    BY <2>3, <2>4, QuietStep
  <2>5. ASSUME NEW row, RowWritten(j, row) PROVE LockInv' /\ HolderInv'
    <3>1. \A k \in Jobs \ {j} : jobs'[k] = jobs[k]
      BY <2>1, <2>5, RowWrite
    \* w was the only one at work on j, and it has let go.
    <3>2. ASSUME Reliable, NEW v \in Workers, Working(v)'
          PROVE  Working(v) /\ worker'[v] = worker[v] /\ worker[v].job \in Jobs \ {j}
      BY <2>1, <2>2, <3>2 DEF HolderInv, Working, HoldersNamed, TypeInv
    <3>3. HolderInv'
      BY <3>1, <3>2 DEF HolderInv
    <3> QED BY <2>1, <2>5, <3>3, RowWrite
  <2>6. CASE /\ jobs' = [jobs EXCEPT ![j] = Settle(jobs[j], me.outcome, me.escalate)]
             /\ me.outcome # "PENDING" \/ IndexAllows(j, jobs[j].cert)
    <3> DEFINE row == Settle(jobs[j], me.outcome, me.escalate)
    <3>1. /\ me.outcome \in {"PENDING", "SUCCEEDED", "CANCELLED"}
          /\ me.escalate \in BOOLEAN
      BY <2>1 DEF WorkerState
    <3>2. row \in JobRow
      BY <2>1, <3>1, SettleType DEF Statuses
    <3>3. /\ row.status = me.outcome /\ row.lockedBy = NoOne /\ row.lapsed = FALSE
          /\ row.cert = jobs[j].cert
      BY <2>1 DEF Settle, JobRow
    <3>4. RowWritten(j, row)
      BY <2>6, <3>1, <3>2, <3>3 DEF RowWritten, IndexAllows
    <3> QED BY <2>5, <3>4
  <2> QED BY <1>12, <2>4, <2>6 DEF CompleteRenewalJob
<1>13. ASSUME NEW w \in Workers, DeferRenewalJob(w) PROVE LockInv' /\ HolderInv'
  <2> DEFINE me == worker[w]
             j  == worker[w].job
  <2>1. /\ Working(w) /\ j \in Jobs /\ jobs[j] \in JobRow /\ me \in WorkerState
    BY <1>13, HolderTypes DEF DeferRenewalJob, Working
  <2>2. /\ \A v \in Workers \ {w} : worker'[v] = worker[v]
        /\ ~Working(w)'
    BY <1>13 DEF DeferRenewalJob, Working, IdleWorker, TypeInv, TypeOK, WorkerState
  <2>3. NoNewWork
    BY <2>2 DEF NoNewWork, Working
  <2>4. CASE jobs' = jobs
    BY <2>3, <2>4, QuietStep
  <2>5. ASSUME NEW row, RowWritten(j, row) PROVE LockInv' /\ HolderInv'
    <3>1. \A k \in Jobs \ {j} : jobs'[k] = jobs[k]
      BY <2>1, <2>5, RowWrite
    \* w was the only one at work on j, and it has let go.
    <3>2. ASSUME Reliable, NEW v \in Workers, Working(v)'
          PROVE  Working(v) /\ worker'[v] = worker[v] /\ worker[v].job \in Jobs \ {j}
      BY <2>1, <2>2, <3>2 DEF HolderInv, Working, HoldersNamed, TypeInv
    <3>3. HolderInv'
      BY <3>1, <3>2 DEF HolderInv
    <3> QED BY <2>1, <2>5, <3>3, RowWrite
  <2>6. ASSUME NEW e \in BOOLEAN, NEW n \in Down(jobs[j].attempts),
               IndexAllows(j, jobs[j].cert),
               jobs' = [jobs EXCEPT ![j] =
                          [Settle(jobs[j], "PENDING", e) EXCEPT !.attempts = n]]
        PROVE  LockInv' /\ HolderInv'
    <3> DEFINE row == [Settle(jobs[j], "PENDING", e) EXCEPT !.attempts = n]
    <3>1. n \in 0..AttemptsCap
      BY <2>1, <2>6, DownType DEF JobRow
    <3>2. /\ row \in JobRow /\ row.status = "PENDING" /\ row.lockedBy = NoOne
          /\ row.lapsed = FALSE /\ row.cert = jobs[j].cert
      BY <2>1, <3>1 DEF Settle, JobRow, Statuses
    <3>3. RowWritten(j, row)
      BY <2>6, <3>2 DEF RowWritten, IndexAllows
    <3> QED BY <2>5, <3>3
  <2> QED BY <1>13, <2>4, <2>6 DEF DeferRenewalJob
<1>14. ASSUME NEW w \in Workers, Announce(w) PROVE LockInv' /\ HolderInv'
  BY <1>14, QuietStep DEF Announce, NoNewWork, Working, IdleWorker, TypeInv, TypeOK
<1>15. ASSUME NEW w \in Workers, ExtendRenewalLease(w) PROVE LockInv' /\ HolderInv'
  <2> DEFINE j == worker[w].job
  <2> DEFINE row == [jobs[j] EXCEPT !.lapsed = FALSE]
  <2>1. j \in Jobs /\ jobs[j] \in JobRow /\ Outstanding(j)
    BY <1>15, HolderTypes DEF ExtendRenewalLease, Outstanding, TypeInv, TypeOK
  <2>2. RowWritten(j, row)
    <3>1. row \in JobRow /\ row.cert = jobs[j].cert
      BY <2>1 DEF JobRow, Statuses
    <3> QED BY <1>15, <2>1, <3>1, InPlace DEF ExtendRenewalLease, RowWritten, JobRow, LockInv, LockFollowsStatus
  <2>3. /\ LockInv' /\ worker' = worker
        /\ \A k \in Jobs : jobs'[k] = IF k = j THEN row ELSE jobs[k]
    BY <1>15, <2>1, <2>2, RowWrite DEF ExtendRenewalLease
  <2>4. HolderInv'
    BY <1>15, <2>1, <2>3 DEF ExtendRenewalLease, HolderInv, Working, HoldersNamed, TypeInv, JobRow
  <2> QED BY <2>3, <2>4
<1>16. ASSUME NEW j \in Jobs, BecomeDue(j) PROVE LockInv' /\ HolderInv'
  <2> DEFINE row == [jobs[j] EXCEPT !.due = TRUE]
  <2>1. j \in Jobs /\ jobs[j] \in JobRow /\ Outstanding(j)
    BY <1>16 DEF BecomeDue, Outstanding, TypeInv, TypeOK
  <2>2. RowWritten(j, row)
    <3>1. row \in JobRow /\ row.cert = jobs[j].cert
      BY <2>1 DEF JobRow, Statuses
    <3> QED BY <1>16, <2>1, <3>1, InPlace DEF BecomeDue, RowWritten, JobRow, LockInv, LockFollowsStatus
  <2>3. /\ LockInv' /\ worker' = worker
        /\ \A k \in Jobs : jobs'[k] = IF k = j THEN row ELSE jobs[k]
    BY <1>16, <2>1, <2>2, RowWrite DEF BecomeDue
  <2>4. HolderInv'
    BY <1>16, <2>1, <2>3 DEF BecomeDue, HolderInv, Working, HoldersNamed, TypeInv, JobRow
  <2> QED BY <2>3, <2>4
<1>17. ASSUME NEW j \in Jobs, LeaseLapses(j) PROVE LockInv' /\ HolderInv'
  <2> DEFINE row == [jobs[j] EXCEPT !.lapsed = TRUE]
  <2>1. j \in Jobs /\ jobs[j] \in JobRow /\ Outstanding(j)
    BY <1>17 DEF LeaseLapses, Outstanding, TypeInv, TypeOK
  <2>2. RowWritten(j, row)
    <3>1. row \in JobRow /\ row.cert = jobs[j].cert
      BY <2>1 DEF JobRow, Statuses
    <3> QED BY <1>17, <2>1, <3>1, InPlace DEF LeaseLapses, RowWritten, JobRow, LockInv, LockFollowsStatus
  <2>3. /\ LockInv' /\ worker' = worker
        /\ \A k \in Jobs : jobs'[k] = IF k = j THEN row ELSE jobs[k]
    BY <1>17, <2>1, <2>2, RowWrite DEF LeaseLapses
  <2>4. HolderInv'
    \* Without the fault, only the lease of a job nobody holds runs out.
    <3>1. ASSUME Reliable', NEW v \in Workers, Working(v) PROVE worker[v].job # j
      BY <1>17, <3>1 DEF LeaseLapses, Held, Upset, Reliable, Without, Working, HoldersNamed, TypeInv
    <3> QED BY <2>1, <2>3, <3>1 DEF HolderInv, Working, HoldersNamed, TypeInv
  <2> QED BY <2>3, <2>4
<1>18. ASSUME NEW j \in Jobs, CancelRenewalJob(j) PROVE LockInv' /\ HolderInv'
  <2> DEFINE row == [jobs[j] EXCEPT !.status = "CANCELLED", !.lockedBy = NoOne,
                                    !.lapsed = FALSE]
  <2>1. j \in Jobs /\ jobs[j] \in JobRow /\ Outstanding(j)
    BY <1>18 DEF CancelRenewalJob, Outstanding, TypeInv, TypeOK
  <2>2. RowWritten(j, row)
    <3>1. row \in JobRow /\ row.cert = jobs[j].cert
      BY <2>1 DEF JobRow, Statuses
    <3> QED BY <1>18, <2>1, <3>1, InPlace DEF CancelRenewalJob, RowWritten, JobRow, LockInv, LockFollowsStatus
  <2>3. /\ LockInv' /\ worker' = worker
        /\ \A k \in Jobs : jobs'[k] = IF k = j THEN row ELSE jobs[k]
    BY <1>18, <2>1, <2>2, RowWrite DEF CancelRenewalJob
  <2>4. HolderInv'
    BY <1>18, <2>1, <2>3 DEF CancelRenewalJob, HolderInv, Working, HoldersNamed, TypeInv, JobRow
  <2> QED BY <2>3, <2>4
<1>19. ASSUME NEW j \in Jobs, AgeOut(j) PROVE LockInv' /\ HolderInv'
  BY <1>19, QuietStep DEF AgeOut, NoNewWork, Working
<1>20. ASSUME NEW d \in Certs, DeleteCertificate(d) PROVE LockInv' /\ HolderInv'
  <2>1. ASSUME NEW k \in Jobs
        PROVE  \/ jobs'[k] = jobs[k]
               \/ /\ jobs'[k].status = "DELETED" /\ jobs'[k].lockedBy = NoOne
                  /\ jobs'[k].lapsed = FALSE
    <3>1. jobs[k] \in JobRow
      BY DEF TypeInv, TypeOK
    <3> QED BY <1>20, <3>1 DEF DeleteCertificate, JobRow
  <2>2. LockFollowsStatus'
    BY <2>1 DEF LockInv, LockFollowsStatus
  <2>3. OneOutstandingPerCertificate'
    BY <2>1 DEF LockInv, OneOutstandingPerCertificate, Outstanding
  <2>4. worker' = worker
    BY <1>20 DEF DeleteCertificate
  <2>5. HolderInv'
    BY <2>1, <2>4 DEF HolderInv, Working, HoldersNamed, TypeInv
  <2> QED BY <2>2, <2>3, <2>5 DEF LockInv
<1>21. ASSUME UNCHANGED vars PROVE LockInv' /\ HolderInv'
  BY <1>21, QuietStep DEF vars, NoNewWork, Working
<1> QED
  BY <1>1, <1>2, <1>3, <1>4, <1>5, <1>6, <1>7, <1>8, <1>9, <1>10, <1>11, <1>12, <1>13,
     <1>14, <1>15, <1>16, <1>17, <1>18, <1>19, <1>20, <1>21
     DEF Next, WorkerStep

LEMMA SafeInvariant == Spec => [](TypeInv /\ LockInv /\ HolderInv)
BY InitTypeInv, TypeStep, InitSafe, SafeStep, PTL DEF Spec

\* A row is locked exactly while it is RUNNING: no row is ever stuck RUNNING
\* without a lease that can run out.
THEOREM LockDiscipline == Spec => []LockFollowsStatus
<1>1. TypeInv /\ LockInv /\ HolderInv => LockFollowsStatus
  BY DEF LockInv
<1> QED BY <1>1, SafeInvariant, PTL

\* At most one outstanding job per certificate, for any number of replicas.
THEOREM OneOutstanding == Spec => []OneOutstandingPerCertificate
<1>1. TypeInv /\ LockInv /\ HolderInv => OneOutstandingPerCertificate
  BY DEF LockInv
<1> QED BY <1>1, SafeInvariant, PTL

\* At most one goroutine of all replicas executes a job while heartbeats are on
\* time, for any number of replicas and workers and any number of crashes.
THEOREM ExclusiveJob == Spec => []OneHolderPerJob
<1>1. TypeInv /\ LockInv /\ HolderInv => OneHolderPerJob
  BY DEF HolderInv, OneHolderPerJob, Holds, Working
<1> QED BY <1>1, SafeInvariant, PTL

\* A succeeded job is never written again while heartbeats are on time.
THEOREM SucceededFinal == Spec => SucceededIsFinal
<1> DEFINE Final == Reliable => \A j \in Jobs : jobs[j].status = "SUCCEEDED"
                                   => jobs'[j].status \in {"SUCCEEDED", "DELETED"}
<1>1. TypeInv /\ LockInv /\ HolderInv /\ [Next]_vars => [Final]_vars
  <2> SUFFICES ASSUME TypeInv, HolderInv, Next, Reliable,
                      NEW j \in Jobs, jobs[j].status = "SUCCEEDED"
               PROVE  jobs'[j].status \in {"SUCCEEDED", "DELETED"}
    OBVIOUS
  <2>0. jobs \in [Jobs -> JobRow] /\ jobs[j] \in JobRow
    BY DEF TypeInv, TypeOK
  <2>1. ASSUME NEW r \in Replicas, NEW k \in Jobs, EnqueueRenewal(r, k)
        PROVE  jobs'[j] = jobs[j]
    BY <2>0, <2>1 DEF EnqueueRenewal
  <2>2. ASSUME NEW w \in Workers, NEW k \in Jobs, ClaimRenewalJob(w, k)
        PROVE  jobs'[j] = jobs[j]
    BY <2>0, <2>2 DEF ClaimRenewalJob, Claimable
  \* The row a worker is about to write is not SUCCEEDED: HolderInv.
  <2>3. ASSUME NEW w \in Workers, CompleteRenewalJob(w) \/ DeferRenewalJob(w)
        PROVE  jobs'[j] = jobs[j]
    <3>1. Working(w)
      BY <2>3 DEF Working, CompleteRenewalJob, DeferRenewalJob
    <3>2. worker[w].job # j
      BY <3>1 DEF HolderInv
    <3>3. worker[w].job \in Jobs
      BY <3>1 DEF Working, TypeInv, HoldersNamed
    <3> QED BY <2>0, <2>3, <3>2, <3>3 DEF CompleteRenewalJob, DeferRenewalJob
  <2>4. ASSUME NEW w \in Workers, ExtendRenewalLease(w) PROVE jobs'[j] = jobs[j]
    BY <2>0, <2>4 DEF ExtendRenewalLease
  <2>5. ASSUME NEW k \in Jobs, BecomeDue(k) \/ LeaseLapses(k) \/ CancelRenewalJob(k)
        PROVE  jobs'[j] = jobs[j]
    BY <2>0, <2>5 DEF BecomeDue, LeaseLapses, CancelRenewalJob, Outstanding
  <2>6. ASSUME NEW d \in Certs, DeleteCertificate(d)
        PROVE  jobs'[j] = jobs[j] \/ jobs'[j].status = "DELETED"
    BY <2>0, <2>6 DEF DeleteCertificate, JobRow
  <2>7. CASE jobs' = jobs
    BY <2>7
  <2> QED BY <2>1, <2>2, <2>3, <2>4, <2>5, <2>6, <2>7
          DEF Next, WorkerStep, ReadForEnqueue, Crash, Check, ReadCertificate, CallAccepted,
              CallFailed, RecordFailure, StoreCertificate, Rollout, Announce, AgeOut
<1> QED BY <1>1, SafeInvariant, PTL DEF Spec, SucceededIsFinal

(***************************************************************************)
(* The executor.                                                           *)
(***************************************************************************)

-----------------------------------------------------------------------------
(* What each action does, pointwise                                        *)

\* Only w moves, and it stays at the job it claimed.
OnlyMoves(w) == \A v \in Workers \ {w} : worker'[v] = worker[v]
KeepsClaim(w) == /\ worker'[w].job = worker[w].job
                 /\ worker'[w].fp = worker[w].fp
                 /\ worker'[w].escalated = worker[w].escalated

CertOf(w) == jobs[worker[w].job].cert

\* What a row keeps when its job is claimed, settled, timed or cancelled.
KeepsRow(j, row) == /\ row.cert = jobs[j].cert
                    /\ row.fp = jobs[j].fp
                    /\ jobs[j].escalated => row.escalated

OtherRowsKept(j) == \A k \in Jobs \ {j} : jobs'[k] = jobs[k]

\* RunScan and the Renew handler: a free row is filled, or nothing is.
LEMMA EnqueueFacts ==
    ASSUME TypeInv, NEW r \in Replicas, NEW j \in Jobs, EnqueueRenewal(r, j)
    PROVE  /\ UNCHANGED <<exists, fp, worker, window, issued, upsets, rolledOut, stored, alerts>>
           /\ jobs[j].status = "FREE" /\ OtherRowsKept(j)
           /\ scan'[r].cert = NoOne /\ \A s \in Replicas \ {r} : scan'[s] = scan[s]
           /\ \/ jobs' = jobs
              \/ /\ scan[r].cert \in Certs /\ exists[scan[r].cert]
                 /\ jobs'[j].status = "PENDING" /\ jobs'[j].cert = scan[r].cert
                 /\ jobs'[j].fp = scan[r].fp /\ jobs'[j].escalated = FALSE
                 /\ \A k \in Jobs \ {j} : Outstanding(k) => jobs[k].cert # scan[r].cert
<1>1. /\ scan[r] \in ScanState /\ scan \in [Replicas -> ScanState]
      /\ jobs \in [Jobs -> JobRow]
  BY DEF TypeInv, TypeOK
<1>2. CASE jobs' = jobs
  BY <1>1, <1>2 DEF EnqueueRenewal, OtherRowsKept, NoScan
<1>3. CASE /\ jobs' = [jobs EXCEPT ![j] = QueuedRow(scan[r].cert, scan[r].fp)]
           /\ exists[scan[r].cert] /\ IndexAllows(j, scan[r].cert)
  BY <1>1, <1>3 DEF EnqueueRenewal, OtherRowsKept, NoScan, ScanState, QueuedRow, IndexAllows
<1> QED BY <1>2, <1>3 DEF EnqueueRenewal

\* ClaimRenewalJob: the row it takes was outstanding, with a lapsed lease if RUNNING.
LEMMA ClaimFacts ==
    ASSUME TypeInv, NEW w \in Workers, NEW j \in Jobs, ClaimRenewalJob(w, j)
    PROVE  /\ UNCHANGED <<exists, fp, scan, window, issued, upsets, rolledOut, stored, alerts>>
           /\ worker[w].pc = "idle" /\ OnlyMoves(w)
           /\ worker'[w].pc = "check" /\ worker'[w].job = j
           /\ worker'[w].escalated = jobs[j].escalated /\ worker'[w].fp = jobs[j].fp
           /\ Outstanding(j) /\ (jobs[j].status = "RUNNING" => jobs[j].lapsed)
           /\ jobs'[j].status = "RUNNING" /\ KeepsRow(j, jobs'[j]) /\ OtherRowsKept(j)
<1>1. jobs \in [Jobs -> JobRow] /\ jobs[j] \in JobRow /\ worker \in [Workers -> WorkerState]
  BY DEF TypeInv, TypeOK
<1>2. jobs'[j] = ClaimedRow(jobs[j], w) /\ OtherRowsKept(j)
  BY <1>1 DEF ClaimRenewalJob, OtherRowsKept
<1>3. jobs'[j].status = "RUNNING" /\ KeepsRow(j, jobs'[j])
  BY <1>1, <1>2 DEF ClaimedRow, KeepsRow, JobRow
<1> QED BY <1>1, <1>2, <1>3 DEF ClaimRenewalJob, Claimable, Outstanding, OnlyMoves, IdleWorker

\* execute goes on to renew only with the fingerprint unmoved and the quota unspent.
LEMMA CheckFacts ==
    ASSUME TypeInv, NEW w \in Workers, Check(w)
    PROVE  /\ UNCHANGED <<jobs, exists, fp, scan, window, issued, rolledOut, stored, alerts>>
           /\ worker[w].pc = "check" /\ OnlyMoves(w) /\ KeepsClaim(w)
           /\ worker'[w].pc \in {"finish", "read", "defer"}
           /\ worker'[w].pc = "read" => /\ exists[CertOf(w)] /\ fp[CertOf(w)] = worker[w].fp
                                        /\ ~RateLimited \/ Upset("read")
           /\ worker'[w].pc = "finish" => worker'[w].outcome # "PENDING"
<1>1. worker \in [Workers -> WorkerState] /\ worker[w] \in WorkerState
  BY DEF TypeInv, TypeOK
<1>2. ASSUME NEW pc, NEW o
      PROVE  /\ Goto(w, pc, o).pc = pc /\ Goto(w, pc, o).outcome = o
             /\ Goto(w, pc, o).job = worker[w].job /\ Goto(w, pc, o).fp = worker[w].fp
             /\ Goto(w, pc, o).escalated = worker[w].escalated
  BY <1>1 DEF Goto, WorkerState
<1>3. CASE worker' = [worker EXCEPT ![w] = Decision(w)]
  BY <1>1, <1>2, <1>3 DEF Check, Decision, OnlyMoves, KeepsClaim, CertOf
<1>4. CASE worker' = [worker EXCEPT ![w] = Goto(w, "finish", "CANCELLED")]
  BY <1>1, <1>2, <1>4 DEF Check, OnlyMoves, KeepsClaim
<1>5. CASE /\ Decision(w).pc = "defer" /\ Upset("read")
           /\ worker' = [worker EXCEPT ![w] = Goto(w, "read", "PENDING")]
  BY <1>1, <1>2, <1>5 DEF Check, Decision, OnlyMoves, KeepsClaim, CertOf
<1> QED BY <1>3, <1>4, <1>5 DEF Check

\* A failed attempt of RenewCertificate is on its way to be written down.
Failing(w) == /\ OnlyMoves(w) /\ KeepsClaim(w)
              /\ worker'[w].pc = "finish" /\ worker'[w].outcome = "PENDING"

LEMMA FailFacts ==
    ASSUME TypeInv, NEW w \in Workers, NEW esc,
           worker' = [worker EXCEPT ![w] = FailTo(w, esc)]
    PROVE  Failing(w)
<1>1. worker \in [Workers -> WorkerState] /\ worker[w] \in WorkerState
  BY DEF TypeInv, TypeOK
<1> QED BY <1>1 DEF Failing, FailTo, OnlyMoves, KeepsClaim, WorkerState

LEMMA ReadFacts ==
    ASSUME TypeInv, NEW w \in Workers, ReadCertificate(w)
    PROVE  /\ UNCHANGED <<jobs, exists, fp, scan, window, issued, upsets, rolledOut, stored, alerts>>
           /\ worker[w].pc = "read"
           /\ \/ Failing(w)
              \/ /\ OnlyMoves(w) /\ KeepsClaim(w) /\ exists[CertOf(w)]
                 /\ worker'[w].pc = "call" /\ worker'[w].copy = fp[CertOf(w)]
<1>1. worker \in [Workers -> WorkerState] /\ worker[w] \in WorkerState
  BY DEF TypeInv, TypeOK
<1>2. CASE \E esc \in ShouldEscalate(worker[w].attempts) :
             worker' = [worker EXCEPT ![w] = FailTo(w, esc)]
  BY <1>2, FailFacts DEF ReadCertificate
<1>3. CASE /\ exists[CertOf(w)]
           /\ worker' = [worker EXCEPT ![w] = [worker[w] EXCEPT !.pc = "call",
                                                               !.copy = fp[CertOf(w)]]]
  BY <1>1, <1>3 DEF ReadCertificate, OnlyMoves, KeepsClaim, WorkerState
<1> QED BY <1>2, <1>3 DEF ReadCertificate, CertOf

LEMMA AcceptFacts ==
    ASSUME TypeInv, NEW w \in Workers, CallAccepted(w)
    PROVE  /\ UNCHANGED <<jobs, exists, fp, scan, window, upsets, rolledOut, stored, alerts>>
           /\ issued' = issued + 1
           /\ worker[w].pc = "call" /\ OnlyMoves(w) /\ KeepsClaim(w)
           /\ worker'[w].pc = "store" /\ worker'[w].new = issued + 1
           /\ worker'[w].copy = worker[w].copy
<1>1. worker \in [Workers -> WorkerState] /\ worker[w] \in WorkerState
  BY DEF TypeInv, TypeOK
<1> QED BY <1>1 DEF CallAccepted, OnlyMoves, KeepsClaim, WorkerState

LEMMA CallFailedFacts ==
    ASSUME TypeInv, NEW w \in Workers, CallFailed(w)
    PROVE  /\ UNCHANGED <<jobs, exists, fp, scan, window, rolledOut, stored, alerts>>
           /\ issued' \in {issued, issued + 1}
           /\ worker[w].pc = "call" /\ OnlyMoves(w) /\ KeepsClaim(w)
           /\ worker'[w].pc = "refused" /\ worker'[w].copy = worker[w].copy
<1>1. worker \in [Workers -> WorkerState] /\ worker[w] \in WorkerState
  BY DEF TypeInv, TypeOK
<1> QED BY <1>1 DEF CallFailed, OnlyMoves, KeepsClaim, WorkerState

LEMMA RecordFailureFacts ==
    ASSUME TypeInv, NEW w \in Workers, RecordFailure(w)
    PROVE  /\ UNCHANGED <<jobs, exists, scan, window, issued, rolledOut, stored, alerts>>
           /\ worker[w].pc = "refused" /\ Failing(w)
           /\ \/ fp' = fp
              \/ exists[CertOf(w)] /\ fp' = [fp EXCEPT ![CertOf(w)] = worker[w].copy]
BY FailFacts DEF RecordFailure, CertOf

LEMMA StoreFacts ==
    ASSUME TypeInv, NEW w \in Workers, StoreCertificate(w)
    PROVE  /\ UNCHANGED <<jobs, exists, scan, window, issued, rolledOut, alerts>>
           /\ worker[w].pc = "store"
           /\ \/ Failing(w) /\ UNCHANGED <<fp, stored>> /\ Upset("store")
              \/ /\ OnlyMoves(w) /\ KeepsClaim(w)
                 /\ worker'[w].pc = "rollout" /\ worker'[w].new = worker[w].new
                 /\ fp' = IF exists[CertOf(w)] THEN [fp EXCEPT ![CertOf(w)] = worker[w].new] ELSE fp
                 /\ stored' = [stored EXCEPT ![worker[w].job] = Twice(@)]
                 /\ UNCHANGED upsets
<1>1. worker \in [Workers -> WorkerState] /\ worker[w] \in WorkerState
  BY DEF TypeInv, TypeOK
<1> QED BY <1>1, FailFacts DEF StoreCertificate, OnlyMoves, KeepsClaim, CertOf, WorkerState

LEMMA RolloutFacts ==
    ASSUME TypeInv, NEW w \in Workers, Rollout(w)
    PROVE  /\ UNCHANGED <<jobs, exists, fp, scan, window, issued, stored, alerts>>
           /\ worker[w].pc = "rollout" /\ OnlyMoves(w) /\ KeepsClaim(w)
           /\ worker'[w].pc = "finish" /\ worker'[w].outcome = "SUCCEEDED"
           /\ \/ rolledOut' = [rolledOut EXCEPT ![CertOf(w)] = worker[w].new]
              \/ Upset("rollout") /\ UNCHANGED rolledOut
<1>1. worker \in [Workers -> WorkerState] /\ worker[w] \in WorkerState
  BY DEF TypeInv, TypeOK
<1> QED BY <1>1 DEF Rollout, Goto, OnlyMoves, KeepsClaim, CertOf, WorkerState

\* A goroutine gives its job up, or still has an escalation to announce that the
\* row did not show when it claimed it.
LetsGo(w) == /\ OnlyMoves(w)
             /\ \/ worker'[w] = IdleWorker
                \/ KeepsClaim(w) /\ worker'[w].pc = "announce" /\ ~worker[w].escalated

LEMMA CompleteFacts ==
    ASSUME TypeInv, NEW w \in Workers, CompleteRenewalJob(w)
    PROVE  /\ UNCHANGED <<exists, fp, scan, issued, rolledOut, stored, alerts>>
           /\ worker[w].pc = "finish" /\ LetsGo(w) /\ OtherRowsKept(worker[w].job)
           /\ \/ /\ jobs' = jobs /\ window' = window
                 /\ \/ Upset("complete")
                    \/ ~RowExists(worker[w].job)
                    \/ ~IndexAllows(worker[w].job, CertOf(w))
              \/ /\ RowExists(worker[w].job)
                 /\ KeepsRow(worker[w].job, jobs'[worker[w].job])
                 /\ jobs'[worker[w].job].status = worker[w].outcome
                 /\ worker'[w].pc = "announce" => jobs'[worker[w].job].escalated
                 /\ window' = IF worker[w].outcome = "SUCCEEDED" /\ RateLimit > 0
                              THEN window \cup {worker[w].job} ELSE window
                 /\ UNCHANGED upsets
<1> DEFINE j == worker[w].job
<1>1. /\ worker \in [Workers -> WorkerState] /\ worker[w] \in WorkerState
      /\ jobs \in [Jobs -> JobRow] /\ j \in Jobs /\ jobs[j] \in JobRow
  BY HolderTypes DEF CompleteRenewalJob, TypeInv, TypeOK
<1>2. worker[w].pc = "finish" /\ LetsGo(w)
  BY <1>1 DEF CompleteRenewalJob, AfterFinish, LetsGo, OnlyMoves, KeepsClaim, WorkerState
<1>3. worker'[w].pc = "announce" => worker[w].escalate
  BY <1>1 DEF CompleteRenewalJob, AfterFinish, IdleWorker
<1>4. CASE jobs' = jobs /\ (Upset("complete") \/ ~RowExists(j) \/ ~IndexAllows(j, jobs[j].cert)) /\ window' = window
  BY <1>2, <1>4 DEF CompleteRenewalJob, OtherRowsKept, CertOf
<1>5. CASE /\ RowExists(j) /\ jobs' = [jobs EXCEPT ![j] = Settle(jobs[j], worker[w].outcome, worker[w].escalate)]
           /\ window' = IF worker[w].outcome = "SUCCEEDED" /\ RateLimit > 0
                              THEN window \cup {worker[w].job} ELSE window
           /\ UNCHANGED upsets
  <2>1. jobs'[j] = Settle(jobs[j], worker[w].outcome, worker[w].escalate) /\ OtherRowsKept(j)
    BY <1>1, <1>5 DEF OtherRowsKept
  <2>2. /\ KeepsRow(j, jobs'[j]) /\ jobs'[j].status = worker[w].outcome
        /\ worker[w].escalate => jobs'[j].escalated
    BY <1>1, <2>1 DEF Settle, KeepsRow, JobRow
  <2> QED BY <1>2, <1>3, <1>5, <2>1, <2>2 DEF CompleteRenewalJob
<1> QED BY <1>4, <1>5 DEF CompleteRenewalJob

LEMMA DeferFacts ==
    ASSUME TypeInv, NEW w \in Workers, DeferRenewalJob(w)
    PROVE  /\ UNCHANGED <<exists, fp, scan, window, issued, rolledOut, stored, alerts>>
           /\ worker[w].pc = "defer" /\ LetsGo(w) /\ OtherRowsKept(worker[w].job)
           /\ \/ /\ jobs' = jobs
                 /\ \/ Upset("complete")
                    \/ ~RowExists(worker[w].job)
                    \/ ~IndexAllows(worker[w].job, CertOf(w))
              \/ /\ RowExists(worker[w].job)
                 /\ KeepsRow(worker[w].job, jobs'[worker[w].job])
                 /\ jobs'[worker[w].job].status = "PENDING"
                 /\ worker'[w].pc = "announce" => jobs'[worker[w].job].escalated
                 /\ UNCHANGED upsets
<1> DEFINE j == worker[w].job
<1>1. /\ worker \in [Workers -> WorkerState] /\ worker[w] \in WorkerState
      /\ jobs \in [Jobs -> JobRow] /\ j \in Jobs /\ jobs[j] \in JobRow
  BY HolderTypes DEF DeferRenewalJob, TypeInv, TypeOK
<1>2. PICK doomed \in BOOLEAN :
          /\ \/ /\ RowExists(j) /\ IndexAllows(j, jobs[j].cert)
                /\ \E n \in Down(jobs[j].attempts) :
                      jobs' = [jobs EXCEPT ![j] =
                                 [Settle(jobs[j], "PENDING", doomed) EXCEPT !.attempts = n]]
                /\ UNCHANGED upsets
             \/ /\ ~RowExists(j) \/ ~IndexAllows(j, jobs[j].cert)
                /\ UNCHANGED <<jobs, upsets>>
             \/ Upset("complete") /\ UNCHANGED jobs
          /\ worker' = [worker EXCEPT ![w] =
                          IF doomed /\ ~worker[w].escalated
                          THEN [worker[w] EXCEPT !.pc = "announce"] ELSE IdleWorker]
  BY DEF DeferRenewalJob
<1>3. /\ worker[w].pc = "defer" /\ LetsGo(w)
      /\ worker'[w].pc = "announce" => doomed
  BY <1>1, <1>2 DEF DeferRenewalJob, LetsGo, OnlyMoves, KeepsClaim, WorkerState, IdleWorker
<1>4. CASE jobs' = jobs /\ (Upset("complete") \/ ~RowExists(j) \/ ~IndexAllows(j, jobs[j].cert))
  BY <1>3, <1>4 DEF DeferRenewalJob, OtherRowsKept, CertOf
<1>5. ASSUME NEW n \in Down(jobs[j].attempts), RowExists(j), UNCHANGED upsets,
             jobs' = [jobs EXCEPT ![j] = [Settle(jobs[j], "PENDING", doomed) EXCEPT !.attempts = n]]
      PROVE  /\ OtherRowsKept(j) /\ KeepsRow(j, jobs'[j]) /\ jobs'[j].status = "PENDING"
             /\ doomed => jobs'[j].escalated
  <2>1. jobs'[j] = [Settle(jobs[j], "PENDING", doomed) EXCEPT !.attempts = n] /\ OtherRowsKept(j)
    BY <1>1, <1>5 DEF OtherRowsKept
  <2> QED BY <1>1, <2>1 DEF Settle, KeepsRow, JobRow
<1> QED BY <1>2, <1>3, <1>4, <1>5 DEF DeferRenewalJob

LEMMA AnnounceFacts ==
    ASSUME TypeInv, NEW w \in Workers, Announce(w)
    PROVE  /\ UNCHANGED <<jobs, exists, fp, scan, window, issued, upsets, rolledOut, stored>>
           /\ worker[w].pc = "announce" /\ OnlyMoves(w) /\ worker'[w] = IdleWorker
           /\ alerts' = [alerts EXCEPT ![worker[w].job] = Twice(@)]
BY DEF Announce, OnlyMoves, TypeInv, TypeOK

LEMMA ExtendFacts ==
    ASSUME TypeInv, NEW w \in Workers, ExtendRenewalLease(w)
    PROVE  /\ UNCHANGED <<exists, fp, scan, worker, window, issued, upsets, rolledOut, stored, alerts>>
           /\ worker[w].job \in Jobs /\ OtherRowsKept(worker[w].job)
           /\ KeepsRow(worker[w].job, jobs'[worker[w].job])
           /\ jobs[worker[w].job].status = "RUNNING" /\ jobs'[worker[w].job].status = "RUNNING"
<1>1. worker[w].job \in Jobs /\ jobs \in [Jobs -> JobRow] /\ jobs[worker[w].job] \in JobRow
  BY HolderTypes DEF ExtendRenewalLease, TypeInv, TypeOK
<1> QED BY <1>1 DEF ExtendRenewalLease, OtherRowsKept, KeepsRow, JobRow

LEMMA DueFacts ==
    ASSUME TypeInv, NEW j \in Jobs, BecomeDue(j)
    PROVE  /\ UNCHANGED <<exists, fp, scan, worker, window, issued, upsets, rolledOut, stored, alerts>>
           /\ OtherRowsKept(j) /\ KeepsRow(j, jobs'[j])
           /\ jobs[j].status = "PENDING" /\ jobs'[j].status = "PENDING"
<1>1. jobs \in [Jobs -> JobRow] /\ jobs[j] \in JobRow
  BY DEF TypeInv, TypeOK
<1> QED BY <1>1 DEF BecomeDue, OtherRowsKept, KeepsRow, JobRow

LEMMA LapseFacts ==
    ASSUME TypeInv, NEW j \in Jobs, LeaseLapses(j)
    PROVE  /\ UNCHANGED <<exists, fp, scan, worker, window, issued, rolledOut, stored, alerts>>
           /\ OtherRowsKept(j) /\ KeepsRow(j, jobs'[j])
           /\ jobs[j].status = "RUNNING" /\ jobs'[j].status = "RUNNING"
<1>1. jobs \in [Jobs -> JobRow] /\ jobs[j] \in JobRow
  BY DEF TypeInv, TypeOK
<1> QED BY <1>1 DEF LeaseLapses, OtherRowsKept, KeepsRow, JobRow

LEMMA CancelFacts ==
    ASSUME TypeInv, NEW j \in Jobs, CancelRenewalJob(j)
    PROVE  /\ UNCHANGED <<exists, fp, scan, worker, window, issued, rolledOut, stored, alerts>>
           /\ Upset("cancel") /\ OtherRowsKept(j) /\ KeepsRow(j, jobs'[j])
           /\ Outstanding(j) /\ jobs'[j].status = "CANCELLED"
<1>1. jobs \in [Jobs -> JobRow] /\ jobs[j] \in JobRow
  BY DEF TypeInv, TypeOK
<1> QED BY <1>1 DEF CancelRenewalJob, OtherRowsKept, KeepsRow, JobRow

LEMMA DeleteFacts ==
    ASSUME TypeInv, NEW c \in Certs, DeleteCertificate(c)
    PROVE  /\ UNCHANGED <<fp, scan, worker, issued, rolledOut, stored, alerts>>
           /\ Upset("delete") /\ exists[c] /\ exists' = [exists EXCEPT ![c] = FALSE]
           /\ \A j \in Jobs : /\ KeepsRow(j, jobs'[j])
                              /\ jobs[j].cert = c => jobs'[j].status = "DELETED"
                              /\ jobs[j].cert # c => jobs'[j] = jobs[j]
<1>1. ASSUME NEW j \in Jobs
      PROVE  /\ KeepsRow(j, jobs'[j])
             /\ jobs[j].cert = c => jobs'[j].status = "DELETED"
             /\ jobs[j].cert # c => jobs'[j] = jobs[j]
  <2>1. jobs[j] \in JobRow
    BY DEF TypeInv, TypeOK
  <2> QED BY <2>1 DEF DeleteCertificate, KeepsRow, JobRow
<1> QED BY <1>1 DEF DeleteCertificate

LEMMA CrashFacts ==
    ASSUME TypeInv, NEW r \in Replicas, Crash(r)
    PROVE  /\ UNCHANGED <<jobs, exists, fp, window, issued, rolledOut, stored, alerts>>
           /\ Upset("crash")
           /\ \A w \in Workers : worker'[w] \in {worker[w], IdleWorker}
           /\ \A s \in Replicas : scan'[s] \in {scan[s], NoScan}
BY DEF Crash, TypeInv, TypeOK

-----------------------------------------------------------------------------
(* One renewer per certificate *)

\* A certificate and its jobs are deleted together, and for good.
RowsFollowRecord ==
    \A j \in Jobs : jobs[j].status # "FREE" =>
        (jobs[j].status = "DELETED" <=> ~exists[jobs[j].cert])

\* While heartbeats are on time and nobody cancels, the row of a goroutine at work
\* is RUNNING or was deleted under it, and no other goroutine works on its certificate.
SoleRenewer ==
    Undisturbed =>
        \A w \in Workers : Working(w) =>
            /\ jobs[worker[w].job].status # "CANCELLED"
            /\ \A v \in Workers : v # w /\ Working(v) =>
                  jobs[worker[v].job].cert # jobs[worker[w].job].cert

RenewerInv == RowsFollowRecord /\ SoleRenewer

LEMMA UndisturbedBefore ==
    ASSUME [Next]_vars PROVE /\ Undisturbed' => Undisturbed
                             /\ Undisturbed => Reliable
BY WithoutBefore DEF Undisturbed, Reliable, Without

LEMMA RowsFollowKept ==
    ASSUME TypeInv, RowsFollowRecord, exists' = exists,
           \A j \in Jobs : /\ jobs'[j].status = "FREE" <=> jobs[j].status = "FREE"
                           /\ jobs'[j].status = "DELETED" <=> jobs[j].status = "DELETED"
                           /\ jobs'[j].cert = jobs[j].cert
    PROVE  RowsFollowRecord'
BY DEF RowsFollowRecord

LEMMA SoleKept ==
    ASSUME TypeInv, SoleRenewer, NoNewWork, Undisturbed' => Undisturbed,
           Undisturbed' => \A w \in Workers : Working(w)' =>
               /\ jobs'[worker[w].job].cert = jobs[worker[w].job].cert
               /\ jobs'[worker[w].job].status = "CANCELLED"
                     => jobs[worker[w].job].status = "CANCELLED"
    PROVE  SoleRenewer'
BY DEF SoleRenewer, NoNewWork

\* Steps that write no row.
LEMMA RenewerQuiet ==
    ASSUME TypeInv, RenewerInv, NoNewWork, Undisturbed' => Undisturbed,
           jobs' = jobs, exists' = exists
    PROVE  RenewerInv'
BY RowsFollowKept, SoleKept DEF RenewerInv

LEMMA InitRenewer == Init => RenewerInv
<1> SUFFICES ASSUME Init PROVE RenewerInv
  OBVIOUS
<1>1. \A j \in Jobs : jobs[j].status \in {"FREE", "PENDING"} /\ (jobs[j].status # "FREE" => jobs[j].cert \in Certs)
  BY DEF Init, FreeRow, QueuedRow
<1> QED BY <1>1 DEF Init, RenewerInv, RowsFollowRecord, SoleRenewer, Working, IdleWorker

\* Every action keeps RenewerInv.
LEMMA RenewerStep ==
    TypeInv /\ LockInv /\ HolderInv /\ RenewerInv /\ [Next]_vars => RenewerInv'
<1> SUFFICES ASSUME TypeInv, LockInv, HolderInv, RenewerInv, [Next]_vars
             PROVE  RenewerInv'
  OBVIOUS
<1>0. (Undisturbed' => Undisturbed) /\ (Undisturbed => Reliable)
  BY UndisturbedBefore
<1>1. ASSUME NEW r \in Replicas, NEW c \in Certs, ReadForEnqueue(r, c) PROVE RenewerInv'
  BY <1>0, <1>1, RenewerQuiet DEF ReadForEnqueue, NoNewWork, Working
<1>2. ASSUME NEW r \in Replicas, NEW j \in Jobs, EnqueueRenewal(r, j) PROVE RenewerInv'
  <2>0. /\ worker' = worker /\ exists' = exists /\ jobs[j].status = "FREE" /\ OtherRowsKept(j)
        /\ \/ jobs' = jobs
           \/ jobs'[j].status = "PENDING" /\ exists[jobs'[j].cert]
    BY <1>2, EnqueueFacts
  <2>1. RowsFollowRecord'
    BY <2>0 DEF OtherRowsKept, RowsFollowRecord, RenewerInv
  <2>2. NoNewWork
    BY <2>0 DEF NoNewWork, Working
  <2>3. \A w \in Workers : Working(w)' => worker[w].job \in Jobs \ {j}
    BY <2>0 DEF TypeInv, HoldersNamed, Working
  <2>4. SoleRenewer'
    BY <1>0, <2>0, <2>2, <2>3, SoleKept DEF OtherRowsKept, RenewerInv
  <2> QED BY <2>1, <2>4 DEF RenewerInv
<1>3. ASSUME NEW r \in Replicas, Crash(r) PROVE RenewerInv'
  BY <1>0, <1>3, CrashFacts, RenewerQuiet DEF NoNewWork, Working, IdleWorker
<1>4. ASSUME NEW w \in Workers, NEW j \in Jobs, ClaimRenewalJob(w, j) PROVE RenewerInv'
  <2>1. RowsFollowRecord'
    BY <1>4, ClaimFacts DEF OtherRowsKept, KeepsRow, RowsFollowRecord, RenewerInv, Outstanding
  \* The row claimed is outstanding, so its certificate exists and no other job of
  \* it is RUNNING; a goroutine whose row was deleted works on another certificate.
  <2>2. ASSUME Undisturbed, NEW v \in Workers \ {w}, Working(v)
        PROVE  /\ worker[v].job \in Jobs \ {j}
               /\ jobs[worker[v].job].cert # jobs[j].cert
    <3>1. /\ worker[v].job \in Jobs /\ jobs[worker[v].job].status \in {"RUNNING", "DELETED"}
          /\ jobs[worker[v].job].status = "RUNNING" => ~jobs[worker[v].job].lapsed
      BY <1>0, <2>2 DEF RenewerInv, SoleRenewer, HolderInv, TypeInv, HoldersNamed, Working
    <3>2. /\ Outstanding(j) /\ exists[jobs[j].cert]
          /\ jobs[j].status = "RUNNING" => jobs[j].lapsed
      BY <1>4, ClaimFacts DEF RenewerInv, RowsFollowRecord, Outstanding
    <3>3. worker[v].job # j
      BY <3>1, <3>2 DEF Outstanding
    <3>4. CASE jobs[worker[v].job].status = "RUNNING"
      BY <3>1, <3>2, <3>3, <3>4 DEF LockInv, OneOutstandingPerCertificate, Outstanding
    <3>5. CASE jobs[worker[v].job].status = "DELETED"
      BY <3>1, <3>2, <3>5 DEF RenewerInv, RowsFollowRecord
    <3> QED BY <3>1, <3>3, <3>4, <3>5
  <2>3. SoleRenewer'
    <3>1. ASSUME Undisturbed', NEW v \in Workers, NEW u \in Workers, v # u, Working(v)', Working(u)'
          PROVE  jobs'[worker'[v].job].cert # jobs'[worker'[u].job].cert
      BY <1>0, <1>4, <2>2, <3>1, ClaimFacts
         DEF OnlyMoves, OtherRowsKept, KeepsRow, RenewerInv, SoleRenewer, Working
    <3>2. ASSUME Undisturbed', NEW v \in Workers, Working(v)'
          PROVE  jobs'[worker'[v].job].status # "CANCELLED"
      BY <1>0, <1>4, <2>2, <3>2, ClaimFacts
         DEF OnlyMoves, OtherRowsKept, RenewerInv, SoleRenewer, Working
    <3> QED BY <3>1, <3>2 DEF SoleRenewer
  <2> QED BY <2>1, <2>3 DEF RenewerInv
<1>5. ASSUME NEW w \in Workers, Check(w) PROVE RenewerInv'
  BY <1>0, <1>5, CheckFacts, RenewerQuiet DEF NoNewWork, Working, OnlyMoves, KeepsClaim
<1>6. ASSUME NEW w \in Workers, ReadCertificate(w) PROVE RenewerInv'
  BY <1>0, <1>6, ReadFacts, RenewerQuiet DEF NoNewWork, Working, OnlyMoves, KeepsClaim, Failing
<1>7. ASSUME NEW w \in Workers, CallAccepted(w) PROVE RenewerInv'
  BY <1>0, <1>7, AcceptFacts, RenewerQuiet DEF NoNewWork, Working, OnlyMoves, KeepsClaim
<1>8. ASSUME NEW w \in Workers, CallFailed(w) PROVE RenewerInv'
  BY <1>0, <1>8, CallFailedFacts, RenewerQuiet DEF NoNewWork, Working, OnlyMoves, KeepsClaim
<1>9. ASSUME NEW w \in Workers, RecordFailure(w) PROVE RenewerInv'
  BY <1>0, <1>9, RecordFailureFacts, RenewerQuiet DEF NoNewWork, Working, OnlyMoves, KeepsClaim, Failing
<1>10. ASSUME NEW w \in Workers, StoreCertificate(w) PROVE RenewerInv'
  BY <1>0, <1>10, StoreFacts, RenewerQuiet DEF NoNewWork, Working, OnlyMoves, KeepsClaim, Failing
<1>11. ASSUME NEW w \in Workers, Rollout(w) PROVE RenewerInv'
  BY <1>0, <1>11, RolloutFacts, RenewerQuiet DEF NoNewWork, Working, OnlyMoves, KeepsClaim
\* A goroutine that settles its job lets go of it, and no other one is at it.
<1>12. ASSUME NEW w \in Workers, CompleteRenewalJob(w) \/ DeferRenewalJob(w) PROVE RenewerInv'
  <2> DEFINE j == worker[w].job
  <2>1. /\ j \in Jobs /\ Working(w) /\ worker[w].outcome \in {"PENDING", "SUCCEEDED", "CANCELLED"}
    BY <1>12, HolderTypes DEF CompleteRenewalJob, DeferRenewalJob, Working, WorkerState
  <2>2. /\ OtherRowsKept(j) /\ LetsGo(w) /\ exists' = exists
        /\ \/ jobs' = jobs
           \/ /\ RowExists(j) /\ KeepsRow(j, jobs'[j])
              /\ jobs'[j].status \in {"PENDING", "SUCCEEDED", "CANCELLED"}
    BY <1>12, <2>1, CompleteFacts, DeferFacts
  <2>3. NoNewWork /\ \A v \in Workers : Working(v)' => v # w /\ worker'[v] = worker[v] /\ Working(v)
    BY <2>2 DEF NoNewWork, Working, LetsGo, OnlyMoves, IdleWorker
  <2>4. RowsFollowRecord'
    BY <2>1, <2>2 DEF RenewerInv, RowsFollowRecord, OtherRowsKept, RowExists, KeepsRow
  <2>5. \A v \in Workers : Reliable /\ Working(v)' => worker[v].job \in Jobs \ {j}
    BY <2>1, <2>3 DEF HolderInv, TypeInv, HoldersNamed, Working
  <2>6. SoleRenewer'
    BY <1>0, <2>2, <2>3, <2>5, SoleKept DEF RenewerInv, OtherRowsKept
  <2> QED BY <2>4, <2>6 DEF RenewerInv
<1>13. ASSUME NEW w \in Workers, Announce(w) PROVE RenewerInv'
  BY <1>0, <1>13, AnnounceFacts, RenewerQuiet DEF NoNewWork, Working, OnlyMoves, IdleWorker
<1>14. ASSUME NEW j \in Jobs, OtherRowsKept(j), KeepsRow(j, jobs'[j]), exists' = exists, worker' = worker,
              jobs[j].status \in {"PENDING", "RUNNING"}, jobs'[j].status = jobs[j].status
       PROVE  RenewerInv'
  <2>1. RowsFollowRecord'
    BY <1>14 DEF RenewerInv, RowsFollowRecord, OtherRowsKept, KeepsRow
  <2>2. SoleRenewer'
    BY <1>0, <1>14, SoleKept DEF RenewerInv, OtherRowsKept, KeepsRow, NoNewWork, Working, TypeInv, HoldersNamed
  <2> QED BY <2>1, <2>2 DEF RenewerInv
<1>15. ASSUME NEW w \in Workers, ExtendRenewalLease(w) PROVE RenewerInv'
  BY <1>14, <1>15, ExtendFacts
<1>16. ASSUME NEW j \in Jobs, BecomeDue(j) PROVE RenewerInv'
  BY <1>14, <1>16, DueFacts
<1>17. ASSUME NEW j \in Jobs, LeaseLapses(j) PROVE RenewerInv'
  BY <1>14, <1>17, LapseFacts
<1>18. ASSUME NEW j \in Jobs, CancelRenewalJob(j) PROVE RenewerInv'
  <2>1. RowsFollowRecord'
    BY <1>18, CancelFacts DEF RenewerInv, RowsFollowRecord, OtherRowsKept, KeepsRow, Outstanding
  <2>2. ~Undisturbed'
    BY <1>18, CancelFacts DEF Undisturbed, Without, Upset
  <2> QED BY <2>1, <2>2 DEF RenewerInv, SoleRenewer
<1>19. ASSUME NEW j \in Jobs, AgeOut(j) PROVE RenewerInv'
  BY <1>0, <1>19, RenewerQuiet DEF AgeOut, NoNewWork, Working
<1>20. ASSUME NEW d \in Certs, DeleteCertificate(d) PROVE RenewerInv'
  <2>1. \A j \in Jobs : jobs[j].status # "FREE" => jobs[j].cert \in Certs
    BY DEF TypeInv, TypeOK, RowsNamed, JobRow
  <2>2. RowsFollowRecord'
    BY <1>20, <2>1, DeleteFacts DEF RenewerInv, RowsFollowRecord, KeepsRow, TypeInv, TypeOK, RowsNamed
  <2>3. SoleRenewer'
    BY <1>0, <1>20, DeleteFacts, SoleKept DEF RenewerInv, KeepsRow, NoNewWork, Working, TypeInv, HoldersNamed
  <2> QED BY <2>2, <2>3 DEF RenewerInv
<1>21. ASSUME UNCHANGED vars PROVE RenewerInv'
  BY <1>0, <1>21, RenewerQuiet DEF vars, NoNewWork, Working
<1> QED
  BY <1>1, <1>2, <1>3, <1>4, <1>5, <1>6, <1>7, <1>8, <1>9, <1>10, <1>11, <1>12, <1>13,
     <1>15, <1>16, <1>17, <1>18, <1>19, <1>20, <1>21
     DEF Next, WorkerStep

-----------------------------------------------------------------------------
(* The crash guard *)

\* Certificates are numbered as the CA signs them. While a certificate has one
\* renewer its fingerprint only grows, so what was read of it before is not newer.
FingerprintsGrow ==
    /\ \A c \in Certs : fp[c] <= issued
    /\ \A r \in Replicas : scan[r].cert # NoOne => scan[r].fp <= fp[scan[r].cert]
    /\ \A j \in Jobs : jobs[j].status # "FREE" => jobs[j].fp <= fp[jobs[j].cert]

\* A job that has stored a certificate can be told by the fingerprint: this is what
\* the crash guard looks at.
StoredShows ==
    \A j \in Jobs : /\ stored[j] <= 1
                    /\ stored[j] > 0 =>
                         /\ jobs[j].status # "FREE"
                         /\ exists[jobs[j].cert] => jobs[j].fp < fp[jobs[j].cert]

\* What a goroutine has read is still so: it is past the guard only with a job that
\* has stored nothing, and the certificate it is about to store is the newest.
Attempt(w) ==
    LET j == worker[w].job
        c == jobs[j].cert
    IN  /\ worker[w].fp = jobs[j].fp
        /\ worker[w].pc \in {"read", "call", "refused", "store"} => stored[j] = 0
        /\ worker[w].pc \in {"call", "refused", "store"} /\ exists[c] => worker[w].copy = fp[c]
        /\ worker[w].pc = "store" => fp[c] < worker[w].new /\ worker[w].new <= issued
        /\ worker[w].pc = "rollout" /\ exists[c] => fp[c] = worker[w].new

GuardInv ==
    Undisturbed => /\ FingerprintsGrow
                   /\ StoredShows
                   /\ \A w \in Workers : Working(w) => Attempt(w)

LEMMA InitGuard == Init => GuardInv
<1> SUFFICES ASSUME Init PROVE GuardInv
  OBVIOUS
<1>1. \A j \in Jobs : jobs[j].status # "FREE" => jobs[j].cert \in Certs /\ jobs[j].fp = 0
  BY DEF Init, FreeRow, QueuedRow
<1> QED BY <1>1 DEF Init, GuardInv, FingerprintsGrow, StoredShows, Working, IdleWorker, NoScan

\* The rows keep what the guard compares, and certificates are not created.
GuardRowsKept ==
    /\ \A j \in Jobs : /\ jobs'[j].cert = jobs[j].cert /\ jobs'[j].fp = jobs[j].fp
                       /\ jobs'[j].status = "FREE" <=> jobs[j].status = "FREE"
    /\ \A c \in Certs : exists'[c] => exists[c]
    /\ \A r \in Replicas : scan'[r].cert # NoOne => scan'[r] = scan[r]
    /\ issued' \in {issued, issued + 1}

\* Certificates of rows in use, and numbers, have their types.
LEMMA GuardTypes ==
    ASSUME TypeInv
    PROVE  /\ \A j \in Jobs : /\ jobs[j].fp \in Nat /\ stored[j] \in 0..2
                              /\ jobs[j].status # "FREE" => jobs[j].cert \in Certs
           /\ \A c \in Certs : fp[c] \in Nat
           /\ \A r \in Replicas : scan[r].fp \in Nat /\ scan[r].cert \in Certs \cup {NoOne}
           /\ issued \in Nat
           /\ \A w \in Workers : /\ worker[w].new \in Nat /\ worker[w].copy \in Nat
                                 /\ Working(w) => /\ worker[w].job \in Jobs
                                                  /\ jobs[worker[w].job].status # "FREE"
BY DEF TypeInv, TypeOK, RowsNamed, HoldersNamed, JobRow, ScanState, WorkerState, Working

LEMMA GrowKept ==
    ASSUME TypeInv, FingerprintsGrow, GuardRowsKept, fp' = fp PROVE FingerprintsGrow'
BY GuardTypes DEF FingerprintsGrow, GuardRowsKept

LEMMA StoredKept ==
    ASSUME TypeInv, StoredShows, GuardRowsKept, fp' = fp, stored' = stored PROVE StoredShows'
BY GuardTypes DEF StoredShows, GuardRowsKept

\* A goroutine that stands still, while its own job and certificate are left alone.
LEMMA AttemptKept ==
    ASSUME TypeInv, GuardRowsKept, NEW v \in Workers, Working(v), Attempt(v),
           worker'[v] = worker[v], fp'[CertOf(v)] = fp[CertOf(v)],
           stored'[worker[v].job] = stored[worker[v].job]
    PROVE  Attempt(v)'
BY GuardTypes DEF Attempt, GuardRowsKept, CertOf

\* Steps that leave fingerprints alone and move one goroutine.
LEMMA GuardQuiet ==
    ASSUME TypeInv, GuardInv, GuardRowsKept, Undisturbed' => Undisturbed,
           fp' = fp, stored' = stored, NEW w, OnlyMoves(w),
           w \in Workers /\ Undisturbed /\ Undisturbed' /\ Working(w)' => Attempt(w)'
    PROVE  GuardInv'
<1> SUFFICES ASSUME Undisturbed', Undisturbed
             PROVE  /\ FingerprintsGrow' /\ StoredShows'
                    /\ \A v \in Workers : Working(v)' => Attempt(v)'
  BY DEF GuardInv
<1>1. FingerprintsGrow' /\ StoredShows'
  BY GrowKept, StoredKept DEF GuardInv
<1>2. ASSUME NEW v \in Workers, v # w, Working(v)' PROVE Attempt(v)'
  BY <1>2, AttemptKept DEF GuardInv, OnlyMoves, Working, CertOf
<1> QED BY <1>1, <1>2

\* Every action keeps GuardInv.
LEMMA GuardStep ==
    /\ TypeInv /\ LockInv /\ HolderInv /\ RenewerInv /\ GuardInv /\ [Next]_vars
    => GuardInv'
<1> SUFFICES ASSUME TypeInv, HolderInv, RenewerInv, GuardInv, [Next]_vars
             PROVE  GuardInv'
  OBVIOUS
<1>0. (Undisturbed' => Undisturbed) /\ (Undisturbed => Reliable)
  BY UndisturbedBefore
<1>1. ASSUME NEW r \in Replicas, NEW c \in Certs, ReadForEnqueue(r, c) PROVE GuardInv'
  <2>1. /\ scan'[r].cert = c /\ scan'[r].fp = fp[c]
        /\ \A s \in Replicas \ {r} : scan'[s] = scan[s]
        /\ UNCHANGED <<jobs, exists, fp, worker, issued, stored>>
    BY <1>1 DEF ReadForEnqueue, TypeInv, TypeOK, ScanState
  <2> QED BY <1>0, <2>1, GuardTypes DEF GuardInv, FingerprintsGrow, StoredShows, Attempt, Working
<1>2. ASSUME NEW r \in Replicas, NEW j \in Jobs, EnqueueRenewal(r, j) PROVE GuardInv'
  <2> DEFINE c == scan[r].cert
  <2>0. /\ UNCHANGED <<exists, fp, worker, issued, stored>>
        /\ jobs[j].status = "FREE" /\ OtherRowsKept(j)
        /\ scan'[r].cert = NoOne /\ \A s \in Replicas \ {r} : scan'[s] = scan[s]
        /\ \/ jobs' = jobs
           \/ /\ c \in Certs /\ jobs'[j].status = "PENDING"
              /\ jobs'[j].cert = c /\ jobs'[j].fp = scan[r].fp
    BY <1>2, EnqueueFacts
  <2>1. \A w \in Workers : Working(w) => worker[w].job \in Jobs \ {j}
    BY <2>0, GuardTypes
  <2> SUFFICES ASSUME Undisturbed PROVE FingerprintsGrow' /\ StoredShows' /\ \A w \in Workers : Working(w)' => Attempt(w)'
    BY <1>0 DEF GuardInv
  <2>2. FingerprintsGrow' /\ StoredShows'
    BY <2>0, GuardTypes, ConstantsAssumption DEF GuardInv, FingerprintsGrow, StoredShows, OtherRowsKept
  <2>3. ASSUME NEW w \in Workers, Working(w)' PROVE Attempt(w)'
    BY <2>0, <2>1, <2>3 DEF GuardInv, Attempt, Working, OtherRowsKept
  <2> QED BY <2>2, <2>3
<1>3. ASSUME NEW r \in Replicas, Crash(r) PROVE GuardInv'
  <2>1. GuardRowsKept
    BY <1>3, CrashFacts DEF GuardRowsKept, NoScan
  <2>2. \A w \in Workers : Working(w)' => worker'[w] = worker[w] /\ Working(w)
    BY <1>3, CrashFacts DEF Working, IdleWorker
  <2> QED BY <1>0, <1>3, <2>1, <2>2, CrashFacts, GrowKept, StoredKept, AttemptKept DEF GuardInv, CertOf
<1>4. ASSUME NEW w \in Workers, NEW j \in Jobs, ClaimRenewalJob(w, j) PROVE GuardInv'
  <2>1. GuardRowsKept
    BY <1>4, ClaimFacts, GuardTypes DEF GuardRowsKept, OtherRowsKept, KeepsRow, Outstanding
  <2>2. Attempt(w)'
    BY <1>4, ClaimFacts DEF Attempt, KeepsRow
  <2> QED BY <1>0, <1>4, <2>1, <2>2, ClaimFacts, GuardQuiet
\* Past the guard: the fingerprint has not moved, so the job has stored nothing.
<1>5. ASSUME NEW w \in Workers, Check(w) PROVE GuardInv'
  <2>1. GuardRowsKept
    BY <1>5, CheckFacts DEF GuardRowsKept
  <2>2. ASSUME Undisturbed PROVE Attempt(w)'
    <3>1. /\ worker[w].fp = jobs[worker[w].job].fp /\ worker[w].job \in Jobs
          /\ stored[worker[w].job] \in 0..2 /\ jobs[worker[w].job].fp \in Nat
          /\ stored[worker[w].job] > 0 /\ exists[CertOf(w)] => jobs[worker[w].job].fp < fp[CertOf(w)]
      BY <1>5, <2>2, CheckFacts, GuardTypes DEF GuardInv, Attempt, StoredShows, CertOf, Working
    <3>2. worker'[w].pc = "read" => stored[worker[w].job] = 0
      BY <1>5, <3>1, CheckFacts
    <3> QED BY <1>5, <3>1, <3>2, CheckFacts DEF Attempt, KeepsClaim
  <2> QED BY <1>0, <1>5, <2>1, <2>2, CheckFacts, GuardQuiet
<1>6. ASSUME NEW w \in Workers, ReadCertificate(w) PROVE GuardInv'
  <2>1. GuardRowsKept
    BY <1>6, ReadFacts DEF GuardRowsKept
  <2>2. ASSUME Undisturbed PROVE Attempt(w)'
    BY <1>6, <2>2, ReadFacts DEF GuardInv, Attempt, KeepsClaim, Failing, CertOf, Working
  <2> QED BY <1>0, <1>6, <2>1, <2>2, ReadFacts, GuardQuiet DEF Failing
<1>7. ASSUME NEW w \in Workers, CallAccepted(w) PROVE GuardInv'
  <2>1. GuardRowsKept
    BY <1>7, AcceptFacts DEF GuardRowsKept
  <2>2. ASSUME Undisturbed PROVE Attempt(w)'
    <3>1. Attempt(w) /\ CertOf(w) \in Certs /\ fp[CertOf(w)] <= issued
      BY <1>7, <2>2, AcceptFacts, GuardTypes DEF GuardInv, FingerprintsGrow, Working, CertOf
    <3> QED BY <1>7, <3>1, AcceptFacts, GuardTypes DEF Attempt, KeepsClaim, CertOf
  <2> QED BY <1>0, <1>7, <2>1, <2>2, AcceptFacts, GuardQuiet
<1>8. ASSUME NEW w \in Workers, CallFailed(w) PROVE GuardInv'
  <2>1. GuardRowsKept
    BY <1>8, CallFailedFacts DEF GuardRowsKept
  <2>2. ASSUME Undisturbed PROVE Attempt(w)'
    BY <1>8, <2>2, CallFailedFacts DEF GuardInv, Attempt, KeepsClaim, Working
  <2> QED BY <1>0, <1>8, <2>1, <2>2, CallFailedFacts, GuardQuiet
\* The failure is written over the record as read: nobody has renewed it since.
<1>9. ASSUME NEW w \in Workers, RecordFailure(w) PROVE GuardInv'
  <2>1. GuardRowsKept
    BY <1>9, RecordFailureFacts DEF GuardRowsKept
  <2>2. ASSUME Undisturbed PROVE Attempt(w)' /\ fp' = fp
    <3>1. Attempt(w) /\ CertOf(w) \in Certs
      BY <1>9, <2>2, RecordFailureFacts, GuardTypes DEF GuardInv, Working, CertOf
    <3>2. fp' = fp
      BY <1>9, <3>1, RecordFailureFacts DEF Attempt, CertOf, TypeInv, TypeOK
    <3> QED BY <1>9, <3>1, <3>2, RecordFailureFacts DEF Attempt, KeepsClaim, Failing
  <2> QED BY <1>0, <1>9, <2>1, <2>2, RecordFailureFacts, GuardQuiet DEF Failing, GuardInv
<1>10. ASSUME NEW w \in Workers, StoreCertificate(w) PROVE GuardInv'
  <2> DEFINE j == worker[w].job
             c == CertOf(w)
  <2>0. GuardRowsKept /\ Working(w) /\ j \in Jobs /\ c \in Certs /\ jobs[j].status # "FREE"
    BY <1>10, StoreFacts, GuardTypes DEF GuardRowsKept, Working, CertOf
  <2>1. CASE Failing(w) /\ UNCHANGED <<fp, stored>>
    <3>1. ASSUME Undisturbed PROVE Attempt(w)'
      BY <1>10, <2>0, <2>1, <3>1, StoreFacts DEF GuardInv, Attempt, KeepsClaim, Failing
    <3> QED BY <1>0, <2>0, <2>1, <3>1, GuardQuiet DEF Failing
  <2>2. CASE /\ OnlyMoves(w) /\ KeepsClaim(w)
             /\ worker'[w].pc = "rollout" /\ worker'[w].new = worker[w].new
             /\ fp' = IF exists[c] THEN [fp EXCEPT ![c] = worker[w].new] ELSE fp
             /\ stored' = [stored EXCEPT ![j] = Twice(@)]
    <3> SUFFICES ASSUME Undisturbed PROVE FingerprintsGrow' /\ StoredShows' /\ \A v \in Workers : Working(v)' => Attempt(v)'
      BY <1>0 DEF GuardInv
    <3>1. /\ FingerprintsGrow /\ StoredShows /\ Attempt(w)
          /\ stored[j] = 0 /\ fp[c] < worker[w].new /\ worker[w].new <= issued
      BY <1>10, <2>0, StoreFacts DEF GuardInv, Attempt, CertOf
    <3>2. /\ \A d \in Certs : fp[d] <= fp'[d] /\ fp'[d] <= issued /\ fp'[d] \in Nat
          /\ \A d \in Certs \ {c} : fp'[d] = fp[d]
          /\ exists[c] => fp'[c] = worker[w].new
      BY <2>0, <2>2, <3>1, GuardTypes DEF FingerprintsGrow, TypeInv, TypeOK
    <3>3. stored'[j] = 1 /\ \A k \in Jobs \ {j} : stored'[k] = stored[k]
      BY <2>0, <2>2, <3>1 DEF Twice, TypeInv, TypeOK
    <3>4. UNCHANGED <<jobs, exists, scan, issued>>
      BY <1>10, StoreFacts
    <3>5. FingerprintsGrow'
      BY <3>1, <3>2, <3>4, GuardTypes DEF FingerprintsGrow
    <3>6. StoredShows'
      <4>1. ASSUME NEW k \in Jobs, k # j
            PROVE  /\ stored'[k] <= 1
                   /\ stored'[k] > 0 => /\ jobs'[k].status # "FREE"
                                        /\ exists'[jobs'[k].cert] => jobs'[k].fp < fp'[jobs'[k].cert]
        BY <3>1, <3>2, <3>3, <3>4, <4>1, GuardTypes DEF StoredShows
      <4>2. jobs[j].fp <= fp[c]
        BY <2>0, <3>1 DEF FingerprintsGrow, CertOf
      <4>3. exists[c] => jobs[j].fp < fp'[c]
        BY <2>0, <3>1, <3>2, <4>2, GuardTypes
      <4> QED BY <2>0, <3>3, <3>4, <4>1, <4>3 DEF StoredShows, CertOf
    <3>7. ASSUME NEW v \in Workers, v # w, Working(v)' PROVE Attempt(v)'
      <4>1. Working(v) /\ worker'[v] = worker[v] /\ Attempt(v) /\ worker[v].job \in Jobs /\ CertOf(v) \in Certs
        BY <2>2, <3>7, GuardTypes DEF OnlyMoves, Working, GuardInv, CertOf
      <4>2. CertOf(v) # c /\ worker[v].job # j
        BY <2>0, <3>7, <4>1 DEF RenewerInv, SoleRenewer, CertOf
      <4> QED BY <2>0, <3>2, <3>3, <4>1, <4>2, AttemptKept
    <3>8. Attempt(w)'
      BY <2>2, <3>1, <3>2, <3>4 DEF Attempt, KeepsClaim, CertOf
    <3> QED BY <3>5, <3>6, <3>7, <3>8
  <2> QED BY <1>10, <2>1, <2>2, StoreFacts
<1>11. ASSUME NEW w \in Workers, Rollout(w) PROVE GuardInv'
  <2>1. GuardRowsKept
    BY <1>11, RolloutFacts DEF GuardRowsKept
  <2>2. ASSUME Undisturbed PROVE Attempt(w)'
    BY <1>11, <2>2, RolloutFacts DEF GuardInv, Attempt, KeepsClaim, Working
  <2> QED BY <1>0, <1>11, <2>1, <2>2, RolloutFacts, GuardQuiet
<1>12. ASSUME NEW w \in Workers, CompleteRenewalJob(w) \/ DeferRenewalJob(w) PROVE GuardInv'
  <2>1. /\ worker[w].job \in Jobs /\ jobs[worker[w].job].status # "FREE"
        /\ worker[w].outcome # "FREE"
    BY <1>12, HolderTypes DEF CompleteRenewalJob, DeferRenewalJob, WorkerState
  <2>2. GuardRowsKept
    BY <1>12, <2>1, CompleteFacts, DeferFacts DEF GuardRowsKept, OtherRowsKept, KeepsRow
  <2>3. ~Working(w)' /\ OnlyMoves(w)
    BY <1>12, CompleteFacts, DeferFacts DEF LetsGo, Working, IdleWorker
  <2> QED BY <1>0, <1>12, <2>2, <2>3, CompleteFacts, DeferFacts, GuardQuiet
<1>13. ASSUME NEW w \in Workers, Announce(w) PROVE GuardInv'
  <2>1. GuardRowsKept /\ ~Working(w)'
    BY <1>13, AnnounceFacts DEF GuardRowsKept, Working, IdleWorker
  <2> QED BY <1>0, <1>13, <2>1, AnnounceFacts, GuardQuiet
<1>14. ASSUME UNCHANGED <<fp, stored, worker>>, GuardRowsKept PROVE GuardInv'
  BY <1>0, <1>14, GrowKept, StoredKept, AttemptKept DEF GuardInv, CertOf, Working
<1>15. ASSUME NEW w \in Workers, ExtendRenewalLease(w) PROVE GuardInv'
  <2>1. GuardRowsKept
    BY <1>15, ExtendFacts DEF GuardRowsKept, OtherRowsKept, KeepsRow
  <2> QED BY <1>14, <1>15, <2>1, ExtendFacts
<1>16. ASSUME NEW j \in Jobs, BecomeDue(j) \/ LeaseLapses(j) PROVE GuardInv'
  <2>1. GuardRowsKept /\ UNCHANGED <<fp, stored, worker>>
    BY <1>16, DueFacts, LapseFacts DEF GuardRowsKept, OtherRowsKept, KeepsRow
  <2> QED BY <1>14, <2>1
<1>17. ASSUME NEW j \in Jobs, CancelRenewalJob(j) PROVE GuardInv'
  BY <1>17, CancelFacts DEF GuardInv, Undisturbed, Without, Upset
<1>18. ASSUME NEW j \in Jobs, AgeOut(j) PROVE GuardInv'
  BY <1>14, <1>18 DEF AgeOut, GuardRowsKept
<1>19. ASSUME NEW d \in Certs, DeleteCertificate(d) PROVE GuardInv'
  <2>1. GuardRowsKept
    BY <1>19, DeleteFacts, ConstantsAssumption DEF GuardRowsKept, KeepsRow, TypeInv, TypeOK, RowsNamed
  <2> QED BY <1>14, <1>19, <2>1, DeleteFacts
<1>20. ASSUME UNCHANGED vars PROVE GuardInv'
  BY <1>14, <1>20 DEF vars, GuardRowsKept
<1> QED
  BY <1>1, <1>2, <1>3, <1>4, <1>5, <1>6, <1>7, <1>8, <1>9, <1>10, <1>11, <1>12, <1>13,
     <1>15, <1>16, <1>17, <1>18, <1>19, <1>20
     DEF Next, WorkerStep

-----------------------------------------------------------------------------
(* Nothing left behind *)

\* The proviso of NothingLeftBehind.
Untroubled == Undisturbed /\ Without({"crash", "rollout"})

\* A failed renewal writes back the fingerprint the record still has.
LEMMA FailureKeepsFingerprint ==
    ASSUME TypeInv, GuardInv, Undisturbed, NEW w \in Workers, RecordFailure(w)
    PROVE  fp' = fp
<1>1. Attempt(w) /\ CertOf(w) \in Certs
  BY RecordFailureFacts, GuardTypes DEF GuardInv, Working, CertOf
<1> QED BY <1>1, RecordFailureFacts DEF Attempt, CertOf, TypeInv, TypeOK

\* Steps that touch neither fingerprints nor roll-outs nor a goroutine about to
\* roll out.
LEMMA LeftKept ==
    ASSUME NothingLeftBehind, Untroubled' => Untroubled, fp' = fp, rolledOut' = rolledOut,
           \A c \in Certs : exists'[c] => exists[c],
           \A w \in Workers : worker[w].pc = "rollout" =>
               /\ worker'[w] = worker[w]
               /\ jobs'[worker[w].job].cert = jobs[worker[w].job].cert
    PROVE  NothingLeftBehind'
BY DEF NothingLeftBehind, Untroubled

\* Every action keeps NothingLeftBehind.
LEMMA LeftStep ==
    /\ TypeInv /\ HolderInv /\ RenewerInv /\ GuardInv /\ NothingLeftBehind /\ [Next]_vars
    => NothingLeftBehind'
<1> SUFFICES ASSUME TypeInv, HolderInv, RenewerInv, GuardInv, NothingLeftBehind, [Next]_vars
             PROVE  NothingLeftBehind'
  OBVIOUS
<1>0. /\ Untroubled' => Untroubled
      /\ \A w \in Workers : worker[w].pc = "rollout" =>
            /\ worker[w].job \in Jobs /\ CertOf(w) \in Certs /\ Working(w)
            /\ jobs[worker[w].job].status # "FREE"
  BY WithoutBefore, HolderTypes DEF Untroubled, Undisturbed, CertOf, Working
<1>1. ASSUME NEW r \in Replicas, NEW c \in Certs, ReadForEnqueue(r, c) PROVE NothingLeftBehind'
  BY <1>0, <1>1, LeftKept DEF ReadForEnqueue
<1>2. ASSUME NEW r \in Replicas, NEW j \in Jobs, EnqueueRenewal(r, j) PROVE NothingLeftBehind'
  <2>2. /\ exists' = exists /\ fp' = fp /\ worker' = worker /\ rolledOut' = rolledOut
        /\ jobs[j].status = "FREE" /\ OtherRowsKept(j)
    BY <1>2, EnqueueFacts
  <2>1. \A w \in Workers : worker[w].pc = "rollout" => worker[w].job \in Jobs \ {j}
    BY <1>0, <2>2
  <2> QED BY <1>0, <2>1, <2>2, LeftKept DEF OtherRowsKept
<1>3. ASSUME NEW r \in Replicas, Crash(r) PROVE NothingLeftBehind'
  BY <1>3, CrashFacts DEF NothingLeftBehind, Without, Upset
<1>4. ASSUME NEW w \in Workers, NEW j \in Jobs, ClaimRenewalJob(w, j) PROVE NothingLeftBehind'
  BY <1>0, <1>4, ClaimFacts, LeftKept DEF OtherRowsKept, KeepsRow, OnlyMoves
<1>5. ASSUME NEW w \in Workers,
             Check(w) \/ ReadCertificate(w) \/ CallAccepted(w) \/ CallFailed(w)
      PROVE  NothingLeftBehind'
  BY <1>0, <1>5, CheckFacts, ReadFacts, AcceptFacts, CallFailedFacts, LeftKept
     DEF OnlyMoves, Failing
<1>6. ASSUME NEW w \in Workers, RecordFailure(w) PROVE NothingLeftBehind'
  <2>1. CASE Undisturbed
    BY <1>0, <1>6, <2>1, FailureKeepsFingerprint, RecordFailureFacts, LeftKept DEF OnlyMoves, Failing
  <2> QED BY <1>0, <2>1 DEF NothingLeftBehind, Untroubled
\* The goroutine that stores a certificate is the one about to roll it out.
<1>7. ASSUME NEW w \in Workers, StoreCertificate(w) PROVE NothingLeftBehind'
  <2>0. /\ UNCHANGED <<jobs, exists, rolledOut>> /\ worker[w].pc = "store" /\ OnlyMoves(w)
        /\ CertOf(w) \in Certs
    BY <1>7, StoreFacts, HolderTypes DEF Failing, CertOf
  <2>1. CASE fp' = fp
    BY <1>0, <2>0, <2>1, LeftKept DEF OnlyMoves
  <2>2. CASE /\ KeepsClaim(w) /\ worker'[w].pc = "rollout" /\ worker'[w].new = worker[w].new
             /\ fp' = [fp EXCEPT ![CertOf(w)] = worker[w].new]
    <3> SUFFICES ASSUME Untroubled', NEW c \in Certs, exists'[c], fp'[c] # rolledOut'[c]
                 PROVE  \E v \in Workers : /\ worker'[v].pc = "rollout" /\ worker'[v].new = fp'[c]
                                           /\ jobs'[worker'[v].job].cert = c
      BY DEF NothingLeftBehind, Untroubled
    <3>1. CASE c = CertOf(w)
      BY <2>0, <2>2, <3>1 DEF KeepsClaim, CertOf, TypeInv, TypeOK
    <3>2. CASE c # CertOf(w)
      <4>1. fp'[c] = fp[c]
        BY <2>2, <3>2 DEF TypeInv, TypeOK
      <4>2. PICK v \in Workers : /\ worker[v].pc = "rollout" /\ worker[v].new = fp[c]
                                 /\ jobs[worker[v].job].cert = c
        BY <1>0, <2>0, <4>1 DEF NothingLeftBehind, Untroubled
      <4> QED BY <2>0, <4>1, <4>2 DEF OnlyMoves
    <3> QED BY <3>1, <3>2
  <2> QED BY <1>7, <2>1, <2>2, StoreFacts
\* What is rolled out is what the record holds, and no other goroutine was about
\* to roll out the same certificate.
<1>8. ASSUME NEW w \in Workers, Rollout(w) PROVE NothingLeftBehind'
  <2>0. /\ UNCHANGED <<jobs, exists, fp>> /\ worker[w].pc = "rollout" /\ OnlyMoves(w)
        /\ CertOf(w) \in Certs /\ Working(w)
    BY <1>0, <1>8, RolloutFacts
  <2>1. CASE Upset("rollout")
    BY <2>1 DEF NothingLeftBehind, Without, Upset
  <2>2. CASE rolledOut' = [rolledOut EXCEPT ![CertOf(w)] = worker[w].new]
    <3> SUFFICES ASSUME Untroubled', NEW c \in Certs, exists'[c], fp'[c] # rolledOut'[c]
                 PROVE  \E v \in Workers : /\ worker'[v].pc = "rollout" /\ worker'[v].new = fp'[c]
                                           /\ jobs'[worker'[v].job].cert = c
      BY DEF NothingLeftBehind, Untroubled
    <3>1. c # CertOf(w)
      BY <1>0, <2>0, <2>2 DEF GuardInv, Attempt, CertOf, TypeInv, TypeOK, Untroubled
    <3>2. rolledOut'[c] = rolledOut[c]
      BY <2>2, <3>1 DEF TypeInv, TypeOK
    <3>3. PICK v \in Workers : /\ worker[v].pc = "rollout" /\ worker[v].new = fp[c]
                               /\ jobs[worker[v].job].cert = c
      BY <1>0, <2>0, <3>2 DEF NothingLeftBehind, Untroubled
    <3> QED BY <2>0, <3>1, <3>3 DEF OnlyMoves, CertOf
  <2> QED BY <1>8, <2>1, <2>2, RolloutFacts
<1>9. ASSUME NEW w \in Workers, CompleteRenewalJob(w) \/ DeferRenewalJob(w) PROVE NothingLeftBehind'
  BY <1>0, <1>9, CompleteFacts, DeferFacts, HolderTypes, LeftKept
     DEF OtherRowsKept, KeepsRow, LetsGo, OnlyMoves
<1>10. ASSUME NEW w \in Workers, Announce(w) PROVE NothingLeftBehind'
  BY <1>0, <1>10, AnnounceFacts, LeftKept DEF OnlyMoves
<1>11. ASSUME NEW w \in Workers, ExtendRenewalLease(w) PROVE NothingLeftBehind'
  BY <1>0, <1>11, ExtendFacts, LeftKept DEF OtherRowsKept, KeepsRow
<1>12. ASSUME NEW j \in Jobs, BecomeDue(j) \/ LeaseLapses(j) \/ CancelRenewalJob(j)
       PROVE  NothingLeftBehind'
  BY <1>0, <1>12, DueFacts, LapseFacts, CancelFacts, LeftKept DEF OtherRowsKept, KeepsRow
<1>13. ASSUME NEW j \in Jobs, AgeOut(j) PROVE NothingLeftBehind'
  BY <1>0, <1>13, LeftKept DEF AgeOut
<1>14. ASSUME NEW d \in Certs, DeleteCertificate(d) PROVE NothingLeftBehind'
  <2>1. \A c \in Certs : exists'[c] => exists[c]
    BY <1>14, DeleteFacts DEF TypeInv, TypeOK
  <2> QED BY <1>0, <1>14, <2>1, DeleteFacts, LeftKept DEF KeepsRow
<1>15. ASSUME UNCHANGED vars PROVE NothingLeftBehind'
  BY <1>0, <1>15, LeftKept DEF vars
<1> QED
  BY <1>1, <1>2, <1>3, <1>4, <1>5, <1>6, <1>7, <1>8, <1>9, <1>10, <1>11, <1>12, <1>13,
     <1>14, <1>15
     DEF Next, WorkerStep

\* The facts of the executor together.
RenewalInv == /\ TypeInv /\ LockInv /\ HolderInv /\ RenewerInv /\ GuardInv
              /\ NothingLeftBehind

\* The executor's inductive invariant.
LEMMA RenewalInvariant == Spec => []RenewalInv
<1>1. Init => NothingLeftBehind
  BY DEF Init, NothingLeftBehind
<1>2. Init => RenewalInv
  BY <1>1, InitTypeInv, InitSafe, InitRenewer, InitGuard DEF RenewalInv
<1>3. RenewalInv /\ [Next]_vars => RenewalInv'
  BY TypeStep, SafeStep, RenewerStep, GuardStep, LeftStep DEF RenewalInv
<1> QED BY <1>2, <1>3, PTL DEF Spec

\* Migration 013's claim, for any number of replicas and workers: without lapsed
\* leases and cancellations no two goroutines renew one certificate at a time.
THEOREM SoleRenewerOfCertificate == Spec => []OneRenewerPerCertificate
<1>1. RenewalInv => OneRenewerPerCertificate
  BY DEF RenewalInv, RenewerInv, SoleRenewer, OneRenewerPerCertificate, Working
<1> QED BY <1>1, RenewalInvariant, PTL

\* execute's crash guard: a job replaces its certificate once, whatever number of
\* processes die between UpdateCertificate and CompleteRenewalJob.
THEOREM CrashGuard == Spec => []StoredOncePerJob
<1>1. RenewalInv => StoredOncePerJob
  BY DEF RenewalInv, GuardInv, StoredShows, StoredOncePerJob
<1> QED BY <1>1, RenewalInvariant, PTL

\* A certificate RenewCertificate stored is on its way to its targets, or in the
\* hands of the goroutine about to call EnqueueFor.
THEOREM RenewalsAreRolledOut == Spec => []NothingLeftBehind
<1>1. RenewalInv => NothingLeftBehind
  BY DEF RenewalInv
<1> QED BY <1>1, RenewalInvariant, PTL

-----------------------------------------------------------------------------
(* One alert per job *)

\* The proviso of AlertOncePerJob.
WritesLand == Reliable /\ Without({"complete"})

\* The escalation of j has been published, or a goroutine is about to.
Told(j) == alerts[j] > 0 \/ \E w \in Workers : worker[w].pc = "announce" /\ worker[w].job = j

\* What a goroutine read of escalated_at is no further than the row.
EscalationSeen ==
    \A w \in Workers : Working(w) /\ worker[w].escalated => jobs[worker[w].job].escalated

\* An escalation told shows in the row a later claim will read, and in what a
\* goroutine at work on the job has read already.
ToldShows ==
    \A j \in Jobs : Told(j) =>
        /\ jobs[j].status # "FREE"
        /\ Outstanding(j) => jobs[j].escalated
        /\ \A w \in Workers : Working(w) /\ worker[w].job = j => worker[w].escalated

\* One goroutine announces, and before anybody has.
OneAnnouncer ==
    /\ \A j \in Jobs : alerts[j] <= 1
    /\ \A w \in Workers : worker[w].pc = "announce" =>
         /\ alerts[worker[w].job] = 0
         /\ \A v \in Workers : worker[v].pc = "announce" /\ worker[v].job = worker[w].job
                                 => v = w

AlertInv == /\ EscalationSeen
            /\ WritesLand => ToldShows /\ OneAnnouncer

LEMMA InitAlert == Init => AlertInv
BY DEF Init, AlertInv, EscalationSeen, ToldShows, OneAnnouncer, Told, Working, IdleWorker

\* No goroutine starts to announce, and what the goroutines at work know of
\* escalations they knew before.
NoNewAlert ==
    /\ alerts' = alerts
    /\ \A v \in Workers : worker'[v].pc = "announce" => /\ worker[v].pc = "announce"
                                                       /\ worker'[v].job = worker[v].job
    /\ \A v \in Workers : Working(v)' => /\ Working(v) /\ worker'[v].job = worker[v].job
                                         /\ worker'[v].escalated = worker[v].escalated

\* Rows once inserted stay, and an escalation written stays.
EscalationsKept ==
    \A j \in Jobs : jobs[j].status # "FREE" => /\ jobs'[j].status # "FREE"
                                               /\ jobs[j].escalated => jobs'[j].escalated

LEMMA SeenKept ==
    ASSUME TypeInv, EscalationSeen, NoNewAlert, EscalationsKept PROVE EscalationSeen'
BY DEF EscalationSeen, NoNewAlert, EscalationsKept, TypeInv, HoldersNamed, Working

LEMMA AlertKept ==
    ASSUME TypeInv, AlertInv, NoNewAlert, EscalationsKept, WritesLand' => WritesLand,
           WritesLand => \A j \in Jobs : Told(j) /\ Outstanding(j)' => jobs'[j].escalated
    PROVE  AlertInv'
<1> SUFFICES ASSUME WritesLand PROVE ToldShows' /\ OneAnnouncer'
  BY SeenKept DEF AlertInv
<1>1. \A j \in Jobs : Told(j)' => Told(j)
  BY DEF Told, NoNewAlert
<1>2. ToldShows'
  BY <1>1 DEF AlertInv, ToldShows, NoNewAlert, EscalationsKept
<1>3. OneAnnouncer'
  BY DEF AlertInv, OneAnnouncer, NoNewAlert, TypeInv, HoldersNamed
<1> QED BY <1>2, <1>3

\* Steps that put no row back in the queue.
LEMMA AlertQuiet ==
    ASSUME TypeInv, AlertInv, NoNewAlert, EscalationsKept, WritesLand' => WritesLand,
           \A j \in Jobs : Outstanding(j)' => Outstanding(j)
    PROVE  AlertInv'
<1>1. WritesLand => \A j \in Jobs : Told(j) /\ Outstanding(j)' => jobs'[j].escalated
  BY DEF AlertInv, ToldShows, EscalationsKept
<1> QED BY <1>1, AlertKept

\* Every action keeps AlertInv.
LEMMA AlertStep ==
    TypeInv /\ LockInv /\ HolderInv /\ AlertInv /\ [Next]_vars => AlertInv'
<1> SUFFICES ASSUME TypeInv, LockInv, HolderInv, AlertInv, [Next]_vars PROVE AlertInv'
  OBVIOUS
<1>0. WritesLand' => WritesLand
  BY WithoutBefore DEF WritesLand, Reliable
<1>1. ASSUME jobs' = jobs, NoNewAlert PROVE AlertInv'
  BY <1>0, <1>1, AlertQuiet DEF EscalationsKept, Outstanding
<1>2. ASSUME NEW r \in Replicas, NEW j \in Jobs, EnqueueRenewal(r, j) PROVE AlertInv'
  <2>1. /\ worker' = worker /\ alerts' = alerts /\ jobs[j].status = "FREE" /\ OtherRowsKept(j)
    BY <1>2, EnqueueFacts
  <2>2. NoNewAlert /\ EscalationsKept
    BY <2>1 DEF NoNewAlert, EscalationsKept, OtherRowsKept, Working
  <2>3. WritesLand => ~Told(j)
    BY <2>1 DEF AlertInv, ToldShows
  <2>4. WritesLand => \A k \in Jobs : Told(k) /\ Outstanding(k)' => jobs'[k].escalated
    BY <2>1, <2>3 DEF AlertInv, ToldShows, OtherRowsKept, Outstanding
  <2> QED BY <1>0, <2>2, <2>4, AlertKept
<1>3. ASSUME NEW r \in Replicas, Crash(r) PROVE AlertInv'
  BY <1>1, <1>3, CrashFacts DEF NoNewAlert, Working, IdleWorker
\* A claim reads escalated_at, and an escalation told shows there.
<1>4. ASSUME NEW w \in Workers, NEW j \in Jobs, ClaimRenewalJob(w, j) PROVE AlertInv'
  <2>1. /\ alerts' = alerts /\ OnlyMoves(w) /\ worker[w].pc = "idle"
        /\ worker'[w].pc = "check" /\ worker'[w].job = j
        /\ worker'[w].escalated = jobs[j].escalated
        /\ Outstanding(j) /\ jobs'[j].status = "RUNNING" /\ KeepsRow(j, jobs'[j]) /\ OtherRowsKept(j)
    BY <1>4, ClaimFacts
  <2>2. EscalationsKept
    BY <2>1 DEF EscalationsKept, KeepsRow, OtherRowsKept
  <2>3. EscalationSeen'
    <3>1. \A v \in Workers : v # w /\ Working(v) => worker[v].job \in Jobs /\ jobs[worker[v].job].status # "FREE"
      BY DEF TypeInv, HoldersNamed, Working
    <3> QED BY <2>1, <2>2, <3>1 DEF AlertInv, EscalationSeen, OnlyMoves, KeepsRow, Working, EscalationsKept
  <2>4. \A k \in Jobs : (Told(k)' <=> Told(k)) /\ (Outstanding(k)' => Outstanding(k))
    BY <2>1 DEF Told, OnlyMoves, OtherRowsKept, Outstanding
  <2>5. WritesLand => ToldShows'
    BY <2>1, <2>2, <2>4 DEF AlertInv, ToldShows, OnlyMoves, EscalationsKept, Working
  <2>6. WritesLand => OneAnnouncer'
    BY <2>1 DEF AlertInv, OneAnnouncer, OnlyMoves
  <2> QED BY <1>0, <2>3, <2>5, <2>6 DEF AlertInv
<1>6. ASSUME NEW w \in Workers,
             \/ Check(w) \/ ReadCertificate(w) \/ CallAccepted(w) \/ CallFailed(w)
             \/ RecordFailure(w) \/ StoreCertificate(w) \/ Rollout(w)
      PROVE  AlertInv'
  <2>1. /\ jobs' = jobs /\ alerts' = alerts /\ OnlyMoves(w) /\ KeepsClaim(w) /\ Working(w)
        /\ worker'[w].pc # "announce"
    BY <1>6, CheckFacts, ReadFacts, AcceptFacts, CallFailedFacts, RecordFailureFacts,
       StoreFacts, RolloutFacts DEF Failing, Working
  <2> QED BY <1>1, <2>1 DEF NoNewAlert, OnlyMoves, KeepsClaim, Working
\* A goroutine goes on to announce only what the row did not show it: then nobody
\* has told, and from now on the row shows it, unless it is out of the queue.
<1>7. ASSUME NEW w \in Workers, CompleteRenewalJob(w) \/ DeferRenewalJob(w) PROVE AlertInv'
  <2> DEFINE j == worker[w].job
  <2>0. /\ j \in Jobs /\ jobs[j].status # "FREE" /\ Working(w)
        /\ worker[w].outcome \in {"PENDING", "SUCCEEDED", "CANCELLED"}
    BY <1>7, HolderTypes DEF CompleteRenewalJob, DeferRenewalJob, Working, WorkerState
  <2>1. /\ alerts' = alerts /\ LetsGo(w) /\ OtherRowsKept(j)
        /\ \/ jobs' = jobs /\ (Upset("complete") \/ ~RowExists(j) \/ ~IndexAllows(j, CertOf(w)))
           \/ /\ KeepsRow(j, jobs'[j]) /\ jobs'[j].status \in {"PENDING", "SUCCEEDED", "CANCELLED"}
              /\ worker'[w].pc = "announce" => jobs'[j].escalated
    BY <1>7, <2>0, CompleteFacts, DeferFacts
  <2>2. EscalationsKept
    BY <2>0, <2>1 DEF EscalationsKept, OtherRowsKept, KeepsRow
  <2>3. \A v \in Workers : Working(v)' => v # w /\ Working(v) /\ worker'[v] = worker[v]
    BY <2>1 DEF LetsGo, OnlyMoves, Working, IdleWorker
  <2>4. WritesLand => \A k \in Jobs : Told(k) /\ Outstanding(k)' => jobs'[k].escalated
    <3> SUFFICES ASSUME WritesLand, NEW k \in Jobs, Told(k), Outstanding(k)' PROVE jobs'[k].escalated
      OBVIOUS
    <3>1. CASE k # j
      BY <2>1, <3>1 DEF AlertInv, ToldShows, OtherRowsKept, Outstanding
    <3>2. CASE k = j
      <4>1. jobs[j].escalated
        BY <2>0, <3>2 DEF AlertInv, ToldShows, EscalationSeen
      <4> QED BY <2>0, <2>2, <3>2, <4>1 DEF EscalationsKept
    <3> QED BY <3>1, <3>2
  <2>5. CASE worker'[w] = IdleWorker
    <3>1. NoNewAlert
      BY <2>1, <2>3, <2>5 DEF NoNewAlert, LetsGo, OnlyMoves, IdleWorker
    <3> QED BY <1>0, <2>2, <2>4, <3>1, AlertKept
  <2>6. CASE KeepsClaim(w) /\ worker'[w].pc = "announce" /\ ~worker[w].escalated
    <3>1. EscalationSeen'
      BY <2>2, <2>3 DEF AlertInv, EscalationSeen, EscalationsKept, TypeInv, HoldersNamed, Working
    <3> SUFFICES ASSUME WritesLand', WritesLand PROVE ToldShows' /\ OneAnnouncer'
      BY <1>0, <3>1 DEF AlertInv
    <3>2. ~Told(j) /\ alerts[j] = 0
      BY <2>0, <2>6 DEF AlertInv, ToldShows, Told, TypeInv, TypeOK
    <3>3. \A k \in Jobs \ {j} : Told(k)' => Told(k)
      BY <2>1, <2>6 DEF Told, LetsGo, OnlyMoves, KeepsClaim
    <3>4. jobs'[j].status \in {"PENDING", "RUNNING"} => jobs'[j].escalated
      <4>1. ~Upset("complete")
        BY DEF WritesLand, Without, Upset
      <4>2. RowExists(j) /\ Outstanding(j) => IndexAllows(j, CertOf(w))
        BY <2>0 DEF LockInv, OneOutstandingPerCertificate, IndexAllows, CertOf
      <4>3. ~RowExists(j) => ~Outstanding(j)
        BY DEF RowExists, Outstanding
      <4>4. CASE jobs' = jobs /\ (~RowExists(j) \/ ~IndexAllows(j, CertOf(w)))
        BY <4>2, <4>3, <4>4 DEF Outstanding
      <4> QED BY <2>1, <2>6, <4>1, <4>4
    <3>5. \A v \in Workers : ~(Working(v)' /\ worker'[v].job = j)
      BY <2>0, <2>3 DEF HolderInv, WritesLand
    <3>6. ToldShows'
      <4>1. ASSUME NEW k \in Jobs, k # j, Told(k)'
            PROVE  /\ jobs'[k].status # "FREE" /\ (Outstanding(k)' => jobs'[k].escalated)
                   /\ \A v \in Workers : Working(v)' /\ worker'[v].job = k => worker'[v].escalated
        BY <2>2, <2>3, <2>4, <3>3, <4>1 DEF AlertInv, ToldShows, EscalationsKept
      <4>2. jobs'[j].status # "FREE"
        BY <2>0, <2>2 DEF EscalationsKept
      <4> QED BY <3>4, <3>5, <4>1, <4>2 DEF ToldShows, Outstanding
    <3>7. OneAnnouncer'
      BY <2>1, <2>6, <3>2 DEF AlertInv, OneAnnouncer, Told, LetsGo, OnlyMoves, KeepsClaim
    <3> QED BY <3>6, <3>7
  <2> QED BY <2>1, <2>5, <2>6 DEF LetsGo
<1>8. ASSUME NEW w \in Workers, Announce(w) PROVE AlertInv'
  <2> DEFINE j == worker[w].job
  <2>1. /\ jobs' = jobs /\ OnlyMoves(w) /\ worker[w].pc = "announce" /\ worker'[w] = IdleWorker
        /\ alerts' = [alerts EXCEPT ![j] = Twice(@)] /\ j \in Jobs
    BY <1>8, AnnounceFacts, HolderTypes
  <2>2. EscalationSeen'
    BY <2>1 DEF AlertInv, EscalationSeen, OnlyMoves, Working, IdleWorker
  <2> SUFFICES ASSUME WritesLand PROVE ToldShows' /\ OneAnnouncer'
    BY <1>0, <2>2 DEF AlertInv
  <2>3. alerts[j] = 0 /\ alerts'[j] = 1 /\ \A k \in Jobs \ {j} : alerts'[k] = alerts[k]
    BY <2>1 DEF AlertInv, OneAnnouncer, Twice, TypeInv, TypeOK
  <2>4. \A k \in Jobs : Told(k)' => Told(k)
    BY <2>1, <2>3 DEF Told, OnlyMoves, IdleWorker
  <2>5. ToldShows'
    BY <2>1, <2>4 DEF AlertInv, ToldShows, OnlyMoves, Working, IdleWorker, Outstanding
  <2>6. OneAnnouncer'
    BY <2>1, <2>3 DEF AlertInv, OneAnnouncer, OnlyMoves, IdleWorker, TypeInv, HoldersNamed
  <2> QED BY <2>5, <2>6
<1>9. ASSUME worker' = worker, alerts' = alerts,
             \A j \in Jobs : /\ jobs[j].status # "FREE" => KeepsRow(j, jobs'[j])
                             /\ jobs'[j].status = "FREE" => jobs[j].status = "FREE"
                             /\ Outstanding(j)' => Outstanding(j)
      PROVE  AlertInv'
  BY <1>0, <1>9, AlertQuiet DEF NoNewAlert, EscalationsKept, KeepsRow, Working
<1>10. ASSUME NEW w \in Workers, ExtendRenewalLease(w) PROVE AlertInv'
  BY <1>9, <1>10, ExtendFacts DEF OtherRowsKept, KeepsRow, Outstanding
<1>11. ASSUME NEW j \in Jobs, BecomeDue(j) \/ LeaseLapses(j) \/ CancelRenewalJob(j)
       PROVE  AlertInv'
  BY <1>9, <1>11, DueFacts, LapseFacts, CancelFacts DEF OtherRowsKept, KeepsRow, Outstanding
<1>12. ASSUME NEW d \in Certs, DeleteCertificate(d) PROVE AlertInv'
  BY <1>9, <1>12, DeleteFacts DEF KeepsRow, Outstanding
<1>13. CASE (\E r \in Replicas, c \in Certs : ReadForEnqueue(r, c)) \/ (\E j \in Jobs : AgeOut(j)) \/ UNCHANGED vars
  BY <1>1, <1>13 DEF NoNewAlert, ReadForEnqueue, AgeOut, vars, Working
<1> QED
  BY <1>2, <1>3, <1>4, <1>6, <1>7, <1>8, <1>10, <1>11, <1>12, <1>13
     DEF Next, WorkerStep

\* escalated_at keeps finish and deferForRateLimit from publishing the CRITICAL
\* event of one job twice, over all its attempts on all replicas.
THEOREM OneAlert == Spec => []AlertOncePerJob
<1>1. Init => TypeInv /\ LockInv /\ HolderInv /\ AlertInv
  BY InitTypeInv, InitSafe, InitAlert
<1>2. TypeInv /\ LockInv /\ HolderInv /\ AlertInv /\ [Next]_vars
      => (TypeInv /\ LockInv /\ HolderInv /\ AlertInv)'
  BY TypeStep, SafeStep, AlertStep
<1>3. AlertInv => AlertOncePerJob
  BY DEF AlertInv, OneAnnouncer, AlertOncePerJob, WritesLand
<1> QED BY <1>1, <1>2, <1>3, PTL DEF Spec

-----------------------------------------------------------------------------
(* The rate limit *)

\* No upset has been met.
Calm == Without(Upsets)

\* Successes counted in the window that stored a certificate.
Counted == {j \in window : stored[j] > 0}

\* With no upset a row is RUNNING exactly while a goroutine is at work on it, a job
\* stores only past the quota, and what stored is in one place: with the goroutine
\* or among the successes.
QuotaInv ==
    Calm =>
        /\ \A j \in window : jobs[j].status = "SUCCEEDED"
        /\ \A j \in Jobs :
             /\ stored[j] > 0 => jobs[j].status \in {"RUNNING", "SUCCEEDED"}
             /\ jobs[j].status = "RUNNING" => \E w \in Workers : Working(w) /\ worker[w].job = j
        /\ \A w \in Workers :
             /\ Working(w) => jobs[worker[w].job].status = "RUNNING"
             /\ worker[w].pc \in {"check", "read", "call", "refused", "store", "defer"}
                  => stored[worker[w].job] = 0
             /\ worker[w].pc = "finish" /\ worker[w].outcome # "SUCCEEDED"
                  => stored[worker[w].job] = 0

\* With no upset so far, heartbeats are on time and no step has met one.
LEMMA CalmFacts ==
    ASSUME TypeInv, [Next]_vars
    PROVE  Calm' => Calm /\ Reliable /\ \A class : ~Upset(class)
<1>1. Calm' => \A class : ~Upset(class)
  BY DEF Calm, Without, Upset
<1>2. Calm' => Calm
  BY WithoutBefore DEF Calm
<1>3. Calm => upsets.met = {}
  BY DEF Calm, Without, TypeInv, TypeOK
<1>4. Calm => Reliable
  BY <1>3 DEF Reliable, Without
<1> QED BY <1>1, <1>2, <1>4

LEMMA InitQuota == Init => QuotaInv
<1> SUFFICES ASSUME Init PROVE QuotaInv
  OBVIOUS
<1>1. ASSUME NEW j \in Jobs PROVE jobs[j].status \in {"FREE", "PENDING"} /\ stored[j] = 0
  BY DEF Init, FreeRow, QueuedRow
<1>2. ASSUME NEW w \in Workers PROVE worker[w].pc = "idle"
  BY DEF Init, IdleWorker
<1>3. window = {}
  BY DEF Init
<1> QED BY <1>1, <1>2, <1>3 DEF QuotaInv, Working

\* Steps that neither store nor take a job up or let one go, and leave the status
\* of every row alone.
LEMMA QuotaQuiet ==
    ASSUME TypeInv, QuotaInv, Calm' => Calm, stored' = stored, window' \subseteq window,
           \A j \in Jobs : jobs'[j].status = jobs[j].status,
           \A w \in Workers : /\ Working(w)' <=> Working(w)
                              /\ Working(w) => worker'[w].job = worker[w].job,
           \A w \in Workers :
               \/ worker'[w] = worker[w]
               \/ worker'[w].pc = "idle"
               \/ Working(w) /\ (Calm => stored[worker[w].job] = 0)
               \/ worker'[w].pc = "finish" /\ worker'[w].outcome = "SUCCEEDED"
    PROVE  QuotaInv'
<1> SUFFICES ASSUME Calm, Calm' PROVE QuotaInv'
  BY DEF QuotaInv
<1>1. \A j \in window' : jobs'[j].status = "SUCCEEDED"
  BY DEF QuotaInv, TypeInv, TypeOK
<1>2. \A j \in Jobs :
        /\ stored'[j] > 0 => jobs'[j].status \in {"RUNNING", "SUCCEEDED"}
        /\ jobs'[j].status = "RUNNING" => \E w \in Workers : Working(w)' /\ worker'[w].job = j
  BY DEF QuotaInv
<1>3. ASSUME NEW w \in Workers
      PROVE  /\ Working(w)' => jobs'[worker'[w].job].status = "RUNNING"
             /\ worker'[w].pc \in {"check", "read", "call", "refused", "store", "defer"}
                  => stored'[worker'[w].job] = 0
             /\ worker'[w].pc = "finish" /\ worker'[w].outcome # "SUCCEEDED"
                  => stored'[worker'[w].job] = 0
  <2>1. Working(w)' => jobs'[worker'[w].job].status = "RUNNING"
    BY DEF QuotaInv, TypeInv, HoldersNamed, Working
  <2> QED BY <2>1 DEF QuotaInv, Working
<1> QED BY <1>1, <1>2, <1>3 DEF QuotaInv

\* Every action keeps QuotaInv.
LEMMA QuotaStep ==
    TypeInv /\ LockInv /\ HolderInv /\ QuotaInv /\ [Next]_vars => QuotaInv'
<1> SUFFICES ASSUME TypeInv, LockInv, HolderInv, QuotaInv, [Next]_vars, Calm', Calm, Reliable,
                    \A class : ~Upset(class)
             PROVE  QuotaInv'
  BY CalmFacts DEF QuotaInv
<1>1. ASSUME NEW r \in Replicas, NEW j \in Jobs, EnqueueRenewal(r, j) PROVE QuotaInv'
  <2>0. /\ worker' = worker /\ window' = window /\ stored' = stored
        /\ jobs[j].status = "FREE" /\ OtherRowsKept(j)
        /\ jobs' = jobs \/ jobs'[j].status = "PENDING"
    BY <1>1, EnqueueFacts
  <2>1. /\ \A w \in Workers : Working(w) => worker[w].job \in Jobs \ {j}
        /\ j \notin window /\ ~(stored[j] > 0) /\ window \subseteq Jobs
    BY <2>0 DEF QuotaInv, TypeInv, TypeOK, HoldersNamed, Working
  <2> QED BY <2>0, <2>1 DEF QuotaInv, OtherRowsKept, Working
\* The row claimed is pending: a RUNNING one has its goroutine, whose lease holds.
<1>2. ASSUME NEW w \in Workers, NEW j \in Jobs, ClaimRenewalJob(w, j) PROVE QuotaInv'
  <2>0. /\ window' = window /\ stored' = stored /\ OnlyMoves(w) /\ worker[w].pc = "idle"
        /\ worker'[w].pc = "check" /\ worker'[w].job = j
        /\ Outstanding(j) /\ (jobs[j].status = "RUNNING" => jobs[j].lapsed)
        /\ jobs'[j].status = "RUNNING" /\ OtherRowsKept(j)
    BY <1>2, ClaimFacts
  <2>1. jobs[j].status = "PENDING"
    BY <2>0 DEF Outstanding, QuotaInv, HolderInv
  <2>2. /\ \A v \in Workers \ {w} : Working(v) => worker[v].job \in Jobs \ {j}
        /\ j \notin window /\ stored[j] = 0 /\ window \subseteq Jobs
    BY <2>1 DEF QuotaInv, TypeInv, TypeOK, HoldersNamed, Working
  <2>3. \A i \in window' : jobs'[i].status = "SUCCEEDED"
    BY <2>0, <2>2 DEF QuotaInv, OtherRowsKept
  <2>4. \A i \in Jobs :
          /\ stored'[i] > 0 => jobs'[i].status \in {"RUNNING", "SUCCEEDED"}
          /\ jobs'[i].status = "RUNNING" => \E v \in Workers : Working(v)' /\ worker'[v].job = i
    BY <2>0, <2>2 DEF QuotaInv, OtherRowsKept, OnlyMoves, Working
  <2>5. ASSUME NEW v \in Workers
        PROVE  /\ Working(v)' => jobs'[worker'[v].job].status = "RUNNING"
               /\ worker'[v].pc \in {"check", "read", "call", "refused", "store", "defer"}
                    => stored'[worker'[v].job] = 0
               /\ worker'[v].pc = "finish" /\ worker'[v].outcome # "SUCCEEDED"
                    => stored'[worker'[v].job] = 0
    BY <2>0, <2>2 DEF QuotaInv, OtherRowsKept, OnlyMoves, Working
  <2> QED BY <2>3, <2>4, <2>5 DEF QuotaInv
<1>3. ASSUME NEW w \in Workers,
             \/ Check(w) \/ ReadCertificate(w) \/ CallAccepted(w) \/ CallFailed(w)
             \/ RecordFailure(w) \/ Rollout(w)
      PROVE  QuotaInv'
  <2>1. /\ jobs' = jobs /\ stored' = stored /\ window' = window
        /\ Working(w) /\ Working(w)' /\ OnlyMoves(w) /\ KeepsClaim(w)
        /\ \/ worker[w].pc \in {"check", "read", "call", "refused"}
           \/ worker'[w].pc = "finish" /\ worker'[w].outcome = "SUCCEEDED"
    BY <1>3, CheckFacts, ReadFacts, AcceptFacts, CallFailedFacts, RecordFailureFacts,
       RolloutFacts DEF Failing, Working
  <2> QED BY <2>1, QuotaQuiet DEF QuotaInv, OnlyMoves, KeepsClaim, Working
<1>4. ASSUME NEW w \in Workers, StoreCertificate(w) PROVE QuotaInv'
  <2> DEFINE j == worker[w].job
  <2>0. /\ UNCHANGED <<jobs, window>> /\ worker[w].pc = "store" /\ OnlyMoves(w) /\ KeepsClaim(w)
        /\ worker'[w].pc = "rollout" /\ stored' = [stored EXCEPT ![j] = Twice(@)]
        /\ j \in Jobs /\ Working(w)
    BY <1>4, StoreFacts, HolderTypes DEF Working
  <2>1. \A i \in Jobs \ {j} : stored'[i] = stored[i]
    BY <2>0 DEF TypeInv, TypeOK
  <2>2. /\ jobs[j].status = "RUNNING"
        /\ \A v \in Workers \ {w} : Working(v) => worker[v].job \in Jobs \ {j}
    BY <2>0 DEF QuotaInv, HolderInv, TypeInv, HoldersNamed, Working
  <2>3. \A i \in window' : jobs'[i].status = "SUCCEEDED"
    BY <2>0 DEF QuotaInv
  <2>4. \A i \in Jobs :
          /\ stored'[i] > 0 => jobs'[i].status \in {"RUNNING", "SUCCEEDED"}
          /\ jobs'[i].status = "RUNNING" => \E v \in Workers : Working(v)' /\ worker'[v].job = i
    BY <2>0, <2>1, <2>2 DEF QuotaInv, OnlyMoves, KeepsClaim, Working
  <2>5. ASSUME NEW v \in Workers
        PROVE  /\ Working(v)' => jobs'[worker'[v].job].status = "RUNNING"
               /\ worker'[v].pc \in {"check", "read", "call", "refused", "store", "defer"}
                    => stored'[worker'[v].job] = 0
               /\ worker'[v].pc = "finish" /\ worker'[v].outcome # "SUCCEEDED"
                    => stored'[worker'[v].job] = 0
    BY <2>0, <2>1, <2>2 DEF QuotaInv, OnlyMoves, KeepsClaim, Working
  <2> QED BY <2>3, <2>4, <2>5 DEF QuotaInv
\* A job that stored goes from its goroutine to the successes.
<1>5. ASSUME NEW w \in Workers, CompleteRenewalJob(w) \/ DeferRenewalJob(w) PROVE QuotaInv'
  <2> DEFINE j == worker[w].job
  <2>0. /\ j \in Jobs /\ Working(w) /\ jobs[j].status = "RUNNING"
        /\ RowExists(j) /\ IndexAllows(j, CertOf(w))
    <3>1. j \in Jobs /\ Working(w) /\ jobs[j].status = "RUNNING"
      BY <1>5, HolderTypes DEF CompleteRenewalJob, DeferRenewalJob, Working, QuotaInv
    <3> QED BY <3>1 DEF RowExists, IndexAllows, CertOf, LockInv, OneOutstandingPerCertificate, Outstanding
  <2>1. /\ stored' = stored /\ OnlyMoves(w) /\ ~Working(w)' /\ worker'[w].pc # "finish"
        /\ OtherRowsKept(j)
    BY <1>5, CompleteFacts, DeferFacts DEF LetsGo, Working, IdleWorker
  <2>2. \/ /\ jobs'[j].status = "SUCCEEDED" /\ window' \subseteq window \cup {j}
        \/ /\ jobs'[j].status \in {"PENDING", "CANCELLED"} /\ window' = window /\ stored[j] = 0
    <3>1. worker[w].outcome \in {"PENDING", "SUCCEEDED", "CANCELLED"}
      BY DEF TypeInv, TypeOK, WorkerState
    <3>2. CASE CompleteRenewalJob(w)
      BY <2>0, <3>1, <3>2, CompleteFacts DEF QuotaInv
    <3>3. CASE DeferRenewalJob(w)
      BY <2>0, <3>3, DeferFacts DEF QuotaInv
    <3> QED BY <1>5, <3>2, <3>3
  <2>3. \A v \in Workers : Working(v)' => /\ v # w /\ Working(v) /\ worker'[v] = worker[v]
                                          /\ worker[v].job \in Jobs \ {j}
    BY <2>0, <2>1 DEF OnlyMoves, Working, HolderInv, TypeInv, HoldersNamed
  <2>4. \A i \in window' : jobs'[i].status = "SUCCEEDED"
    BY <2>0, <2>1, <2>2 DEF QuotaInv, OtherRowsKept, TypeInv, TypeOK
  <2>5. \A i \in Jobs :
          /\ stored'[i] > 0 => jobs'[i].status \in {"RUNNING", "SUCCEEDED"}
          /\ jobs'[i].status = "RUNNING" => \E v \in Workers : Working(v)' /\ worker'[v].job = i
    BY <2>0, <2>1, <2>2 DEF QuotaInv, OtherRowsKept, OnlyMoves, Working
  <2>6. ASSUME NEW v \in Workers
        PROVE  /\ Working(v)' => jobs'[worker'[v].job].status = "RUNNING"
               /\ worker'[v].pc \in {"check", "read", "call", "refused", "store", "defer"}
                    => stored'[worker'[v].job] = 0
               /\ worker'[v].pc = "finish" /\ worker'[v].outcome # "SUCCEEDED"
                    => stored'[worker'[v].job] = 0
    BY <2>1, <2>3 DEF QuotaInv, OtherRowsKept, OnlyMoves, Working
  <2> QED BY <2>4, <2>5, <2>6 DEF QuotaInv
<1>6. ASSUME NEW w \in Workers, Announce(w) PROVE QuotaInv'
  BY <1>6, AnnounceFacts, QuotaQuiet DEF OnlyMoves, Working, IdleWorker
<1>7. ASSUME NEW w \in Workers, ExtendRenewalLease(w) PROVE QuotaInv'
  BY <1>7, ExtendFacts, QuotaQuiet DEF OtherRowsKept, Working
<1>8. ASSUME NEW j \in Jobs, BecomeDue(j) \/ LeaseLapses(j) PROVE QuotaInv'
  BY <1>8, DueFacts, LapseFacts, QuotaQuiet DEF OtherRowsKept, Working
<1>9. CASE \/ (\E r \in Replicas, c \in Certs : ReadForEnqueue(r, c)) \/ UNCHANGED vars
           \/ \E j \in Jobs : AgeOut(j)
  BY <1>9, QuotaQuiet DEF ReadForEnqueue, AgeOut, vars, Working
<1>10. /\ \A r \in Replicas : ~Crash(r)
       /\ \A j \in Jobs : ~CancelRenewalJob(j)
       /\ \A d \in Certs : ~DeleteCertificate(d)
  BY DEF Crash, CancelRenewalJob, DeleteCertificate
<1> QED
  BY <1>1, <1>2, <1>3, <1>4, <1>5, <1>6, <1>7, <1>8, <1>9, <1>10 DEF Next, WorkerStep

\* Steps that add neither a success that counts nor a goroutine past the quota.
LEMMA OvershootKept ==
    ASSUME TypeInv, BoundedOvershoot, Calm' => Calm,
           Calm' => Counted' \subseteq Counted /\ PastQuota' \subseteq PastQuota
    PROVE  BoundedOvershoot'
<1> SUFFICES ASSUME Calm, Calm', RateLimit > 0
             PROVE  Cardinality(Counted') + Cardinality(PastQuota')
                      <= RateLimit + Cardinality(Workers) - 1
  BY DEF BoundedOvershoot, Calm, Counted
<1>1. /\ IsFiniteSet(Workers) /\ IsFiniteSet(Jobs) /\ RateLimit \in Nat
      /\ Counted \subseteq Jobs /\ PastQuota \subseteq Workers
  BY ConstantsAssumption DEF Counted, PastQuota, TypeInv, TypeOK
<1>2. IsFiniteSet(Counted) /\ IsFiniteSet(PastQuota)
  BY <1>1, FS_Subset
<1>3. /\ Cardinality(Counted') <= Cardinality(Counted)
      /\ Cardinality(PastQuota') <= Cardinality(PastQuota)
      /\ IsFiniteSet(Counted') /\ IsFiniteSet(PastQuota')
  BY <1>2, FS_Subset
<1>4. /\ Cardinality(Counted) \in Nat /\ Cardinality(PastQuota) \in Nat
      /\ Cardinality(Counted') \in Nat /\ Cardinality(PastQuota') \in Nat
      /\ Cardinality(Workers) \in Nat
  BY <1>1, <1>2, <1>3, FS_CardinalityType
<1>5. Cardinality(Counted) + Cardinality(PastQuota) <= RateLimit + Cardinality(Workers) - 1
  BY DEF BoundedOvershoot, Calm, Counted
<1> QED BY <1>1, <1>3, <1>4, <1>5

\* Every action keeps the bound.
LEMMA OvershootStep ==
    /\ TypeInv /\ LockInv /\ HolderInv /\ QuotaInv /\ BoundedOvershoot /\ [Next]_vars
    => BoundedOvershoot'
<1> SUFFICES ASSUME TypeInv, LockInv, HolderInv, QuotaInv, BoundedOvershoot, [Next]_vars,
                    Calm', Calm, Reliable, \A class : ~Upset(class), RateLimit > 0
             PROVE  BoundedOvershoot'
  BY CalmFacts DEF BoundedOvershoot, Calm
<1>0. /\ IsFiniteSet(Workers) /\ IsFiniteSet(Jobs) /\ RateLimit \in Nat
      /\ window \subseteq Jobs /\ Cardinality(Workers) \in Nat
  BY ConstantsAssumption, FS_CardinalityType DEF TypeInv, TypeOK
\* The goroutines at work on their jobs, and the others, where they were.
<1>1. ASSUME stored' = stored, window' \subseteq window,
             \A v \in Workers : \/ worker'[v] = worker[v]
                                \/ worker'[v].pc \in {"idle", "announce", "check"}
      PROVE  BoundedOvershoot'
  BY <1>1, OvershootKept DEF Counted, PastQuota
\* Past the quota: fewer successes are in the window than the limit.
<1>2. ASSUME NEW w \in Workers, Check(w) PROVE BoundedOvershoot'
  <2>0. /\ UNCHANGED <<jobs, window, stored>> /\ OnlyMoves(w) /\ KeepsClaim(w)
        /\ worker[w].pc = "check" /\ stored[worker[w].job] = 0
        /\ worker'[w].pc \in {"finish", "read", "defer"}
        /\ worker'[w].pc = "read" => ~RateLimited
    BY <1>2, CheckFacts DEF QuotaInv
  <2>1. CASE worker'[w].pc # "read"
    <3>1. Counted' \subseteq Counted /\ PastQuota' \subseteq PastQuota
      BY <2>0, <2>1 DEF Counted, PastQuota, OnlyMoves, KeepsClaim
    <3> QED BY <3>1, OvershootKept
  <2>2. CASE ~RateLimited
    <3> DEFINE S == {j \in window : jobs[j].status = "SUCCEEDED"}
    <3>1. Counted' \subseteq S /\ S \subseteq Jobs /\ PastQuota' \subseteq Workers
      BY <1>0, <2>0 DEF QuotaInv, Counted, PastQuota
    <3>2. IsFiniteSet(S) /\ Cardinality(S) \in Nat
      BY <1>0, <3>1, FS_Subset, FS_CardinalityType
    <3>3. Cardinality(S) < RateLimit
      BY <1>0, <2>2, <3>2 DEF RateLimited, CountRecentRenewals
    <3>4. /\ Cardinality(Counted') <= Cardinality(S) /\ Cardinality(Counted') \in Nat
          /\ Cardinality(PastQuota') <= Cardinality(Workers) /\ Cardinality(PastQuota') \in Nat
      BY <1>0, <3>1, <3>2, FS_Subset, FS_CardinalityType
    <3> HIDE DEF S
    <3>5. Cardinality(Counted') + Cardinality(PastQuota') <= RateLimit + Cardinality(Workers) - 1
      BY <1>0, <3>2, <3>3, <3>4
    <3> QED BY <3>5 DEF BoundedOvershoot, Counted
  <2> QED BY <2>0, <2>1, <2>2
<1>3. ASSUME NEW w \in Workers,
             ReadCertificate(w) \/ CallAccepted(w) \/ CallFailed(w) \/ RecordFailure(w) \/ Rollout(w)
      PROVE  BoundedOvershoot'
  <2>1. /\ stored' = stored /\ window' = window /\ OnlyMoves(w)
        /\ worker[w].pc \in {"read", "call", "refused", "rollout"}
    BY <1>3, ReadFacts, AcceptFacts, CallFailedFacts, RecordFailureFacts, RolloutFacts DEF Failing
  <2>2. Counted' \subseteq Counted /\ PastQuota' \subseteq PastQuota
    BY <2>1 DEF Counted, PastQuota, OnlyMoves
  <2> QED BY <2>2, OvershootKept
\* The job that stores is at work, so it is not among the successes yet, and its
\* goroutine is past the quota already.
<1>4. ASSUME NEW w \in Workers, StoreCertificate(w) PROVE BoundedOvershoot'
  <2> DEFINE j == worker[w].job
  <2>0. /\ UNCHANGED <<jobs, window>> /\ worker[w].pc = "store" /\ OnlyMoves(w)
        /\ stored' = [stored EXCEPT ![j] = Twice(@)] /\ j \in Jobs /\ Working(w)
    BY <1>4, StoreFacts, HolderTypes DEF Working
  <2>1. \A i \in Jobs \ {j} : stored'[i] = stored[i]
    BY <2>0 DEF TypeInv, TypeOK
  <2>2. /\ j \notin window
        /\ \A v \in Workers \ {w} : Working(v) => worker[v].job \in Jobs \ {j}
    BY <2>0 DEF QuotaInv, HolderInv, TypeInv, HoldersNamed, Working
  <2>3. Counted' \subseteq Counted
    BY <1>0, <2>0, <2>1, <2>2 DEF Counted
  <2>4. PastQuota' \subseteq PastQuota
    BY <2>0, <2>1, <2>2 DEF PastQuota, OnlyMoves, Working
  <2> QED BY <2>3, <2>4, OvershootKept
\* One that stored and succeeds leaves the goroutines as it joins the successes.
<1>5. ASSUME NEW w \in Workers, CompleteRenewalJob(w) PROVE BoundedOvershoot'
  <2> DEFINE j == worker[w].job
  <2>0. /\ stored' = stored /\ OnlyMoves(w) /\ worker[w].pc = "finish" /\ j \in Jobs
        /\ worker'[w].pc \in {"idle", "announce"} /\ window' \subseteq window \cup {j}
    BY <1>5, CompleteFacts, HolderTypes DEF LetsGo, IdleWorker
  <2>1. CASE stored[j] > 0
    <3>1. w \in PastQuota /\ PastQuota' \subseteq PastQuota \ {w} /\ Counted' \subseteq Counted \cup {j}
      BY <2>0, <2>1 DEF PastQuota, Counted, OnlyMoves
    <3>2. IsFiniteSet(PastQuota) /\ IsFiniteSet(Counted)
      BY <1>0, FS_Subset DEF PastQuota, Counted
    <3>3. /\ IsFiniteSet(PastQuota \ {w}) /\ Cardinality(PastQuota \ {w}) = Cardinality(PastQuota) - 1
          /\ IsFiniteSet(Counted \cup {j}) /\ Cardinality(PastQuota) \in Nat /\ Cardinality(Counted) \in Nat
          /\ Cardinality(Counted \cup {j}) <= Cardinality(Counted) + 1
      <4>1. Cardinality(PastQuota) \in Nat /\ Cardinality(Counted) \in Nat
        BY <3>2, FS_CardinalityType
      <4>2. IsFiniteSet(PastQuota \ {w}) /\ Cardinality(PastQuota \ {w}) = Cardinality(PastQuota) - 1
        BY <3>1, <3>2, FS_RemoveElement
      <4>3. IsFiniteSet(Counted \cup {j}) /\ Cardinality(Counted \cup {j}) <= Cardinality(Counted) + 1
        <5>1. /\ IsFiniteSet(Counted \cup {j})
              /\ Cardinality(Counted \cup {j}) = IF j \in Counted THEN Cardinality(Counted)
                                                 ELSE Cardinality(Counted) + 1
          BY <3>2, FS_AddElement
        <5> QED BY <4>1, <5>1
      <4> QED BY <4>1, <4>2, <4>3
    <3>4. /\ Cardinality(PastQuota') <= Cardinality(PastQuota) - 1 /\ Cardinality(PastQuota') \in Nat
          /\ Cardinality(Counted') <= Cardinality(Counted \cup {j}) /\ Cardinality(Counted') \in Nat
          /\ Cardinality(Counted \cup {j}) \in Nat
      BY <3>1, <3>3, FS_Subset, FS_CardinalityType
    <3>5. Cardinality(Counted) + Cardinality(PastQuota) <= RateLimit + Cardinality(Workers) - 1
      BY DEF BoundedOvershoot, Calm, Counted
    <3>6. Cardinality(Counted') + Cardinality(PastQuota') <= RateLimit + Cardinality(Workers) - 1
      BY <1>0, <3>3, <3>4, <3>5
    <3> QED BY <3>6 DEF BoundedOvershoot, Counted
  <2>2. CASE ~(stored[j] > 0)
    <3>1. Counted' \subseteq Counted /\ PastQuota' \subseteq PastQuota
      BY <2>0, <2>2 DEF Counted, PastQuota, OnlyMoves
    <3> QED BY <3>1, OvershootKept
  <2> QED BY <2>1, <2>2
<1>6. ASSUME NEW w \in Workers,
             DeferRenewalJob(w) \/ Announce(w) \/ (\E j \in Jobs : ClaimRenewalJob(w, j))
      PROVE  BoundedOvershoot'
  BY <1>1, <1>6, DeferFacts, AnnounceFacts, ClaimFacts DEF LetsGo, OnlyMoves, IdleWorker
<1>7. ASSUME NEW w \in Workers, ExtendRenewalLease(w) PROVE BoundedOvershoot'
  BY <1>1, <1>7, ExtendFacts
<1>8. ASSUME NEW j \in Jobs, BecomeDue(j) \/ LeaseLapses(j) PROVE BoundedOvershoot'
  BY <1>1, <1>8, DueFacts, LapseFacts
<1>9. ASSUME NEW r \in Replicas, NEW j \in Jobs, EnqueueRenewal(r, j) PROVE BoundedOvershoot'
  BY <1>1, <1>9, EnqueueFacts
<1>10. CASE \/ (\E r \in Replicas, c \in Certs : ReadForEnqueue(r, c)) \/ UNCHANGED vars
            \/ \E j \in Jobs : AgeOut(j)
  BY <1>1, <1>10 DEF ReadForEnqueue, AgeOut, vars
<1>11. /\ \A r \in Replicas : ~Crash(r)
       /\ \A j \in Jobs : ~CancelRenewalJob(j)
       /\ \A d \in Certs : ~DeleteCertificate(d)
  BY DEF Crash, CancelRenewalJob, DeleteCertificate
<1> QED
  BY <1>2, <1>3, <1>4, <1>5, <1>6, <1>7, <1>8, <1>9, <1>10, <1>11 DEF Next, WorkerStep

\* rateLimited counts completed jobs only, yet for any number of workers the
\* renewals inside the window exceed the limit by at most the workers less one.
THEOREM RateOvershoot == Spec => []BoundedOvershoot
<1> DEFINE Inv == TypeInv /\ LockInv /\ HolderInv /\ QuotaInv /\ BoundedOvershoot
<1>1. Init => Inv
  <2>1. Init => BoundedOvershoot
    <3> SUFFICES ASSUME Init PROVE BoundedOvershoot
      OBVIOUS
    <3>1. {j \in window : stored[j] > 0} = {} /\ PastQuota = {}
      <4>1. window = {} /\ \A w \in Workers : worker[w].pc = "idle"
        BY DEF Init, IdleWorker
      <4> QED BY <4>1 DEF PastQuota
    <3>2. Cardinality({j \in window : stored[j] > 0}) = 0 /\ Cardinality(PastQuota) = 0
      BY <3>1, FS_EmptySet
    <3>3. Cardinality(Workers) \in Nat /\ RateLimit \in Nat
      BY ConstantsAssumption, FS_CardinalityType
    <3> QED BY <3>2, <3>3 DEF BoundedOvershoot
  <2> QED BY <2>1, InitTypeInv, InitSafe, InitQuota
<1>2. Inv /\ [Next]_vars => Inv'
  BY TypeStep, SafeStep, QuotaStep, OvershootStep
<1>3. Inv => BoundedOvershoot
  OBVIOUS
<1> QED BY <1>1, <1>2, <1>3, PTL DEF Spec
=============================================================================
