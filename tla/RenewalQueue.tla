---------------------------- MODULE RenewalQueue ----------------------------
(***************************************************************************)
(* The durable renewal queue of CertPilot: the renewal_jobs table, the     *)
(* sweep and the API handlers that insert into it, the worker goroutines   *)
(* of every replica that claim from it, and the executor each worker runs. *)
(*                                                                         *)
(* Every SQL statement is one step, because a statement is what PostgreSQL *)
(* makes atomic; everything a worker does between two statements is local. *)
(* Clock readings are abstracted to the facts the code derives from them:  *)
(* a job is due (run_after <= now), a lease has lapsed (locked_until <     *)
(* now), a completed job is still inside its account's rate window.        *)
(***************************************************************************)
EXTENDS Integers, FiniteSets

CONSTANTS
    Certs,         \* certificates
    Custody,       \* [Certs -> {"CERTPILOT", "ELSEWHERE"}]: who holds the key
    Jobs,          \* row identities of renewal_jobs, a finite supply
    Replicas,      \* core processes
    Workers,       \* worker goroutines of all replicas
    ReplicaOf,     \* [Workers -> Replicas]; goroutines share the replica's name
    RateLimit,     \* ca_accounts.renewal_rate_limit; 0 is unlimited
    Upsets,        \* the failures and interventions this instance meets
    MaxUpsets,     \* bound: how many of them in one behaviour
    MaxIssued,     \* bound: certificates the CA can sign in one behaviour
    AttemptsCap,   \* bound: attempts counts exactly below it, "at least" at it
    NoOne          \* SQL NULL / nil

EscalateAfterAttempts == 3

UpsetClasses == {"crash",     \* a core process dies
                 "lapse",     \* a live worker's lease expires under it
                 "read",      \* a SELECT of execute returns an error
                 "store",     \* UpdateCertificate returns an error
                 "rollout",   \* EnqueueFor returns an error
                 "complete",  \* Complete- or DeferRenewalJob returns an error
                 "answer",    \* the CA signs and the answer is lost or refused
                 "cancel",    \* somebody cancels a job
                 "delete"}    \* somebody deletes a certificate

ASSUME ConstantsAssumption ==
    /\ Custody \in [Certs -> {"CERTPILOT", "ELSEWHERE"}]
    /\ ReplicaOf \in [Workers -> Replicas]
    /\ IsFiniteSet(Jobs) /\ IsFiniteSet(Workers)
    /\ RateLimit \in Nat /\ MaxUpsets \in Nat /\ MaxIssued \in Nat
    /\ AttemptsCap \in Nat /\ AttemptsCap >= EscalateAfterAttempts
    /\ Upsets \subseteq UpsetClasses
    /\ NoOne \notin Jobs /\ NoOne \notin Replicas /\ NoOne \notin Certs

VARIABLES
    jobs,       \* [Jobs -> JobRow]
    exists,     \* [Certs -> BOOLEAN]: the certificates row is there
    fp,         \* [Certs -> Nat]: certificates.fingerprint_sha256
    scan,       \* [Replicas -> what an enqueuer read and has not inserted yet]
    worker,     \* [Workers -> WorkerState]
    window,     \* SUBSET Jobs: completed_at is inside the window of a limited account
    issued,     \* how many certificates the CA has signed
    upsets,     \* how many upsets so far, and of which classes
    rolledOut,  \* [Certs -> Nat]: newest fingerprint EnqueueFor was called for
    stored,     \* history: [Jobs -> 0..2] successful UpdateCertificate, per job
    alerts      \* history: [Jobs -> 0..2] CRITICAL events published, per job

vars == <<jobs, exists, fp, scan, worker, window, issued, upsets, rolledOut,
          stored, alerts>>

-----------------------------------------------------------------------------
(* Rows and worker states *)

Statuses == {"FREE", "PENDING", "RUNNING", "SUCCEEDED", "CANCELLED", "DELETED"}

JobRow == [status    : Statuses,
           cert      : Certs \cup {NoOne},
           due       : BOOLEAN,             \* run_after <= now
           lockedBy  : Replicas \cup {NoOne},
           lapsed    : BOOLEAN,             \* locked_until < now
           attempts  : 0..AttemptsCap,
           escalated : BOOLEAN,             \* escalated_at IS NOT NULL
           fp        : Nat]                 \* fingerprint_at_enqueue

FreeRow == [status |-> "FREE", cert |-> NoOne, due |-> FALSE,
            lockedBy |-> NoOne, lapsed |-> FALSE, attempts |-> 0,
            escalated |-> FALSE, fp |-> 0]

QueuedRow(c, f) == [status |-> "PENDING", cert |-> c, due |-> TRUE,
                    lockedBy |-> NoOne, lapsed |-> FALSE, attempts |-> 0,
                    escalated |-> FALSE, fp |-> f]

\* pc is the statement the goroutine executes next; the other fields are what
\* it has read so far. copy is the executor's own read of the certificate.
PCs == {"idle", "check", "read", "call", "refused", "store", "rollout",
        "defer", "finish", "announce"}

WorkerState == [pc        : PCs,
                job       : Jobs \cup {NoOne},
                attempts  : 0..AttemptsCap, \* as of the claim
                escalated : BOOLEAN,        \* as of the claim
                fp        : Nat,            \* job.FingerprintAtEnqueue
                copy      : Nat,            \* cert.FingerprintSHA256 as read
                new       : Nat,            \* the certificate the CA returned
                outcome   : {"PENDING", "SUCCEEDED", "CANCELLED"},
                escalate  : BOOLEAN]

IdleWorker == [pc |-> "idle", job |-> NoOne, attempts |-> 0,
               escalated |-> FALSE, fp |-> 0, copy |-> 0, new |-> 0,
               outcome |-> "PENDING", escalate |-> FALSE]

ScanState == [cert : Certs \cup {NoOne}, fp : Nat]
NoScan == [cert |-> NoOne, fp |-> 0]

Outstanding(j) == jobs[j].status \in {"PENDING", "RUNNING"}

\* Mutant: the index leaves RUNNING rows out.
PendingIndexAllows(j, c) ==
    ~ \E k \in Jobs \ {j} : jobs[k].status = "PENDING" /\ jobs[k].cert = c

\* The partial unique index idx_renewal_jobs_one_outstanding: an outstanding row
\* for c other than j would make j outstanding a constraint violation.
IndexAllows(j, c) ==
    ~ \E k \in Jobs \ {j} : Outstanding(k) /\ jobs[k].cert = c

\* The row is still there: deleting the certificate deletes its jobs by cascade.
RowExists(j) == jobs[j].status \notin {"FREE", "DELETED"}

Up(n) == IF n < AttemptsCap THEN n + 1 ELSE AttemptsCap
\* One fewer; at the cap the exact count is unknown, so both answers are possible.
Down(n) == IF n = AttemptsCap THEN {n - 1, n} ELSE {IF n > 0 THEN n - 1 ELSE 0}
Twice(n) == IF n < 2 THEN n + 1 ELSE 2

Upset(class) == /\ class \in Upsets
                /\ upsets.count < MaxUpsets
                /\ upsets' = [count |-> upsets.count + 1, met |-> upsets.met \cup {class}]

Init ==
    \* A job for a key held elsewhere can only be one queued before the API
    \* refused them; the upgraded core finds it in the table when it starts.
    /\ \E legacy \in [Jobs -> {FreeRow} \cup
             {QueuedRow(c, 0) : c \in {d \in Certs : Custody[d] = "ELSEWHERE"}}] :
         /\ \A j, k \in Jobs : j # k /\ legacy[j].cert = legacy[k].cert
                                  => legacy[j].cert = NoOne
         /\ jobs = legacy
    /\ exists = [c \in Certs |-> TRUE]
    /\ fp = [c \in Certs |-> 0]
    /\ scan = [r \in Replicas |-> NoScan]
    /\ worker = [w \in Workers |-> IdleWorker]
    /\ window = {}
    /\ issued = 0
    /\ upsets = [count |-> 0, met |-> {}]
    /\ rolledOut = [c \in Certs |-> 0]
    /\ stored = [j \in Jobs |-> 0]
    /\ alerts = [j \in Jobs |-> 0]

-----------------------------------------------------------------------------
(* Enqueueing: Scheduler.RunScan and the Renew handler *)

\* GetCertificatesDueForRenewal or the handler's GetCertificate: the record is
\* read here, the key-custody filter applied, and the row inserted later.
ReadForEnqueue(r, c) ==
    /\ scan[r] = NoScan
    /\ exists[c] /\ Custody[c] = "CERTPILOT"
    /\ scan' = [scan EXCEPT ![r] = [cert |-> c, fp |-> fp[c]]]
    /\ UNCHANGED <<jobs, exists, fp, worker, window, issued, upsets, rolledOut,
                   stored, alerts>>

\* INSERT ... ON CONFLICT DO NOTHING: a second outstanding job is a no-op, and
\* the foreign key refuses a job for a certificate deleted since it was read.
EnqueueRenewal(r, j) ==
    LET c == scan[r].cert IN
    /\ c # NoOne
    /\ jobs[j].status = "FREE"
    /\ IF exists[c] /\ IndexAllows(j, c)
       THEN jobs' = [jobs EXCEPT ![j] = QueuedRow(c, scan[r].fp)]
       ELSE jobs' = jobs
    /\ scan' = [scan EXCEPT ![r] = NoScan]
    /\ UNCHANGED <<exists, fp, worker, window, issued, upsets, rolledOut,
                   stored, alerts>>

-----------------------------------------------------------------------------
(* A worker: RunOnce, execute and RenewCertificate *)

\* Mutant: a name per goroutine in a column that holds replica names.
GoroutineName(w) == w

\* workerName: the host and process, one name for all goroutines of a replica.
WorkerName(w) == ReplicaOf[w]

\* Mutants: leases are not looked at; expired leases are not picked up.
ClaimableLocked(j) == \/ jobs[j].status = "PENDING" /\ jobs[j].due
                      \/ jobs[j].status = "RUNNING"
ClaimablePending(j) == jobs[j].status = "PENDING" /\ jobs[j].due

\* The WHERE clause of the claim: ready, or held by a worker that let it lapse.
Claimable(j) ==
    \/ jobs[j].status = "PENDING" /\ jobs[j].due
    \/ jobs[j].status = "RUNNING" /\ jobs[j].lockedBy # NoOne /\ jobs[j].lapsed

ClaimedRow(row, w) ==
    [row EXCEPT !.status = "RUNNING", !.lockedBy = WorkerName(w), !.lapsed = FALSE,
                !.attempts = Up(row.attempts)]

\* UPDATE ... FOR UPDATE SKIP LOCKED. Which claimable row is taken depends on
\* not_after and on the rows other claims have locked, so any of them may be.
ClaimRenewalJob(w, j) ==
    /\ worker[w].pc = "idle"
    /\ Claimable(j)
    /\ jobs' = [jobs EXCEPT ![j] = ClaimedRow(jobs[j], w)]
    /\ worker' = [worker EXCEPT ![w] =
                    [IdleWorker EXCEPT !.pc = "check", !.job = j,
                                       !.attempts = Up(jobs[j].attempts),
                                       !.escalated = jobs[j].escalated,
                                       !.fp = jobs[j].fp]]
    /\ UNCHANGED <<exists, fp, scan, window, issued, upsets, rolledOut,
                   stored, alerts>>

\* rateLimited: renewals of the account that succeeded inside the window.
CountRecentRenewals == Cardinality({j \in window : jobs[j].status = "SUCCEEDED"})
\* Mutant: the limit itself is let through.
RateExceeded == RateLimit > 0 /\ CountRecentRenewals > RateLimit
RateLimited == RateLimit > 0 /\ CountRecentRenewals >= RateLimit

Goto(w, pc, outcome) == [worker[w] EXCEPT !.pc = pc, !.outcome = outcome]

\* Mutant: no crash guard.
DecisionUnguarded(w) ==
    LET me == worker[w]
        c  == jobs[me.job].cert
    IN  IF ~exists[c] \/ Custody[c] = "ELSEWHERE" THEN Goto(w, "finish", "CANCELLED")
        ELSE IF RateLimited THEN Goto(w, "defer", "PENDING")
        ELSE Goto(w, "read", "PENDING")

\* What execute decides from its read of the certificate: cancelled when the
\* record is gone or the key is elsewhere, succeeded when the fingerprint has
\* moved since the enqueue (the crash guard), deferred, or renewed.
Decision(w) ==
    LET me == worker[w]
        c  == jobs[me.job].cert
    IN  IF ~exists[c] \/ Custody[c] = "ELSEWHERE" THEN Goto(w, "finish", "CANCELLED")
        ELSE IF fp[c] # me.fp THEN Goto(w, "finish", "SUCCEEDED")
        ELSE IF RateLimited THEN Goto(w, "defer", "PENDING")
        ELSE Goto(w, "read", "PENDING")

\* An error reading the certificate is taken for a deleted one and cancels the
\* job; an error reading the quota is ignored and the renewal goes ahead.
Check(w) ==
    /\ worker[w].pc = "check"
    /\ \/ /\ worker' = [worker EXCEPT ![w] = Decision(w)]
          /\ UNCHANGED upsets
       \/ /\ Upset("read")
          /\ worker' = [worker EXCEPT ![w] = Goto(w, "finish", "CANCELLED")]
       \/ /\ Decision(w).pc = "defer" /\ Upset("read")
          /\ worker' = [worker EXCEPT ![w] = Goto(w, "read", "PENDING")]
    /\ UNCHANGED <<jobs, exists, fp, scan, window, issued, rolledOut,
                   stored, alerts>>

\* shouldEscalate: the third attempt, or too little runway left. The runway is a
\* reading of the clock, so below three attempts either answer is possible.
ShouldEscalate(attempts) ==
    IF attempts >= EscalateAfterAttempts THEN {TRUE} ELSE BOOLEAN

\* An error return of RenewCertificate reaches finish(PENDING, err, escalate).
FailTo(w, esc) == [worker[w] EXCEPT !.pc = "finish", !.outcome = "PENDING",
                                    !.escalate = esc]

\* RenewCertificate reads the record again. It returns early, writing nothing,
\* when the record, the account, its gateway or its configuration is missing.
ReadCertificate(w) ==
    LET me == worker[w]
        c  == jobs[me.job].cert
    IN
    /\ me.pc = "read"
    /\ \/ /\ exists[c]
          /\ worker' = [worker EXCEPT ![w] = [me EXCEPT !.pc = "call", !.copy = fp[c]]]
       \/ \E esc \in ShouldEscalate(me.attempts) :
             worker' = [worker EXCEPT ![w] = FailTo(w, esc)]
    /\ UNCHANGED <<jobs, exists, fp, scan, window, issued, upsets, rolledOut,
                   stored, alerts>>

\* gw.Client.RenewCertificate answers with a certificate the executor accepts.
CallAccepted(w) ==
    /\ worker[w].pc = "call"
    /\ issued < MaxIssued
    /\ issued' = issued + 1
    /\ worker' = [worker EXCEPT ![w] = [@ EXCEPT !.pc = "store", !.new = issued + 1]]
    /\ UNCHANGED <<jobs, exists, fp, scan, window, upsets, rolledOut, stored, alerts>>

\* The call fails, or the answer does not parse, does not conform or cannot be
\* sealed. With the "answer" fault the CA has signed a certificate all the same.
CallFailed(w) ==
    /\ worker[w].pc = "call"
    /\ \/ UNCHANGED <<issued, upsets>>
       \/ Upset("answer") /\ issued < MaxIssued /\ issued' = issued + 1
    /\ worker' = [worker EXCEPT ![w].pc = "refused"]
    /\ UNCHANGED <<jobs, exists, fp, scan, window, rolledOut, stored, alerts>>

\* recordFailure writes the whole row back from the executor's copy, the
\* fingerprint it read included. An error of the write is only logged.
RecordFailure(w) ==
    LET me == worker[w]
        c  == jobs[me.job].cert
    IN
    /\ me.pc = "refused"
    /\ \/ /\ fp' = IF exists[c] THEN [fp EXCEPT ![c] = me.copy] ELSE fp
          /\ UNCHANGED upsets
       \/ Upset("store") /\ UNCHANGED fp
    /\ \E esc \in ShouldEscalate(me.attempts) :
          worker' = [worker EXCEPT ![w] = FailTo(w, esc)]
    /\ UNCHANGED <<jobs, exists, scan, window, issued, rolledOut,
                   stored, alerts>>

\* UpdateCertificate with the renewed certificate. Updating a row that has been
\* deleted affects nothing and is no error; a database error is returned.
StoreCertificate(w) ==
    LET me == worker[w]
        c  == jobs[me.job].cert
    IN
    /\ me.pc = "store"
    /\ \/ /\ fp' = IF exists[c] THEN [fp EXCEPT ![c] = me.new] ELSE fp
          /\ stored' = [stored EXCEPT ![me.job] = Twice(@)]
          /\ worker' = [worker EXCEPT ![w] = [me EXCEPT !.pc = "rollout"]]
          /\ UNCHANGED upsets
       \/ /\ Upset("store")
          /\ \E esc \in ShouldEscalate(me.attempts) :
                worker' = [worker EXCEPT ![w] = FailTo(w, esc)]
          /\ UNCHANGED <<fp, stored>>
    /\ UNCHANGED <<jobs, exists, scan, window, issued, rolledOut, alerts>>

\* Mutant: the roll-out is left to the droppable cert.renewed event.
RolloutByEvent(w) ==
    /\ worker[w].pc = "rollout"
    /\ worker' = [worker EXCEPT ![w] = Goto(w, "finish", "SUCCEEDED")]
    /\ UNCHANGED <<jobs, exists, fp, scan, window, issued, upsets, rolledOut,
                   stored, alerts>>

\* EnqueueFor and UpdateCertificateVerification: the renewed certificate starts
\* on its way to its targets. An error is logged and the renewal still succeeds.
Rollout(w) ==
    LET me == worker[w]
        c  == jobs[me.job].cert
    IN
    /\ me.pc = "rollout"
    /\ \/ /\ rolledOut' = [rolledOut EXCEPT ![c] = me.new]
          /\ UNCHANGED upsets
       \/ Upset("rollout") /\ UNCHANGED rolledOut
    /\ worker' = [worker EXCEPT ![w] = Goto(w, "finish", "SUCCEEDED")]
    /\ UNCHANGED <<jobs, exists, fp, scan, window, issued, stored, alerts>>

\* Mutants: the lock columns are kept; escalated_at is not written.
SettleLocked(row, status, escalate) ==
    [row EXCEPT !.status = status, !.due = row.due /\ status # "PENDING",
                !.escalated = row.escalated \/ escalate]
SettleSilently(row, status, escalate) ==
    [row EXCEPT !.status = status, !.lockedBy = NoOne, !.lapsed = FALSE,
                !.due = row.due /\ status # "PENDING"]

\* The row after CompleteRenewalJob or DeferRenewalJob: the lock is dropped, and
\* a job put back waits for run_after.
Settle(row, status, escalate) ==
    [row EXCEPT !.status = status, !.lockedBy = NoOne, !.lapsed = FALSE,
                !.due = row.due /\ status # "PENDING", !.escalated = row.escalated \/ escalate]

\* After the write, an escalation the claim had not yet seen is published.
AfterFinish(w) ==
    worker' = [worker EXCEPT ![w] =
                 IF @.escalate /\ ~@.escalated THEN [@ EXCEPT !.pc = "announce"]
                 ELSE IdleWorker]

\* CompleteRenewalJob: WHERE id = $1 and nothing else. Neither the holder nor
\* the status is looked at; only the unique index can refuse the write. An
\* error is logged, and the worker goes on as if the row had been written.
CompleteRenewalJob(w) ==
    LET me == worker[w]
        j  == me.job
    IN
    /\ me.pc = "finish"
    /\ \/ /\ \/ me.outcome # "PENDING"
             \/ IndexAllows(j, jobs[j].cert)
          /\ jobs' = IF RowExists(j)
                     THEN [jobs EXCEPT ![j] = Settle(jobs[j], me.outcome, me.escalate)]
                     ELSE jobs
          /\ window' = IF me.outcome = "SUCCEEDED" /\ RowExists(j) /\ RateLimit > 0
                       THEN window \cup {j} ELSE window
          /\ UNCHANGED upsets
       \/ /\ me.outcome = "PENDING" /\ ~IndexAllows(j, jobs[j].cert)
          /\ UNCHANGED <<jobs, window, upsets>>
       \/ Upset("complete") /\ UNCHANGED <<jobs, window>>
    /\ AfterFinish(w)
    /\ UNCHANGED <<exists, fp, scan, issued, rolledOut, stored, alerts>>

\* DeferRenewalJob un-counts the claim. Escalates when the quota frees up only
\* after the certificate expires, a comparison of two dates.
DeferRenewalJob(w) ==
    LET me == worker[w]
        j  == me.job
    IN
    /\ me.pc = "defer"
    /\ \E doomed \in BOOLEAN :
          /\ \/ /\ RowExists(j) /\ IndexAllows(j, jobs[j].cert)
                /\ \E n \in Down(jobs[j].attempts) :
                      jobs' = [jobs EXCEPT ![j] =
                                 [Settle(jobs[j], "PENDING", doomed) EXCEPT !.attempts = n]]
                /\ UNCHANGED upsets
             \/ /\ ~RowExists(j) \/ ~IndexAllows(j, jobs[j].cert)
                /\ UNCHANGED <<jobs, upsets>>
             \/ Upset("complete") /\ UNCHANGED jobs
          /\ worker' = [worker EXCEPT ![w] =
                          IF doomed /\ ~me.escalated
                          THEN [me EXCEPT !.pc = "announce"] ELSE IdleWorker]
    /\ UNCHANGED <<exists, fp, scan, window, issued, rolledOut,
                   stored, alerts>>

\* announceEscalation / announceRateLimitOutlastsCertificate.
Announce(w) ==
    /\ worker[w].pc = "announce"
    /\ alerts' = [alerts EXCEPT ![worker[w].job] = Twice(@)]
    /\ worker' = [worker EXCEPT ![w] = IdleWorker]
    /\ UNCHANGED <<jobs, exists, fp, scan, window, issued, upsets, rolledOut,
                   stored>>

-----------------------------------------------------------------------------
(* The clock, the operators and the upsets *)

\* run_after passes.
BecomeDue(j) ==
    /\ jobs[j].status = "PENDING" /\ ~jobs[j].due
    /\ jobs' = [jobs EXCEPT ![j].due = TRUE]
    /\ UNCHANGED <<exists, fp, scan, worker, window, issued, upsets, rolledOut,
                   stored, alerts>>

\* A live goroutine is between its claim of j and its last write to j.
Held(j) == \E w \in Workers : worker[w].job = j /\ worker[w].pc # "announce"

\* locked_until passes. The heartbeat keeps a live worker's lease ahead of the
\* clock, so this takes a dead worker, or the fault of one whose heartbeats stop.
LeaseLapses(j) ==
    /\ jobs[j].status = "RUNNING" /\ ~jobs[j].lapsed
    /\ \/ ~Held(j) /\ UNCHANGED upsets
       \/ Held(j) /\ Upset("lapse")
    /\ jobs' = [jobs EXCEPT ![j].lapsed = TRUE]
    /\ UNCHANGED <<exists, fp, scan, worker, window, issued, rolledOut,
                   stored, alerts>>

\* heartbeat, ExtendRenewalLease: by name and status, whoever holds the claim.
ExtendRenewalLease(w) ==
    LET j == worker[w].job IN
    /\ worker[w].pc \in {"read", "call", "refused", "store", "rollout", "finish",
                         "announce"}
    /\ jobs[j].status = "RUNNING" /\ jobs[j].lockedBy = WorkerName(w)
    /\ jobs[j].lapsed
    /\ jobs' = [jobs EXCEPT ![j].lapsed = FALSE]
    /\ UNCHANGED <<exists, fp, scan, worker, window, issued, upsets, rolledOut,
                   stored, alerts>>

\* A success leaves the account's rate window.
AgeOut(j) ==
    /\ j \in window
    /\ window' = window \ {j}
    /\ UNCHANGED <<jobs, exists, fp, scan, worker, issued, upsets, rolledOut,
                   stored, alerts>>

\* Mutant: the UPDATE names the row and says nothing of its status.
CancelAny(j) ==
    /\ Upset("cancel")
    /\ RowExists(j)
    /\ jobs' = [jobs EXCEPT ![j] = [@ EXCEPT !.status = "CANCELLED",
                                             !.lockedBy = NoOne, !.lapsed = FALSE]]
    /\ UNCHANGED <<exists, fp, scan, worker, window, issued, rolledOut,
                   stored, alerts>>

\* DELETE /api/v1/renewals/:id
CancelRenewalJob(j) ==
    /\ Upset("cancel")
    /\ Outstanding(j)
    /\ jobs' = [jobs EXCEPT ![j] = [@ EXCEPT !.status = "CANCELLED",
                                             !.lockedBy = NoOne, !.lapsed = FALSE]]
    /\ UNCHANGED <<exists, fp, scan, worker, window, issued, rolledOut,
                   stored, alerts>>

\* DELETE /api/v1/certificates/:id, and ON DELETE CASCADE on its jobs.
DeleteCertificate(c) ==
    /\ Upset("delete")
    /\ exists[c]
    /\ exists' = [exists EXCEPT ![c] = FALSE]
    /\ jobs' = [j \in Jobs |-> IF jobs[j].cert = c
                               THEN [jobs[j] EXCEPT !.status = "DELETED",
                                                    !.lockedBy = NoOne, !.lapsed = FALSE]
                               ELSE jobs[j]]
    /\ window' = {j \in window : jobs[j].cert # c}
    /\ UNCHANGED <<fp, scan, worker, issued, rolledOut, stored, alerts>>

\* A core process dies: its goroutines are gone, its rows stay as they are.
Crash(r) ==
    /\ Upset("crash")
    /\ worker' = [w \in Workers |-> IF ReplicaOf[w] = r THEN IdleWorker ELSE worker[w]]
    /\ scan' = [scan EXCEPT ![r] = NoScan]
    /\ UNCHANGED <<jobs, exists, fp, window, issued, rolledOut, stored, alerts>>

-----------------------------------------------------------------------------

WorkerStep(w) ==
    \/ \E j \in Jobs : ClaimRenewalJob(w, j)
    \/ Check(w) \/ ReadCertificate(w) \/ CallAccepted(w) \/ CallFailed(w)
    \/ RecordFailure(w) \/ StoreCertificate(w) \/ Rollout(w)
    \/ CompleteRenewalJob(w) \/ DeferRenewalJob(w) \/ Announce(w)

Next ==
    \/ \E r \in Replicas : \/ \E c \in Certs : ReadForEnqueue(r, c)
                           \/ \E j \in Jobs : EnqueueRenewal(r, j)
                           \/ Crash(r)
    \/ \E w \in Workers : WorkerStep(w) \/ ExtendRenewalLease(w)
    \/ \E j \in Jobs : BecomeDue(j) \/ LeaseLapses(j) \/ AgeOut(j) \/ CancelRenewalJob(j)
    \/ \E c \in Certs : DeleteCertificate(c)

Spec == Init /\ [][Next]_vars

\* What the code's scheduling justifies: goroutines keep running, clocks move,
\* and a CA asked again and again signs in the end. Nobody has to enqueue, cancel
\* or delete, and no failure has to happen.
ReadSucceeds(w) == ReadCertificate(w) /\ worker'[w].pc = "call"
Expires(j) == ~Held(j) /\ LeaseLapses(j)

Fairness ==
    /\ \A w \in Workers : WF_vars(WorkerStep(w))
    /\ SF_vars(\E w \in Workers : ReadSucceeds(w))
    /\ SF_vars(\E w \in Workers : CallAccepted(w))
    /\ \A j \in Jobs : WF_vars(BecomeDue(j)) /\ WF_vars(Expires(j)) /\ WF_vars(AgeOut(j))

LiveSpec == Spec /\ Fairness

-----------------------------------------------------------------------------
(* Properties *)

\* The rows, the goroutines and the counters have the types of the schema and
\* of the Go structs.
TypeOK ==
    /\ jobs \in [Jobs -> JobRow]
    /\ exists \in [Certs -> BOOLEAN]
    /\ fp \in [Certs -> Nat]
    /\ scan \in [Replicas -> ScanState]
    /\ worker \in [Workers -> WorkerState]
    /\ window \subseteq Jobs
    /\ issued \in Nat
    /\ upsets \in [count : Nat, met : SUBSET Upsets]
    /\ rolledOut \in [Certs -> Nat]
    /\ stored \in [Jobs -> 0..2]
    /\ alerts \in [Jobs -> 0..2]

\* The lock columns follow the status through every unguarded write: a row is
\* locked exactly while it is RUNNING, and only then can its lease lapse. A row
\* RUNNING without a lock could never be claimed again.
LockFollowsStatus ==
    \A j \in Jobs : /\ jobs[j].status = "RUNNING" <=> jobs[j].lockedBy # NoOne
                    /\ jobs[j].lapsed => jobs[j].status = "RUNNING"

\* The partial unique index, under every order of enqueues, cancellations and
\* late writes: two outstanding jobs never name one certificate.
OneOutstandingPerCertificate ==
    \A j, k \in Jobs : Outstanding(j) /\ Outstanding(k) /\ jobs[j].cert = jobs[k].cert
                          => j = k

\* Between the claim of a job and the last write to it.
Holds(w, j) == worker[w].job = j /\ worker[w].pc \notin {"idle", "announce"}

\* None of these classes has been met so far.
Without(classes) == upsets.met \cap classes = {}
\* No live worker has lost its lease: heartbeats have been on time.
Reliable == Without({"lapse"})
Undisturbed == Without({"lapse", "cancel"})

\* claim, lease and heartbeat together: while heartbeats are on time, no two
\* goroutines of any replicas execute the same renewal job, whatever crashes,
\* cancellations, deletions and failed writes happen in between.
OneHolderPerJob ==
    Reliable => \A v, w \in Workers, j \in Jobs : Holds(v, j) /\ Holds(w, j) => v = w

\* The reason there is no leader election (migration 013): with heartbeats on
\* time and nobody cancelling, one certificate is being renewed by one goroutine
\* at most, so one renewal never becomes two certificates.
OneRenewerPerCertificate ==
    Undisturbed =>
        \A v, w \in Workers :
            v # w /\ worker[v].pc \notin {"idle", "announce"}
                  /\ worker[w].pc \notin {"idle", "announce"}
            => jobs[worker[v].job].cert # jobs[worker[w].job].cert

\* The crash guard: one job replaces its certificate in the store at most once,
\* however often its worker dies and it is claimed again.
StoredOncePerJob == Undisturbed => \A j \in Jobs : stored[j] <= 1

\* A certificate newer than the last roll-out is in the hands of the goroutine
\* that is about to queue its deployments, unless a process died or EnqueueFor
\* failed: a stored renewal is never left behind.
NothingLeftBehind ==
    Undisturbed /\ Without({"crash", "rollout"}) =>
        \A c \in Certs : exists[c] /\ fp[c] # rolledOut[c] =>
            \E w \in Workers : /\ worker[w].pc = "rollout" /\ worker[w].new = fp[c]
                               /\ jobs[worker[w].job].cert = c

\* escalated_at persists the escalation, so a failing job raises its CRITICAL
\* event at most once over all its attempts on all replicas.
AlertOncePerJob ==
    Reliable /\ Without({"complete"}) => \A j \in Jobs : alerts[j] <= 1

\* Workers that have passed rateLimited and may still count as a renewal.
PastQuota == {w \in Workers :
    \/ worker[w].pc \in {"read", "call", "refused", "store", "rollout"}
    \/ worker[w].pc = "finish" /\ stored[worker[w].job] > 0}

\* rateLimited counts completed jobs in the database, and every worker may pass
\* it before the others complete: the certificates really renewed inside the
\* window overshoot the account's limit by at most the number of workers less
\* one. (Jobs the crash guard closes are counted against the quota as well: they
\* can only make it stricter.)
BoundedOvershoot ==
    Without(Upsets) /\ RateLimit > 0 =>
        Cardinality({j \in window : stored[j] > 0}) + Cardinality(PastQuota)
            <= RateLimit + Cardinality(Workers) - 1

\* While heartbeats are on time a succeeded job is final: no later write, of a
\* slow worker or a retry, puts it back in the queue or cancels it.
SucceededIsFinal ==
    [][Reliable => \A j \in Jobs : jobs[j].status = "SUCCEEDED"
                                     => jobs'[j].status \in {"SUCCEEDED", "DELETED"}]_vars

\* The lease is "the difference between the process died and that certificate
\* is now stuck forever": every job queued leaves the queue in the end, across
\* crashes, failed writes, lapsed leases and rate limits.
EveryJobSettles == \A j \in Jobs : Outstanding(j) ~> ~Outstanding(j)

-----------------------------------------------------------------------------
(* What comments of the repository say and the code does not do *)

\* A renewal deploys itself: once its job has succeeded, the certificate the
\* record holds is one whose deployments have been queued.
SucceededIsRolledOut ==
    \A j \in Jobs : jobs[j].status = "SUCCEEDED" /\ exists[jobs[j].cert]
                      => rolledOut[jobs[j].cert] = fp[jobs[j].cert]
=============================================================================
