-------------------------- MODULE DeploymentQueue --------------------------
(***************************************************************************)
(* The durable deployment queue: how one certificate reaches the places it *)
(* is bound to. Rollouts (a renewal, or an operator pressing deploy) insert *)
(* one job per place; workers of every replica claim jobs under the wave   *)
(* and canary rules of the claim query, install the certificate as it      *)
(* stands at that moment, and write down what happened.                    *)
(*                                                                         *)
(* As in RenewalQueue every SQL statement is a step, and clock readings    *)
(* are the facts derived from them: a job is due, a lease has lapsed.      *)
(* Certificates are numbered in the order the renewals store them.         *)
(***************************************************************************)
EXTENDS Integers, Sequences, FiniteSets

CONSTANTS
    Places,       \* certificate_deployments rows of the certificate
    Listing,      \* the order ListCertificateDeployments returns them in
    Wave,         \* [Places -> Nat]: deploy_order of each place's target
    OptedOut,     \* places with deploy_on_renewal = false
    Jobs,         \* row identities of deployment_jobs, a finite supply
    Workers,      \* worker goroutines, one per replica
    Planners,     \* calls of EnqueueFor that can be in progress at once
    Escalates,    \* the answers shouldEscalate can give: a subset of BOOLEAN
    MaxRenewals,  \* bound: renewals stored in one behaviour
    MaxManual,    \* bound: rollouts asked for by an operator
    Upsets,       \* the failures and interventions this instance meets
    MaxUpsets,    \* bound: how many of them in one behaviour
    NoOne         \* SQL NULL / nil

UpsetClasses == {"unread",    \* GetDeploymentTarget returns an error
                 "crash",     \* a core process dies
                 "lapse",     \* a live worker's lease expires under it
                 "fail",      \* the far side refuses, or answers too late
                 "record",    \* RecordDeploymentOutcome returns an error
                 "complete",  \* CompleteDeploymentJob returns an error
                 "cancel",    \* somebody cancels a job
                 "switch"}    \* somebody switches a place off or on

ASSUME DeploymentAssumption ==
    /\ Listing \in Seq(Places) /\ Listing # << >>
    /\ IsFiniteSet(Workers)
    /\ \A p \in Places : \E i \in DOMAIN Listing : Listing[i] = p
    /\ Wave \in [Places -> Nat] /\ OptedOut \subseteq Places
    /\ Escalates \subseteq BOOLEAN /\ Escalates # {}
    /\ MaxRenewals \in Nat /\ MaxManual \in Nat /\ MaxUpsets \in Nat
    /\ Upsets \subseteq UpsetClasses
    /\ NoOne \notin Places /\ NoOne \notin Jobs /\ NoOne \notin Workers

VARIABLES
    cert,      \* the certificate the record holds now
    enabled,   \* [Places -> BOOLEAN]: certificate_deployments.is_enabled
    jobs,      \* [Jobs -> JobRow]
    worker,    \* [Workers -> WorkerState]
    planner,   \* [Planners -> PlannerState]
    holds,     \* [Places -> certificate]: what the far side really has
    deployed,  \* [Places -> certificate]: certificate_deployments.deployed_fingerprint
    manual,    \* rollouts by operators so far
    upsets,    \* how many upsets so far, and of which classes
    accepted,  \* history: [Places -> SUBSET certificates] installs that succeeded
    tried,     \* history: [Places -> BOOLEAN] the newest certificate was attempted
    alerts     \* history: [Jobs -> 0..2] CRITICAL events published, per job

vars == <<cert, enabled, jobs, worker, planner, holds, deployed, manual, upsets,
          accepted, tried, alerts>>

-----------------------------------------------------------------------------
Fingerprints == 0..MaxRenewals

\* FAILED is permitted by the table and tested by the claim query; no code
\* writes it, so no row has it.
Statuses == {"FREE", "PENDING", "RUNNING", "SUCCEEDED", "CANCELLED"}

JobRow == [status    : Statuses,
           place     : Places \cup {NoOne},
           wave      : Nat,                  \* deploy_order, as the rollout read it
           due       : BOOLEAN,              \* run_after <= now
           lockedBy  : Workers \cup {NoOne},
           lapsed    : BOOLEAN,              \* locked_until < now
           failed    : BOOLEAN,              \* last_error <> ''
           escalated : BOOLEAN]              \* escalated_at IS NOT NULL

FreeRow == [status |-> "FREE", place |-> NoOne, wave |-> 0, due |-> FALSE,
            lockedBy |-> NoOne, lapsed |-> FALSE, failed |-> FALSE, escalated |-> FALSE]

QueuedRow(p, n) == [FreeRow EXCEPT !.status = "PENDING", !.place = p, !.wave = n, !.due = TRUE]

\* pc is what the goroutine does next; fp is the bundle it built.
WorkerState == [pc        : {"idle", "read", "install", "record", "finish", "announce"},
                job       : Jobs \cup {NoOne},
                fp        : Fingerprints,
                ok        : BOOLEAN,
                escalated : BOOLEAN]        \* job.EscalatedAt as of the claim

IdleWorker == [pc |-> "idle", job |-> NoOne, fp |-> 0, ok |-> FALSE, escalated |-> FALSE]

\* A call of EnqueueFor: next is the index of the binding to queue next, off the
\* bindings that were switched off when they were listed, unread those whose
\* target could not be read.
PlannerState == [pc        : {"idle", "list", "queue"},
                 next      : 1..Len(Listing),
                 automatic : BOOLEAN,
                 off       : SUBSET Places,
                 unread    : SUBSET Places]

NoRollout == [pc |-> "idle", next |-> 1, automatic |-> FALSE, off |-> {}, unread |-> {}]
Rollout(auto) == [NoRollout EXCEPT !.pc = "list", !.automatic = auto]

Outstanding(j) == jobs[j].status \in {"PENDING", "RUNNING"}

\* Mutant: the index leaves RUNNING rows out.
PendingPerPlace(j, p) ==
    ~ \E k \in Jobs \ {j} : jobs[k].status = "PENDING" /\ jobs[k].place = p

\* The partial unique index idx_deployment_jobs_one_outstanding, on the place.
IndexAllows(j, p) == ~ \E k \in Jobs \ {j} : Outstanding(k) /\ jobs[k].place = p

Twice(n) == IF n < 2 THEN n + 1 ELSE 2

Upset(class) == /\ class \in Upsets
                /\ upsets.count < MaxUpsets
                /\ upsets' = [count |-> upsets.count + 1, met |-> upsets.met \cup {class}]

Goto(w, pc) == worker' = [worker EXCEPT ![w] = [worker[w] EXCEPT !.pc = pc]]

Init ==
    /\ cert = 0
    /\ enabled = [p \in Places |-> TRUE]
    /\ jobs = [j \in Jobs |-> FreeRow]
    /\ worker = [w \in Workers |-> IdleWorker]
    /\ planner = [e \in Planners |-> NoRollout]
    /\ holds = [p \in Places |-> 0]
    /\ deployed = [p \in Places |-> 0]
    /\ manual = 0
    /\ upsets = [count |-> 0, met |-> {}]
    /\ accepted = [p \in Places |-> {0}]
    /\ tried = [p \in Places |-> FALSE]
    /\ alerts = [j \in Jobs |-> 0]

-----------------------------------------------------------------------------
(* Rollouts *)

\* The renewal executor stores the certificate and then calls EnqueueFor. A
\* renewal queue runs one renewal of a certificate at a time.
StoreRenewal(e) ==
    /\ planner[e] = NoRollout
    /\ \A d \in Planners : ~planner[d].automatic
    /\ cert < MaxRenewals
    /\ cert' = cert + 1
    /\ tried' = [p \in Places |-> FALSE]
    /\ planner' = [planner EXCEPT ![e] = Rollout(TRUE)]
    /\ UNCHANGED <<enabled, jobs, worker, holds, deployed, manual, upsets, accepted, alerts>>

\* An operator presses deploy.
DeployManually(e) ==
    /\ planner[e] = NoRollout
    /\ manual < MaxManual
    /\ manual' = manual + 1
    /\ planner' = [planner EXCEPT ![e] = Rollout(FALSE)]
    /\ UNCHANGED <<cert, enabled, jobs, worker, holds, deployed, upsets, accepted, tried,
                   alerts>>

\* What a rollout knows once it has read the bindings and their targets.
Listed(e, unread) == [planner[e] EXCEPT !.pc = "queue", !.unread = unread,
                                        !.off = {p \in Places : ~enabled[p]}]

\* ListCertificateDeployments and the targets' waves: read once, at the start.
ListPlaces(e) ==
    /\ planner[e].pc = "list"
    /\ planner' = [planner EXCEPT ![e] = Listed(e, {})]
    /\ UNCHANGED <<cert, enabled, jobs, worker, holds, deployed, manual, upsets, accepted,
                   tried, alerts>>

\* Some target cannot be read: a warning is logged, and the rollout goes on.
WaveUnread(e) ==
    /\ planner[e].pc = "list"
    /\ Upset("unread")
    /\ \E p \in Places : planner' = [planner EXCEPT ![e] = Listed(e, {p})]
    /\ UNCHANGED <<cert, enabled, jobs, worker, holds, deployed, manual, accepted, tried,
                   alerts>>

\* The wave a job is queued with. A target that could not be read is in the first.
WaveRead(e, p) == IF p \in planner[e].unread THEN 0 ELSE Wave[p]

\* Mutant: the loop runs one binding too far.
AdvanceTooFar(e) ==
    planner' = [planner EXCEPT ![e] =
                  IF planner[e].next > Len(Listing)
                  THEN NoRollout
                  ELSE [planner[e] EXCEPT !.next = planner[e].next + 1]]

\* On to the next binding of the loop.
Advance(e) ==
    planner' = [planner EXCEPT ![e] =
                  IF planner[e].next = Len(Listing)
                  THEN NoRollout
                  ELSE [planner[e] EXCEPT !.next = planner[e].next + 1]]

\* The bindings the loop of EnqueueFor passes over.
Skips(e, p) == p \in planner[e].off \/ (planner[e].automatic /\ p \in OptedOut)

SkipPlace(e) ==
    /\ planner[e].pc = "queue"
    /\ Skips(e, Listing[planner[e].next])
    /\ Advance(e)
    /\ UNCHANGED <<cert, enabled, jobs, worker, holds, deployed, manual, upsets, accepted,
                   tried, alerts>>

\* EnqueueDeployment: INSERT ... ON CONFLICT DO NOTHING. With a job outstanding
\* for the place the rollout counts it as already queued and moves on.
EnqueueDeployment(e) ==
    /\ planner[e].pc = "queue"
    /\ LET p == Listing[planner[e].next] IN
         /\ ~Skips(e, p)
         /\ \E j \in Jobs :
              /\ jobs[j].status = "FREE"
              /\ jobs' = IF IndexAllows(j, p)
                         THEN [jobs EXCEPT ![j] = QueuedRow(p, WaveRead(e, p))]
                         ELSE jobs
    /\ Advance(e)
    /\ UNCHANGED <<cert, enabled, worker, holds, deployed, manual, upsets, accepted, tried,
                   alerts>>

\* The process dies, or an error ends EnqueueFor early: the rest is not queued.
RolloutCutShort(e) ==
    /\ planner[e].pc # "idle"
    /\ Upset("crash")
    /\ planner' = [planner EXCEPT ![e] = NoRollout]
    /\ UNCHANGED <<cert, enabled, jobs, worker, holds, deployed, manual, accepted, tried,
                   alerts>>

-----------------------------------------------------------------------------
(* The claim *)

\* Mutant: the claim takes a running job whatever its lease says.
ReadyWhileLeased(j) == \/ jobs[j].status = "PENDING" /\ jobs[j].due
                       \/ jobs[j].status = "RUNNING"

\* Waiting jobs whose time has come, and running ones whose lease has lapsed.
Ready(j) == \/ jobs[j].status = "PENDING" /\ jobs[j].due
            \/ jobs[j].status = "RUNNING" /\ jobs[j].lapsed

\* Mutant: a failure is seen only while it is being retried.
CanarySeesRetriesOnly(j) ==
    jobs[j].failed \/ ~ \E k \in Jobs \ {j} : jobs[k].status = "RUNNING" /\ jobs[k].failed

\* Mutant: jobs that have failed themselves wait too.
CanaryNoExemption(j) == ~ \E k \in Jobs \ {j} : Outstanding(k) /\ jobs[k].failed

\* A job that has not failed waits while another one for the certificate has.
CanaryAllows(j) ==
    jobs[j].failed \/ ~ \E k \in Jobs \ {j} : Outstanding(k) /\ jobs[k].failed

\* Mutant: the claim only orders by wave.
WaveOrdersOnly(j) == jobs[j].place \in Places

\* A job waits while anything in an earlier wave is outstanding.
WaveAllows(j) ==
    ~ \E k \in Jobs : Outstanding(k) /\ jobs[k].wave < jobs[j].wave

Claimable(j) == Ready(j) /\ CanaryAllows(j) /\ WaveAllows(j)

\* ClaimDeploymentJob: the row with the lowest wave among the claimable ones.
ClaimDeploymentJob(w) ==
    /\ worker[w].pc = "idle"
    /\ \E j \in Jobs :
         /\ Claimable(j)
         /\ \A k \in Jobs : Claimable(k) => jobs[j].wave <= jobs[k].wave
         /\ jobs' = [jobs EXCEPT ![j] = [jobs[j] EXCEPT !.status = "RUNNING",
                                                        !.lockedBy = w, !.lapsed = FALSE]]
         /\ worker' = [worker EXCEPT ![w] = [IdleWorker EXCEPT !.pc = "read", !.job = j,
                                               !.escalated = jobs[j].escalated]]
    /\ UNCHANGED <<cert, enabled, planner, holds, deployed, manual, upsets, accepted, tried,
                   alerts>>

-----------------------------------------------------------------------------
(* Executor.Deploy *)

PlaceOf(w) == jobs[worker[w].job].place

\* The binding, the target and then the certificate are read. What is installed
\* is the certificate as it stands now, not the one the job was created for.
BuildBundle(w) ==
    /\ worker[w].pc = "read"
    /\ worker' = [worker EXCEPT ![w] =
                    IF enabled[PlaceOf(w)]
                    THEN [worker[w] EXCEPT !.pc = "install", !.fp = cert]
                    ELSE [worker[w] EXCEPT !.pc = "finish", !.ok = FALSE]]
    /\ UNCHANGED <<cert, enabled, jobs, planner, holds, deployed, manual, upsets, accepted,
                   tried, alerts>>

\* An error on the way: a record that cannot be read, no body, no usable key.
\* Nothing is sent and no outcome is recorded on the place.
BuildFails(w) ==
    /\ worker[w].pc = "read"
    /\ Upset("fail")
    /\ worker' = [worker EXCEPT ![w] = [worker[w] EXCEPT !.pc = "finish", !.ok = FALSE]]
    /\ UNCHANGED <<cert, enabled, jobs, planner, holds, deployed, manual, accepted, tried,
                   alerts>>

Tried(w) == tried' = [tried EXCEPT ![PlaceOf(w)] = tried[PlaceOf(w)] \/ worker[w].fp = cert]

\* Mutant: the outcome of a success is not recorded on the place.
InstallUnrecorded(w) ==
    /\ worker[w].pc = "install"
    /\ holds' = [holds EXCEPT ![PlaceOf(w)] = worker[w].fp]
    /\ accepted' = [accepted EXCEPT ![PlaceOf(w)] = accepted[PlaceOf(w)] \cup {worker[w].fp}]
    /\ worker' = [worker EXCEPT ![w] = [worker[w] EXCEPT !.pc = "finish", !.ok = TRUE]]
    /\ Tried(w)
    /\ UNCHANGED <<cert, enabled, jobs, planner, deployed, manual, upsets, alerts>>

\* deployer.Deploy succeeds: the far side now has the bundle.
InstallSucceeds(w) ==
    /\ worker[w].pc = "install"
    /\ holds' = [holds EXCEPT ![PlaceOf(w)] = worker[w].fp]
    /\ accepted' = [accepted EXCEPT ![PlaceOf(w)] = accepted[PlaceOf(w)] \cup {worker[w].fp}]
    /\ worker' = [worker EXCEPT ![w] = [worker[w] EXCEPT !.pc = "record", !.ok = TRUE]]
    /\ Tried(w)
    /\ UNCHANGED <<cert, enabled, jobs, planner, deployed, manual, upsets, alerts>>

\* deployer.Deploy returns an error. After a timeout the far side may have the
\* bundle all the same.
InstallFails(w) ==
    /\ worker[w].pc = "install"
    /\ Upset("fail")
    /\ holds' \in {holds, [holds EXCEPT ![PlaceOf(w)] = worker[w].fp]}
    /\ worker' = [worker EXCEPT ![w] = [worker[w] EXCEPT !.pc = "record", !.ok = FALSE]]
    /\ Tried(w)
    /\ UNCHANGED <<cert, enabled, jobs, planner, deployed, manual, accepted, alerts>>

\* RecordDeploymentOutcome, unconditional on the row it updates; the statement
\* has deployed_fingerprint in it only after a success.
RecordDeploymentOutcome(w) ==
    /\ worker[w].pc = "record"
    /\ deployed' = IF worker[w].ok
                   THEN [deployed EXCEPT ![PlaceOf(w)] = worker[w].fp]
                   ELSE deployed
    /\ Goto(w, "finish")
    /\ UNCHANGED <<cert, enabled, jobs, planner, holds, manual, upsets, accepted, tried,
                   alerts>>

\* An error is logged, and the deployment goes on as if it had been recorded.
RecordOutcomeFails(w) ==
    /\ worker[w].pc = "record"
    /\ Upset("record")
    /\ Goto(w, "finish")
    /\ UNCHANGED <<cert, enabled, jobs, planner, holds, deployed, manual, accepted, tried,
                   alerts>>

\* Mutant: the update forgets that the job has been announced.
RetryForgets(j, esc) ==
    [jobs[j] EXCEPT !.status = "PENDING", !.due = FALSE, !.failed = TRUE,
                    !.lockedBy = NoOne, !.lapsed = FALSE, !.escalated = FALSE]

\* The row after a failed attempt, and below after a successful one.
RetryRow(j, esc) ==
    [jobs[j] EXCEPT !.status = "PENDING", !.due = FALSE, !.failed = TRUE,
                    !.lockedBy = NoOne, !.lapsed = FALSE,
                    !.escalated = jobs[j].escalated \/ esc]

\* Mutant: only a retry releases the lock.
DoneKeepsLock(j) == [jobs[j] EXCEPT !.status = "SUCCEEDED", !.failed = FALSE]

DoneRow(j) == [jobs[j] EXCEPT !.status = "SUCCEEDED", !.failed = FALSE,
                              !.lockedBy = NoOne, !.lapsed = FALSE]

\* CompleteDeploymentJob has no condition on the row's status or holder. Making
\* a row PENDING again can only be refused by the index.
CompleteDeploymentJob(w) ==
    LET j == worker[w].job IN
    /\ worker[w].pc = "finish"
    /\ \/ /\ worker[w].ok
          /\ jobs' = [jobs EXCEPT ![j] = DoneRow(j)]
          /\ worker' = [worker EXCEPT ![w] = IdleWorker]
       \/ /\ ~worker[w].ok
          /\ \E esc \in Escalates :
               /\ jobs' = IF IndexAllows(j, jobs[j].place)
                          THEN [jobs EXCEPT ![j] = RetryRow(j, esc)]
                          ELSE jobs
               /\ IF esc /\ ~worker[w].escalated
                  THEN Goto(w, "announce")
                  ELSE worker' = [worker EXCEPT ![w] = IdleWorker]
    /\ UNCHANGED <<cert, enabled, planner, holds, deployed, manual, upsets, accepted, tried,
                   alerts>>

\* The update errs and is logged; an escalation is announced all the same.
CompletionLost(w) ==
    /\ worker[w].pc = "finish"
    /\ Upset("complete")
    /\ \E esc \in Escalates :
         IF ~worker[w].ok /\ esc /\ ~worker[w].escalated
         THEN Goto(w, "announce")
         ELSE worker' = [worker EXCEPT ![w] = IdleWorker]
    /\ UNCHANGED <<cert, enabled, jobs, planner, holds, deployed, manual, accepted, tried,
                   alerts>>

AnnounceEscalation(w) ==
    /\ worker[w].pc = "announce"
    /\ alerts' = [alerts EXCEPT ![worker[w].job] = Twice(alerts[worker[w].job])]
    /\ worker' = [worker EXCEPT ![w] = IdleWorker]
    /\ UNCHANGED <<cert, enabled, jobs, planner, holds, deployed, manual, upsets, accepted,
                   tried>>

-----------------------------------------------------------------------------
(* Time, failures and interventions *)

\* run_after passes.
BecomeDue(j) ==
    /\ jobs[j].status = "PENDING" /\ ~jobs[j].due
    /\ jobs' = [jobs EXCEPT ![j] = [jobs[j] EXCEPT !.due = TRUE]]
    /\ UNCHANGED <<cert, enabled, worker, planner, holds, deployed, manual, upsets, accepted,
                   tried, alerts>>

Held(j) == \E w \in Workers : worker[w].pc # "idle" /\ worker[w].job = j

\* locked_until passes: nobody extends the lease any more.
LeaseRunsOut(j) ==
    /\ jobs[j].status = "RUNNING" /\ ~jobs[j].lapsed
    /\ ~Held(j)
    /\ jobs' = [jobs EXCEPT ![j] = [jobs[j] EXCEPT !.lapsed = TRUE]]
    /\ UNCHANGED <<cert, enabled, worker, planner, holds, deployed, manual, upsets, accepted,
                   tried, alerts>>

\* The heartbeat of a live worker is late, or has stopped because the process is
\* shutting down.
LeaseLapses(j) ==
    /\ jobs[j].status = "RUNNING" /\ ~jobs[j].lapsed
    /\ Held(j)
    /\ Upset("lapse")
    /\ jobs' = [jobs EXCEPT ![j] = [jobs[j] EXCEPT !.lapsed = TRUE]]
    /\ UNCHANGED <<cert, enabled, worker, planner, holds, deployed, manual, accepted, tried,
                   alerts>>

\* ExtendDeploymentLease, for a lease this worker still holds.
ExtendDeploymentLease(w) ==
    LET j == worker[w].job IN
    /\ worker[w].pc \in {"read", "install", "record", "finish"}
    /\ jobs[j].lockedBy = w /\ jobs[j].status = "RUNNING" /\ jobs[j].lapsed
    /\ jobs' = [jobs EXCEPT ![j] = [jobs[j] EXCEPT !.lapsed = FALSE]]
    /\ UNCHANGED <<cert, enabled, worker, planner, holds, deployed, manual, upsets, accepted,
                   tried, alerts>>

Crash(w) ==
    /\ worker[w].pc # "idle"
    /\ Upset("crash")
    /\ worker' = [worker EXCEPT ![w] = IdleWorker]
    /\ UNCHANGED <<cert, enabled, jobs, planner, holds, deployed, manual, accepted, tried,
                   alerts>>

CancelDeploymentJob(j) ==
    /\ Outstanding(j)
    /\ Upset("cancel")
    /\ jobs' = [jobs EXCEPT ![j] = [jobs[j] EXCEPT !.status = "CANCELLED",
                                      !.lockedBy = NoOne, !.lapsed = FALSE]]
    /\ UNCHANGED <<cert, enabled, worker, planner, holds, deployed, manual, accepted, tried,
                   alerts>>

SwitchPlace(p) ==
    /\ Upset("switch")
    /\ enabled' = [enabled EXCEPT ![p] = ~enabled[p]]
    /\ UNCHANGED <<cert, jobs, worker, planner, holds, deployed, manual, accepted, tried,
                   alerts>>

-----------------------------------------------------------------------------
PlannerProceeds(e) == ListPlaces(e) \/ SkipPlace(e) \/ EnqueueDeployment(e)

WorkerProceeds(w) ==
    \/ ClaimDeploymentJob(w)
    \/ BuildBundle(w)
    \/ InstallSucceeds(w)
    \/ RecordDeploymentOutcome(w)
    \/ CompleteDeploymentJob(w)
    \/ AnnounceEscalation(w)

Next ==
    \/ \E e \in Planners : \/ StoreRenewal(e) \/ DeployManually(e)
                           \/ PlannerProceeds(e) \/ WaveUnread(e) \/ RolloutCutShort(e)
    \/ \E w \in Workers : \/ WorkerProceeds(w) \/ BuildFails(w) \/ InstallFails(w)
                          \/ RecordOutcomeFails(w)
                          \/ CompletionLost(w) \/ ExtendDeploymentLease(w) \/ Crash(w)
    \/ \E j \in Jobs : \/ BecomeDue(j) \/ LeaseRunsOut(j) \/ LeaseLapses(j)
                       \/ CancelDeploymentJob(j)
    \/ \E p \in Places : SwitchPlace(p)

Spec == Init /\ [][Next]_vars

\* Worker goroutines and rollouts keep running, and clocks move. Nothing makes a
\* renewal, an operator or a failure happen.
Fairness ==
    /\ \A w \in Workers : WF_vars(WorkerProceeds(w))
    /\ \A e \in Planners : WF_vars(PlannerProceeds(e))
    /\ \A j \in Jobs : WF_vars(BecomeDue(j)) /\ WF_vars(LeaseRunsOut(j))

LiveSpec == Spec /\ Fairness

-----------------------------------------------------------------------------
(* Properties *)

\* Rows, goroutines, rollouts and records keep their shape; no rollout runs past
\* the bindings it listed.
TypeOK ==
    /\ cert \in Fingerprints
    /\ enabled \in [Places -> BOOLEAN]
    /\ jobs \in [Jobs -> JobRow]
    /\ worker \in [Workers -> WorkerState]
    /\ planner \in [Planners -> PlannerState]
    /\ holds \in [Places -> Fingerprints]
    /\ deployed \in [Places -> Fingerprints]
    /\ manual \in 0..MaxManual
    /\ upsets \in [count : Nat, met : SUBSET Upsets]
    /\ accepted \in [Places -> SUBSET Fingerprints]
    /\ tried \in [Places -> BOOLEAN]
    /\ alerts \in [Jobs -> 0..2]

\* A row is locked exactly while it is RUNNING, so no job is left in a state that
\* no claim takes it out of.
LockFollowsStatus == \A j \in Jobs : (jobs[j].lockedBy # NoOne) = (jobs[j].status = "RUNNING")

\* Never two outstanding jobs for one place, whatever late completions do.
OneOutstandingPerPlace ==
    \A j, k \in Jobs : Outstanding(j) /\ Outstanding(k) /\ jobs[j].place = jobs[k].place
                         => j = k

\* None of these classes has been met so far.
Without(classes) == upsets.met \cap classes = {}
\* No lease has lapsed under a live worker and nobody has cancelled a job.
LeasesHold == Without({"lapse", "cancel"})

\* A place whose record disagrees with what it really has is still being worked
\* on, across crashes, refusals, late answers and lost completions: there is an
\* outstanding job whose next attempt settles the disagreement.
RecordCatchesUp ==
    LeasesHold /\ Without({"record"}) =>
        \A p \in Places :
            deployed[p] = holds[p] \/ \E j \in Jobs : Outstanding(j) /\ jobs[j].place = p

\* While leases hold no place goes back from a certificate to an older one: a job
\* taken over by a second worker never lets the first one's bundle arrive last.
NeverDowngraded == [][LeasesHold => \A p \in Places : holds'[p] >= holds[p]]_vars

\* A certificate that every place refuses is tried at no more places than there
\* are workers before the canary rule stops the rollout. (A worker that dies
\* leaves no failure behind for the others to see.)
CanaryBoundsTheDamage ==
    Without(Upsets \ {"fail"}) /\ (\A p \in Places : cert \notin accepted[p])
      => Cardinality({p \in Places : tried[p]}) <= Cardinality(Workers)

\* The loop of EnqueueFor comes to q before it comes to p.
ListedBefore(q, p) ==
    \A k \in 1..Len(Listing) : Listing[k] = p => \E i \in 1..(k - 1) : Listing[i] = q

\* Every job for p was queued in the wave of p's target.
InItsWave(p) == \A j \in Jobs : jobs[j].place = p => jobs[j].wave = Wave[p]

\* A rollout that meets no other one's jobs: its certificate reaches a place only
\* after every place of an earlier wave that was queued before it has accepted it,
\* provided its target could be read and nobody cancels or switches a place off.
StagingFirst ==
    Without({"cancel", "switch"}) /\ cert + manual <= 1 =>
        \A p, q \in Places :
            Wave[q] < Wave[p] /\ ListedBefore(q, p) /\ q \notin OptedOut /\ InItsWave(p)
              => holds[p] \in accepted[q]

\* While leases hold and completions are written, a job that needs somebody's
\* attention is announced at most once over all its attempts.
AnnouncedOnce ==
    LeasesHold /\ Without({"complete"}) => \A j \in Jobs : alerts[j] <= 1

\* Every job leaves the queue in the end: no failure, crash or lapsed lease makes
\* jobs wait for each other forever.
EveryDeploymentSettles == \A j \in Jobs : Outstanding(j) ~> ~Outstanding(j)
=============================================================================
