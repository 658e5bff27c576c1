--------------------------- MODULE MemoryRenewals ---------------------------
(***************************************************************************)
(* The renewal queue of MemoryStore: a slice of jobs in the order they     *)
(* were enqueued, searched from the front under the store's lock. It       *)
(* implements JobTable.                                                    *)
(***************************************************************************)
EXTENDS Integers, Sequences, FiniteSets, Common

CONSTANTS JobIds, Certificates, Deadline, Holders, LeaseTime, MaxTries, MaxTime

ASSUME MemoryRenewalsAssumption ==
    /\ Deadline \in [Certificates -> Nat \cup {Nil}] /\ LeaseTime \in Nat \ {0}
    /\ MaxTries \in Nat /\ MaxTime \in Nat /\ IsFiniteSet(JobIds) /\ Nil \notin Nat

VARIABLES
    renewalJobs,    \* the slice
    time            \* the now that callers pass in

memoryVars == <<renewalJobs, time>>

MemoryTimes == 0..(MaxTime + LeaseTime)
MemoryJob ==
    [id : JobIds, certificateID : Certificates, status : {"PENDING", "RUNNING", "SUCCEEDED", "CANCELLED"}, runAfter : MemoryTimes,
     lockedBy : Holders \cup {Nil}, lockedUntil : MemoryTimes \cup {Nil}, attempts : 0..MaxTries, startedAt : BOOLEAN]

MemoryInit == renewalJobs = <<>> /\ time = 0

IsOutstanding(job) == job.status \in {"PENDING", "RUNNING"}
Index(id) == CHOOSE i \in DOMAIN renewalJobs : renewalJobs[i].id = id
Used(id) == \E i \in DOMAIN renewalJobs : renewalJobs[i].id = id

\* The loop of EnqueueRenewal.
AlreadyQueued(c) ==
    \E i \in DOMAIN renewalJobs : renewalJobs[i].certificateID = c /\ IsOutstanding(renewalJobs[i])

EnqueueRenewal(id, c, after) ==
    /\ ~Used(id) /\ ~AlreadyQueued(c)
    /\ renewalJobs' = Append(renewalJobs, [id |-> id, certificateID |-> c, status |-> "PENDING", runAfter |-> after,
                                           lockedBy |-> Nil, lockedUntil |-> Nil, attempts |-> 0, startedAt |-> FALSE])
    /\ UNCHANGED time

IsReady(job) ==
    \/ job.status = "PENDING" /\ job.runAfter <= time
    \/ job.status = "RUNNING" /\ job.lockedUntil # Nil /\ job.lockedUntil < time

\* Mutant of moreUrgent: a job without a deadline is compared by run_after.
moreUrgentByAge(a, b) ==
    LET da == Deadline[a.certificateID]
        db == Deadline[b.certificateID]
    IN  IF da = Nil \/ db = Nil \/ da = db THEN a.runAfter < b.runAfter ELSE da < db

moreUrgent(a, b) ==
    LET da == Deadline[a.certificateID]
        db == Deadline[b.certificateID]
    IN  CASE da = Nil /\ db = Nil -> a.runAfter < b.runAfter
          [] da = Nil /\ db # Nil -> FALSE
          [] da # Nil /\ db = Nil -> TRUE
          [] OTHER -> IF da = db THEN a.runAfter < b.runAfter ELSE da < db

\* The scan of ClaimRenewalJob: the first ready job, replaced by a later one
\* only when that is more urgent. 0 is none.
Better(best, i) ==
    IF IsReady(renewalJobs[i]) /\ (best = 0 \/ moreUrgent(renewalJobs[i], renewalJobs[best])) THEN i ELSE best
BestUpTo[i \in 0..Len(renewalJobs)] == IF i = 0 THEN 0 ELSE Better(BestUpTo[i - 1], i)
Best == BestUpTo[Len(renewalJobs)]

ClaimRenewalJob(w) ==
    /\ Best # 0 /\ renewalJobs[Best].attempts < MaxTries
    /\ renewalJobs' = [renewalJobs EXCEPT ![Best].status = "RUNNING", ![Best].lockedBy = w,
                                          ![Best].lockedUntil = time + LeaseTime, ![Best].attempts = @ + 1,
                                          ![Best].startedAt = TRUE]
    /\ UNCHANGED time

ExtendRenewalLease(id, w) ==
    /\ Used(id) /\ renewalJobs[Index(id)].status = "RUNNING" /\ renewalJobs[Index(id)].lockedBy = w
    /\ renewalJobs' = [renewalJobs EXCEPT ![Index(id)].lockedUntil = time + LeaseTime]
    /\ UNCHANGED time

\* CompleteRenewalJob looks at the id alone: a worker whose job was taken over
\* or cancelled meanwhile still writes its outcome.
CompleteRenewalJob(id, status, after) ==
    /\ Used(id) /\ renewalJobs[Index(id)].startedAt
    /\ renewalJobs' = [renewalJobs EXCEPT ![Index(id)].status = status, ![Index(id)].lockedBy = Nil, ![Index(id)].lockedUntil = Nil,
                                          ![Index(id)].runAfter = IF status = "PENDING" THEN after ELSE @]
    /\ UNCHANGED time

DeferRenewalJob(id, after) ==
    /\ Used(id) /\ renewalJobs[Index(id)].startedAt
    /\ renewalJobs' = [renewalJobs EXCEPT ![Index(id)].status = "PENDING", ![Index(id)].lockedBy = Nil, ![Index(id)].lockedUntil = Nil,
                                          ![Index(id)].runAfter = after,
                                          ![Index(id)].attempts = IF @ > 0 THEN @ - 1 ELSE @]
    /\ UNCHANGED time

CancelRenewalJob(id) ==
    /\ Used(id) /\ IsOutstanding(renewalJobs[Index(id)])
    /\ renewalJobs' = [renewalJobs EXCEPT ![Index(id)].status = "CANCELLED", ![Index(id)].lockedBy = Nil, ![Index(id)].lockedUntil = Nil]
    /\ UNCHANGED time

MemoryTime == time < MaxTime /\ time' = time + 1 /\ UNCHANGED renewalJobs

MemoryNext ==
    \/ \E id \in JobIds, c \in Certificates, after \in {time, time + 1} : EnqueueRenewal(id, c, after)
    \/ \E w \in Holders : ClaimRenewalJob(w)
    \/ \E id \in JobIds, w \in Holders : ExtendRenewalLease(id, w)
    \/ \E id \in JobIds, status \in {"PENDING", "SUCCEEDED"} : CompleteRenewalJob(id, status, time + 1)
    \/ \E id \in JobIds : DeferRenewalJob(id, time + 1) \/ CancelRenewalJob(id)
    \/ MemoryTime

-----------------------------------------------------------------------------
MemoryTypeOK == renewalJobs \in Seq(MemoryJob) /\ time \in 0..MaxTime

\* The table a reader of the slice sees.
TableOf ==
    [j \in JobIds |->
        IF ~Used(j) THEN [status |-> "FREE", cert |-> Nil, after |-> 0, holder |-> Nil, until |-> 0, tries |-> 0, begun |-> FALSE]
        ELSE LET job == renewalJobs[Index(j)] IN
             [status |-> IF IsOutstanding(job) THEN job.status ELSE "CLOSED", cert |-> job.certificateID, after |-> job.runAfter,
              holder |-> job.lockedBy, until |-> IF job.lockedUntil = Nil THEN 0 ELSE job.lockedUntil, tries |-> job.attempts,
              begun |-> job.startedAt]]

Table == INSTANCE JobTable WITH rows <- TableOf

\* Every step of the slice is a step of the table: the scan for the most
\* urgent job and the ordering of the SELECT agree, unknown deadlines and ties
\* included, and nothing is enqueued beside an outstanding job.
ImplementsTable == Table!TableSpec
=============================================================================
