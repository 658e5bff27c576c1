--------------------------- MODULE DiscoveryScans ---------------------------
(***************************************************************************)
(* Discovery: scans probe endpoints, judge what they serve against the     *)
(* inventory and against the last result, and store results in batches;    *)
(* operators import what was found. Scans may overlap (two operators, a    *)
(* schedule and an operator, two replicas).                                *)
(***************************************************************************)
EXTENDS Integers, FiniteSets, Common

CONSTANTS
    Endpoints,      \* targets, expanded
    Served,         \* certificates that endpoints serve, by fingerprint
    Scans,          \* scans, each run at most once
    Imports,        \* import requests in flight at once
    MaxMoves        \* bound: changes of what an endpoint serves

ASSUME DiscoveryAssumption == Nil \notin Served \cup Endpoints /\ Served # {} /\ MaxMoves \in Nat

VARIABLES
    serving,        \* [Endpoints -> Served \cup {Nil}]: Nil = does not answer
    inventory,      \* fingerprints of managed certificates
    latest,         \* [Endpoints -> ResultRow]: the newest row per endpoint
    probing,        \* [Scans -> ScanJob]: the goroutine of a scan
    scanStatus,     \* [Scans -> Status]: discovery_scans.status
    import,         \* [Imports -> ImportState]
    moves,          \* changes of what is served so far
    before,         \* history: [Endpoints -> ResultRow], the row the latest one followed
    vague,          \* history: endpoints whose latest row was not compared with the one before
    created         \* history: [Served -> Nat] records created

scansVars == <<serving, inventory, latest, probing, scanStatus, import, moves, before, vague, created>>

ResultRow == [state   : {"none", "UNREACHABLE", "UNMANAGED", "MANAGED"},
              fp      : Served \cup {Nil},
              finding : {"none", "changed", "disappeared", "appeared"}]
ScanJob == [at : {"none", "run", "ended", "dead"}, base : [Endpoints -> ResultRow], todo : SUBSET Endpoints,
            found : [Endpoints -> ResultRow], batch : SUBSET Endpoints, judged : SUBSET Endpoints, stored : SUBSET Endpoints,
            failed : BOOLEAN, cancelled : BOOLEAN]
ImportState == [at : {"idle", "create", "mark"}, endpoint : Endpoints \cup {Nil}, fp : Served \cup {Nil}]

NoResult == [state |-> "none", fp |-> Nil, finding |-> "none"]
NoBaseline == [e \in Endpoints |-> NoResult]
NoJob == [at |-> "none", base |-> NoBaseline, todo |-> {}, found |-> NoBaseline, batch |-> {},
          judged |-> {}, stored |-> {}, failed |-> FALSE, cancelled |-> FALSE]
NoImport == [at |-> "idle", endpoint |-> Nil, fp |-> Nil]

ScansInit ==
    /\ serving = [e \in Endpoints |-> CHOOSE c \in Served : TRUE]
    /\ inventory = {}
    /\ latest = NoBaseline /\ before = NoBaseline /\ vague = {}
    /\ probing = [s \in Scans |-> NoJob]
    /\ scanStatus = [s \in Scans |-> "none"]
    /\ import = [i \in Imports |-> NoImport]
    /\ moves = 0
    /\ created = [c \in Served |-> 0]

\* Somebody replaces a certificate, or an endpoint goes down or comes up.
EndpointMoves(e, c) ==
    /\ moves < MaxMoves /\ serving[e] # c
    /\ serving' = [serving EXCEPT ![e] = c]
    /\ moves' = moves + 1
    /\ UNCHANGED <<inventory, latest, probing, scanStatus, import, before, vague, created>>

-----------------------------------------------------------------------------
(* A scan.                                                                 *)

\* The newest row of each endpoint, whatever became of it.
GetLatestDiscoveryResults == latest

\* What was seen last; an error leaves the scan without a baseline.
LoadBaseline == {GetLatestDiscoveryResults, NoBaseline}

\* record: the row is written first; a scan that cannot be recorded does not run.
RecordScan(s) == scanStatus' = [scanStatus EXCEPT ![s] = "RUNNING"]

\* In the request for a few endpoints, behind it for many; then the baseline is read.
StartScan(s) ==
    /\ scanStatus[s] = "none"
    /\ RecordScan(s)
    /\ \E base \in LoadBaseline :
          probing' = [probing EXCEPT ![s] = [NoJob EXCEPT !.at = "run", !.base = base, !.todo = Endpoints]]
    /\ UNCHANGED <<serving, inventory, latest, import, moves, before, vague, created>>

\* Mutant of Reconcile: a change to a certificate that is managed is not shown.
ReconcileUnmanaged(previous, state, fp) ==
    IF state = "UNMANAGED" /\ previous.fp \notin {Nil, fp} THEN "changed" ELSE "none"

\* reconcile: against the previous row only. After an outage that row names no
\* certificate, so what is served then is never called changed.
Reconcile(previous, state, fp) ==
    CASE previous.state = "none" -> "none"
      [] previous.state # "UNREACHABLE" /\ state = "UNREACHABLE" -> "disappeared"
      [] previous.state = "UNREACHABLE" /\ state # "UNREACHABLE" -> "appeared"
      [] state # "UNREACHABLE" /\ previous.fp \notin {Nil, fp} -> "changed"
      [] OTHER -> "none"

\* judge: a fingerprint that cannot be looked up counts as unmanaged; after a
\* cancellation none can.
ManagedStates(s, fp) ==
    IF fp = Nil THEN {"UNREACHABLE"}
    ELSE IF fp \in inventory /\ ~probing[s].cancelled THEN {"MANAGED", "UNMANAGED"} ELSE {"UNMANAGED"}

ProbeEndpoint(s, e) ==
    LET job == probing[s]
        fp == serving[e]
    IN /\ job.at = "run" /\ e \in job.todo
       /\ \E state \in ManagedStates(s, fp) :
             probing' = [probing EXCEPT ![s] = [job EXCEPT !.todo = @ \ {e}, !.batch = @ \cup {e}, !.judged = @ \cup {e},
                            !.found[e] = [state |-> state, fp |-> fp,
                                          finding |-> Reconcile(job.base[e], state, fp)]]]
       /\ UNCHANGED <<serving, inventory, latest, scanStatus, import, moves, before, vague, created>>

\* flush: one transaction, not cut short by a cancellation.
FlushBatch(s) ==
    LET job == probing[s]
    IN /\ job.at = "run" /\ job.batch # {}
       /\ latest' = [e \in Endpoints |-> IF e \in job.batch THEN job.found[e] ELSE latest[e]]
       /\ before' = [e \in Endpoints |-> IF e \in job.batch THEN latest[e] ELSE before[e]]
       /\ vague' = (vague \ job.batch) \cup {e \in job.batch : job.base[e] # latest[e]}
       /\ probing' = [probing EXCEPT ![s].batch = {}, ![s].stored = @ \cup job.batch]
       /\ UNCHANGED <<serving, inventory, scanStatus, import, moves, created>>

FlushFails(s) ==
    /\ probing[s].at = "run" /\ probing[s].batch # {}
    /\ probing' = [probing EXCEPT ![s].batch = {}, ![s].failed = TRUE]
    /\ UNCHANGED <<serving, inventory, latest, scanStatus, import, moves, before, vague, created>>

\* Mutant of Finished: what is left of the last batch is not flushed.
FinishedUnflushed(job) == job.todo = {} \/ job.cancelled

\* Mutant of Finished: every endpoint is waited for, also after a cancellation.
FinishedAll(job) == job.todo = {} /\ job.batch = {} /\ ~job.cancelled

\* Every endpoint was probed, or the scan was cancelled; the last batch is flushed.
Finished(job) == (job.todo = {} \/ job.cancelled) /\ job.batch = {}

FinalStatus(job) ==
    IF job.failed THEN "FAILED" ELSE IF job.cancelled THEN "CANCELLED" ELSE "COMPLETED"

\* UpdateDiscoveryScan at the end; an error of it is only logged.
FinishScan(s) ==
    /\ probing[s].at = "run" /\ Finished(probing[s])
    /\ probing' = [probing EXCEPT ![s] = [NoJob EXCEPT !.at = "ended",
                                            !.judged = probing[s].judged, !.stored = probing[s].stored]]
    /\ \/ scanStatus' = [scanStatus EXCEPT ![s] = FinalStatus(probing[s])]
       \/ UNCHANGED scanStatus
    /\ UNCHANGED <<serving, inventory, latest, import, moves, before, vague, created>>

CancelScan(s) ==
    /\ probing[s].at = "run" /\ ~probing[s].cancelled
    /\ probing' = [probing EXCEPT ![s].cancelled = TRUE]
    /\ UNCHANGED <<serving, inventory, latest, scanStatus, import, moves, before, vague, created>>

\* The process stops: nothing takes the scan up, and its row stays RUNNING.
ScanDies(s) ==
    /\ probing[s].at = "run"
    /\ probing' = [probing EXCEPT ![s] = [NoJob EXCEPT !.at = "dead"]]
    /\ UNCHANGED <<serving, inventory, latest, scanStatus, import, moves, before, vague, created>>

-----------------------------------------------------------------------------
(* Import of a result.                                                     *)

\* Already managed: the result is pointed at it. Otherwise it will be created.
ImportResult(i, e) ==
    LET fp == latest[e].fp
    IN /\ import[i].at = "idle" /\ fp # Nil
       /\ import' = [import EXCEPT ![i] = [at |-> IF fp \in inventory THEN "mark" ELSE "create",
                                           endpoint |-> e, fp |-> fp]]
       /\ UNCHANGED <<serving, inventory, latest, probing, scanStatus, moves, before, vague, created>>

\* Mutant of NotManaged: no constraint on the fingerprint.
NotManagedAsRead(fp) == TRUE

\* fingerprint_sha256 is unique
NotManaged(fp) == fp \notin inventory

CreateImported(i) ==
    LET fp == import[i].fp
    IN /\ import[i].at = "create"
       /\ IF NotManaged(fp)
          THEN /\ inventory' = inventory \cup {fp}
               /\ created' = [created EXCEPT ![fp] = @ + 1]
               /\ import' = [import EXCEPT ![i].at = "mark"]
          ELSE import' = [import EXCEPT ![i] = NoImport] /\ UNCHANGED <<inventory, created>>
       /\ UNCHANGED <<serving, latest, probing, scanStatus, moves, before, vague>>

\* The row that was imported, which may no longer be the newest one.
MarkDiscoveryResultImported(i) ==
    LET e == import[i].endpoint
    IN /\ import[i].at = "mark"
       /\ latest' = IF latest[e].fp = import[i].fp THEN [latest EXCEPT ![e].state = "MANAGED"] ELSE latest
       /\ import' = [import EXCEPT ![i] = NoImport]
       /\ UNCHANGED <<serving, inventory, probing, scanStatus, moves, before, vague, created>>

\* The certificate enters the inventory by another request: CreateCertificate.
ManagedElsewhere(c) ==
    /\ c \notin inventory
    /\ inventory' = inventory \cup {c}
    /\ created' = [created EXCEPT ![c] = @ + 1]
    /\ UNCHANGED <<serving, latest, probing, scanStatus, import, moves, before, vague>>

ImportLost(i) ==
    /\ import[i].at # "idle"
    /\ import' = [import EXCEPT ![i] = NoImport]
    /\ UNCHANGED <<serving, inventory, latest, probing, scanStatus, moves, before, vague, created>>

ScanStep(s) == FlushBatch(s) \/ FlushFails(s) \/ FinishScan(s) \/ \E e \in Endpoints : ProbeEndpoint(s, e)

ScansNext ==
    \/ \E e \in Endpoints, c \in Served \cup {Nil} : EndpointMoves(e, c)
    \/ \E c \in Served : ManagedElsewhere(c)
    \/ \E s \in Scans : StartScan(s) \/ ScanStep(s) \/ CancelScan(s) \/ ScanDies(s)
    \/ \E i \in Imports :
          \/ \E e \in Endpoints : ImportResult(i, e)
          \/ CreateImported(i) \/ MarkDiscoveryResultImported(i) \/ ImportLost(i)

\* Workers, collector and final write run; a probe ends at its timeout.
ScansFairness == \A s \in Scans : WF_scansVars(ScanStep(s))

-----------------------------------------------------------------------------
ScansTypeOK ==
    /\ serving \in [Endpoints -> Served \cup {Nil}]
    /\ inventory \subseteq Served
    /\ latest \in [Endpoints -> ResultRow] /\ before \in [Endpoints -> ResultRow]
    /\ \A e \in Endpoints : latest[e].state = "UNREACHABLE" => latest[e].fp = Nil
    /\ probing \in [Scans -> ScanJob]
    /\ scanStatus \in [Scans -> {"none", "RUNNING", "COMPLETED", "CANCELLED", "FAILED"}]
    /\ import \in [Imports -> ImportState]
    /\ moves \in 0..MaxMoves /\ vague \subseteq Endpoints /\ created \in [Served -> Nat]

\* What a scan found is kept: a completed scan has stored a row for every
\* endpoint, a cancelled one for everything it had judged; a scan that lost a
\* batch is neither.
FoundIsKept ==
    \A s \in Scans :
        /\ scanStatus[s] = "COMPLETED" => probing[s].stored = Endpoints
        /\ scanStatus[s] = "CANCELLED" => probing[s].stored = probing[s].judged

\* A certificate that was replaced between two scans is reported as changed,
\* though batches are lost and scans cancelled in between. Excluded are a row
\* compared with another than the one before it (an overlapping scan, a
\* baseline that could not be read) and an outage in between, after which the
\* row before names no certificate.
ReplacementIsReported ==
    \A e \in Endpoints \ vague :
        (latest[e].fp # Nil /\ before[e].fp \notin {Nil, latest[e].fp}) => latest[e].finding = "changed"

\* Operators importing one certificate, or issuing it elsewhere, make one
\* record of it, and a result that reads managed is of a certificate in the
\* inventory.
ImportedOnce ==
    /\ \A c \in Served : created[c] <= 1
    /\ \A e \in Endpoints : latest[e].state = "MANAGED" => latest[e].fp \in inventory

\* A scan ends, also when it is cancelled, unless its process dies or its last
\* write fails.
ScanSettles ==
    \A s \in Scans : (probing[s].at = "run") ~> (probing[s].at \in {"ended", "dead"})
=============================================================================
