------------------------------ MODULE AgentJobs ------------------------------
(***************************************************************************)
(* Deployment jobs that hosts perform themselves: one certificate, and a   *)
(* target per host. An agent claims its host's job under the same waves    *)
(* and canary as the workers of the core, installs, and reports, possibly  *)
(* late, more than once, or about a job that has since been cancelled,     *)
(* finished or claimed again. DeploymentQueue has the jobs that the core   *)
(* performs; AgentReports what a host says it has installed.               *)
(***************************************************************************)
EXTENDS Integers, FiniteSets, Common

CONSTANTS
    TargetHosts,    \* hosts whose target is bound to the certificate
    HostWave,       \* [TargetHosts -> Nat]: deploy_order
    HostJobs,       \* row identities, a finite supply
    FirstJobs,      \* [TargetHosts -> HostJobs]: the jobs of the first rollout
    ResultReports,  \* reports a core can be working on at once
    MaxResults,     \* bound: reports that arrive
    MaxMishaps      \* bound: lapsed leases, lost reports and interventions

ASSUME AgentJobsAssumption ==
    /\ HostWave \in [TargetHosts -> Nat] /\ FirstJobs \in [TargetHosts -> HostJobs]
    /\ \A g, h \in TargetHosts : FirstJobs[g] = FirstJobs[h] => g = h
    /\ MaxResults \in Nat /\ MaxMishaps \in Nat /\ IsFiniteSet(ResultReports)
    /\ Nil \notin HostJobs \cup TargetHosts

VARIABLES
    hostJobs,       \* [HostJobs -> HostJobRow]
    targetOn,       \* targets with is_enabled
    resultReport,   \* [ResultReports -> Nil or a report with what its handler read]
    handedOut,      \* history: jobs that a host was given
    saidInstalled,  \* history: jobs whose own host said that it installed
    calledOff,      \* history: jobs that were cancelled
    hostAlerts,     \* history: [HostJobs -> announcements], up to one too many
    resultsSent,    \* reports so far
    mishaps         \* mishaps so far

agentJobsVars == <<hostJobs, targetOn, resultReport, handedOut, saidInstalled, calledOff, hostAlerts,
                   resultsSent, mishaps>>

HostJobRow == [status : {"FREE", "PENDING", "RUNNING", "SUCCEEDED", "CANCELLED", "GONE"},
               host : TargetHosts \cup {Nil}, due : BOOLEAN, lapsed : BOOLEAN,
               failed : BOOLEAN, escalated : BOOLEAN]

QueuedFor(h) == [status |-> "PENDING", host |-> h, due |-> TRUE, lapsed |-> FALSE,
                 failed |-> FALSE, escalated |-> FALSE]

AgentJobsInit ==
    /\ hostJobs = [j \in HostJobs |->
                     IF \E h \in TargetHosts : FirstJobs[h] = j
                     THEN QueuedFor(CHOOSE h \in TargetHosts : FirstJobs[h] = j)
                     ELSE [QueuedFor(Nil) EXCEPT !.status = "FREE"]]
    /\ targetOn = TargetHosts
    /\ resultReport = [q \in ResultReports |-> Nil]
    /\ handedOut = {} /\ saidInstalled = {} /\ calledOff = {}
    /\ hostAlerts = [j \in HostJobs |-> 0]
    /\ resultsSent = 0 /\ mishaps = 0

Mishap == mishaps < MaxMishaps /\ mishaps' = mishaps + 1 /\ UNCHANGED resultsSent

OutstandingFor(j) == hostJobs[j].status \in {"PENDING", "RUNNING"}

HostIndexAllows(j, h) == ~ \E k \in HostJobs \ {j} : OutstandingFor(k) /\ hostJobs[k].host = h

\* A later rollout: EnqueueDeployment for one host's binding.
EnqueueForHost(h, j) ==
    /\ hostJobs[j].status = "FREE"
    /\ HostIndexAllows(j, h)
    /\ hostJobs' = [hostJobs EXCEPT ![j] = QueuedFor(h)]
    /\ UNCHANGED <<targetOn, resultReport, handedOut, saidInstalled, calledOff, hostAlerts, resultsSent, mishaps>>

-----------------------------------------------------------------------------
ReadyForHost(j) == \/ hostJobs[j].status = "PENDING" /\ hostJobs[j].due
                   \/ hostJobs[j].status = "RUNNING" /\ hostJobs[j].lapsed

HostCanaryAllows(j) ==
    hostJobs[j].failed \/ ~ \E k \in HostJobs \ {j} : OutstandingFor(k) /\ hostJobs[k].failed

\* Mutant of HostWaveAllows: the claim only orders by wave.
HostWaveOrders(j) == hostJobs[j].host \in TargetHosts

HostWaveAllows(j) ==
    ~ \E k \in HostJobs : OutstandingFor(k) /\ HostWave[hostJobs[k].host] < HostWave[hostJobs[j].host]

ClaimableFor(h) ==
    {j \in HostJobs : /\ hostJobs[j].host = h /\ h \in targetOn
                     /\ ReadyForHost(j) /\ HostCanaryAllows(j) /\ HostWaveAllows(j)}

\* The answer to the claim may be lost on the way to the host: the job then
\* waits for its lease.
ClaimDeployments(h) ==
    /\ ClaimableFor(h) # {}
    /\ hostJobs' = [j \in HostJobs |->
                      IF j \in ClaimableFor(h)
                      THEN [hostJobs[j] EXCEPT !.status = "RUNNING", !.lapsed = FALSE]
                      ELSE hostJobs[j]]
    /\ handedOut' \in {handedOut, handedOut \cup ClaimableFor(h)}
    /\ UNCHANGED <<targetOn, resultReport, saidInstalled, calledOff, hostAlerts, resultsSent, mishaps>>

\* Mutant of BelongsTo: any host with a credential may report.
BelongsToAny(j, h) == hostJobs[j].host \in TargetHosts

BelongsTo(j, h) == hostJobs[j].host = h

\* ReportDeploymentResult: the job is read and has to be the host's own. Which
\* job a request names is up to whoever sends it.
ReportDeploymentResult(q, h, j, ok) ==
    /\ resultReport[q] = Nil
    /\ resultsSent < MaxResults /\ resultsSent' = resultsSent + 1
    /\ j \in handedOut /\ hostJobs[j].status # "GONE"
    /\ BelongsTo(j, h)
    /\ resultReport' = [resultReport EXCEPT ![q] = [job |-> j, ok |-> ok, told |-> hostJobs[j].escalated]]
    /\ saidInstalled' = IF ok /\ hostJobs[j].host = h THEN saidInstalled \cup {j} ELSE saidInstalled
    /\ UNCHANGED <<hostJobs, targetOn, handedOut, calledOff, hostAlerts, mishaps>>

\* Mutant of Completed: a failure of an escalated job clears the mark.
CompletedUnmarked(row, ok, escalate) ==
    [row EXCEPT !.status = IF ok THEN "SUCCEEDED" ELSE "PENDING", !.due = FALSE, !.lapsed = FALSE,
                !.failed = ~ok, !.escalated = FALSE]

\* What CompleteDeploymentJob leaves of a row, whatever its status was.
Completed(row, ok, escalate) ==
    [row EXCEPT !.status = IF ok THEN "SUCCEEDED" ELSE "PENDING", !.due = FALSE, !.lapsed = FALSE,
                !.failed = ~ok, !.escalated = row.escalated \/ escalate]

\* CompleteReported: the completion, then the announcement. A row that is gone
\* is not found, and one that may not be queued again (the index) is an error:
\* then nothing is written and nothing announced.
CompleteReported(q, escalate) ==
    /\ resultReport[q] # Nil
    /\ LET rep == resultReport[q]
           j == rep.job
           writes == hostJobs[j].status # "GONE" /\ (rep.ok \/ HostIndexAllows(j, hostJobs[j].host))
       IN  /\ rep.ok => ~escalate
           /\ hostJobs' = IF writes THEN [hostJobs EXCEPT ![j] = Completed(hostJobs[j], rep.ok, escalate)]
                          ELSE hostJobs
           /\ hostAlerts' = IF writes /\ escalate /\ ~rep.told /\ hostAlerts[j] <= Cardinality(ResultReports)
                            THEN [hostAlerts EXCEPT ![j] = hostAlerts[j] + 1]
                            ELSE hostAlerts
    /\ resultReport' = [resultReport EXCEPT ![q] = Nil]
    /\ UNCHANGED <<targetOn, handedOut, saidInstalled, calledOff, resultsSent, mishaps>>

ReportLost(q) ==
    /\ Mishap
    /\ resultReport[q] # Nil
    /\ resultReport' = [resultReport EXCEPT ![q] = Nil]
    /\ UNCHANGED <<hostJobs, targetOn, handedOut, saidInstalled, calledOff, hostAlerts>>

-----------------------------------------------------------------------------
(* Operators, bindings that are removed, and the clock.                    *)

CancelHostJob(j) ==
    /\ Mishap
    /\ OutstandingFor(j)
    /\ hostJobs' = [hostJobs EXCEPT ![j] = [hostJobs[j] EXCEPT !.status = "CANCELLED", !.lapsed = FALSE]]
    /\ calledOff' = calledOff \cup {j}
    /\ UNCHANGED <<targetOn, resultReport, handedOut, saidInstalled, hostAlerts>>

SwitchTarget(h) ==
    /\ Mishap
    /\ targetOn' = IF h \in targetOn THEN targetOn \ {h} ELSE targetOn \cup {h}
    /\ UNCHANGED <<hostJobs, resultReport, handedOut, saidInstalled, calledOff, hostAlerts>>

\* PruneAgentBindings removes the binding, and its jobs go by cascade.
BindingPruned(h) ==
    /\ Mishap
    /\ \E j \in HostJobs : hostJobs[j].host = h /\ hostJobs[j].status # "GONE"
    /\ hostJobs' = [j \in HostJobs |-> IF hostJobs[j].host = h THEN [hostJobs[j] EXCEPT !.status = "GONE"]
                                       ELSE hostJobs[j]]
    /\ UNCHANGED <<targetOn, resultReport, handedOut, saidInstalled, calledOff, hostAlerts>>

HostJobDue(j) ==
    /\ hostJobs[j].status = "PENDING" /\ ~hostJobs[j].due
    /\ hostJobs' = [hostJobs EXCEPT ![j] = [hostJobs[j] EXCEPT !.due = TRUE]]
    /\ UNCHANGED <<targetOn, resultReport, handedOut, saidInstalled, calledOff, hostAlerts, resultsSent, mishaps>>

HostLeaseLapses(j) ==
    /\ Mishap
    /\ hostJobs[j].status = "RUNNING" /\ ~hostJobs[j].lapsed
    /\ hostJobs' = [hostJobs EXCEPT ![j] = [hostJobs[j] EXCEPT !.lapsed = TRUE]]
    /\ UNCHANGED <<targetOn, resultReport, handedOut, saidInstalled, calledOff, hostAlerts>>

AgentJobsNext ==
    \/ \E h \in TargetHosts :
          \/ ClaimDeployments(h) \/ BindingPruned(h) \/ SwitchTarget(h)
          \/ \E j \in HostJobs : EnqueueForHost(h, j)
          \/ \E j \in HostJobs, q \in ResultReports, ok \in BOOLEAN : ReportDeploymentResult(q, h, j, ok)
    \/ \E q \in ResultReports : ReportLost(q) \/ \E escalate \in BOOLEAN : CompleteReported(q, escalate)
    \/ \E j \in HostJobs : CancelHostJob(j) \/ HostJobDue(j) \/ HostLeaseLapses(j)

-----------------------------------------------------------------------------
AgentJobsTypeOK ==
    /\ hostJobs \in [HostJobs -> HostJobRow] /\ targetOn \subseteq TargetHosts
    /\ \A q \in ResultReports : resultReport[q] # Nil =>
          resultReport[q] \in [job : HostJobs, ok : BOOLEAN, told : BOOLEAN]
    /\ {handedOut, saidInstalled, calledOff} \subseteq SUBSET HostJobs
    /\ resultsSent \in 0..MaxResults /\ mishaps \in 0..MaxMishaps
    /\ hostAlerts \in [HostJobs -> 0..(Cardinality(ResultReports) + 1)]

\* However late, often and about whichever job results are reported: a job is
\* SUCCEEDED only if the host it is for said that it installed it, and a host
\* never has two jobs outstanding.
SucceededWasInstalled ==
    /\ \A j \in HostJobs : hostJobs[j].status = "SUCCEEDED" => j \in saidInstalled
    /\ \A j \in HostJobs : OutstandingFor(j) => HostIndexAllows(j, hostJobs[j].host)

\* Of one rollout a host is given its job only after every host of an earlier
\* wave has said that it installed, or its job was cancelled or removed.
WavesWait ==
    \A g, h \in TargetHosts :
        HostWave[g] < HostWave[h] /\ FirstJobs[h] \in handedOut =>
            FirstJobs[g] \in saidInstalled \cup calledOff \/ hostJobs[FirstJobs[g]].status = "GONE"

\* A failing host is announced once per job, and again only by reports of the
\* same job that a core was working on at that moment.
FailingHostToldOnce ==
    \A j \in HostJobs : hostAlerts[j] <= Cardinality(ResultReports)
=============================================================================
