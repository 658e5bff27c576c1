----------------------------- MODULE AgentReports -----------------------------
(***************************************************************************)
(* What a host's agent reports: where certificates are installed, with the *)
(* bindings the core derives from that, and the inventory of certificate   *)
(* files. Reports of one host overlap when its agent has given up waiting  *)
(* and reports again.                                                      *)
(***************************************************************************)
EXTENDS Integers, FiniteSets, Common

CONSTANTS
    ReportingHosts, \* enrolled agents
    HeldCerts,      \* certificates hosts hold
    Prints,         \* fingerprints
    Destinations,   \* names of install destinations on a host
    ReportSet,      \* the reports the hosts send, see Report
    Reports,        \* installation reports in flight at once
    Files,          \* paths of certificate files on a host
    MaxReports      \* bound: installation reports and scans

\* One destination of a report: which certificate, whether it is installed.
Installation == [rec : HeldCerts \cup {Nil}, ok : BOOLEAN, fp : Prints \cup {Nil}]
Report == UNION {[D -> Installation] : D \in SUBSET Destinations}

ASSUME ReportsAssumption ==
    /\ MaxReports \in Nat /\ ReportSet \subseteq Report
    /\ Nil \notin HeldCerts \cup ReportingHosts \cup Prints

VARIABLES
    installed,      \* [ReportingHosts -> Report]: agent_installations
    binding,        \* [ReportingHosts -> [HeldCerts -> BindingRow]]: certificate_deployments of the host's target
    report,         \* [Reports -> ReportState]
    muddled,        \* history: hosts whose reports overlapped or were cut short
    regrouped,      \* history: {<<host, certificate>>} whose destinations are others, unnoticed
    file,           \* [ReportingHosts -> [Files -> FileState]]: agent_certificates
    scan,           \* [ReportingHosts -> ScanState]: an inventory report being recorded
    whole,          \* history: hosts whose last scan was recorded to the end
    reportCount     \* reports and scans begun

reportsVars == <<installed, binding, report, muddled, regrouped, file, scan, whole, reportCount>>
installVars == <<installed, binding, report, muddled, regrouped>>
scanVars == <<file, scan, whole>>

FileState == {"none", "present", "removed"}
BindingRow == [status : {"none", "PENDING", "DEPLOYED", "FAILED"}, fp : Prints \cup {Nil}]
ReportState == [at : {"idle", "replace", "prune", "bind"}, host : ReportingHosts \cup {Nil},
                previous : Report, says : Report, todo : SUBSET HeldCerts]
ScanState == [at : {"idle", "upsert", "reconcile"}, found : SUBSET Files, todo : SUBSET Files]


NoBinding == [status |-> "none", fp |-> Nil]
NoInstalls == [d \in {} |-> Nil]
NoReport == [at |-> "idle", host |-> Nil, previous |-> NoInstalls, says |-> NoInstalls, todo |-> {}]
NoScan == [at |-> "idle", found |-> {}, todo |-> {}]

ReportsInit ==
    /\ installed = [h \in ReportingHosts |-> NoInstalls]
    /\ binding = [h \in ReportingHosts |-> [r \in HeldCerts |-> NoBinding]]
    /\ report = [p \in Reports |-> NoReport]
    /\ muddled = {} /\ regrouped = {}
    /\ file = [h \in ReportingHosts |-> [f \in Files |-> "none"]]
    /\ scan = [h \in ReportingHosts |-> NoScan]
    /\ whole = {}
    /\ reportCount = 0

-----------------------------------------------------------------------------
(* Installation reports.                                                   *)

\* previousState is read before anything is written.
PreviousState(p, h, says) ==
    /\ report[p].at = "idle" /\ reportCount < MaxReports
    /\ report' = [report EXCEPT ![p] = [at |-> "replace", host |-> h, previous |-> installed[h],
                                        says |-> says, todo |-> {}]]
    /\ muddled' = IF \E o \in Reports : report[o].host = h THEN muddled \cup {h} ELSE muddled
    /\ reportCount' = reportCount + 1
    /\ UNCHANGED <<installed, binding, regrouped, scanVars>>

RecsOf(says) == {says[d].rec : d \in DOMAIN says} \ {Nil}

\* EnsureAgentDeploymentTarget, then one transaction: the rows are what the report says.
ReplaceAgentInstallations(p) ==
    LET s == report[p]
    IN /\ s.at = "replace"
       /\ installed' = [installed EXCEPT ![s.host] = s.says]
       /\ report' = [report EXCEPT ![p] = IF s.says = NoInstalls THEN NoReport ELSE [@ EXCEPT !.at = "prune"]]
       /\ UNCHANGED <<binding, muddled, regrouped, scanVars, reportCount>>

\* PruneAgentBindings
Pruned(h, keep) == [r \in HeldCerts |-> IF r \in keep THEN binding[h][r] ELSE NoBinding]

PruneAgentBindings(p) ==
    LET s == report[p]
    IN /\ s.at = "prune"
       /\ binding' = [binding EXCEPT ![s.host] = Pruned(s.host, RecsOf(s.says))]
       /\ report' = [report EXCEPT ![p].at = "bind", ![p].todo = RecsOf(s.says)]
       /\ UNCHANGED <<installed, muddled, regrouped, scanVars, reportCount>>

PlacesOf(says, r) == {d \in DOMAIN says : says[d].rec = r}

\* Something moved since the last report, seen from the previous rows.
Changed(s, r) == \E d \in PlacesOf(s.says, r) :
    \/ d \notin DOMAIN s.previous
    \/ d \in DOMAIN s.previous /\ (s.previous[d].ok # s.says[d].ok \/ s.previous[d].fp # s.says[d].fp)

\* Mutant of OutcomeOf: one good destination makes a success.
OutcomeOfAny(says, r, held) ==
    IF \E d \in PlacesOf(says, r) : says[d].ok
    THEN [status |-> "DEPLOYED", fp |-> says[CHOOSE d \in PlacesOf(says, r) : says[d].ok].fp]
    ELSE [status |-> "FAILED", fp |-> held]

\* bindingOutcome: deployed only if every destination is. A failure keeps the
\* fingerprint that was last deployed.
OutcomeOf(says, r, held) ==
    IF \A d \in PlacesOf(says, r) : says[d].ok
    THEN [status |-> "DEPLOYED", fp |-> says[CHOOSE d \in PlacesOf(says, r) : TRUE].fp]
    ELSE [status |-> "FAILED", fp |-> held]

\* Ensure the binding, then record its outcome if it changed. That a
\* destination was withdrawn, or now takes another certificate, is no change of
\* the destinations that are left: the binding keeps the outcome of the others.
ReconcileBinding(p) ==
    LET s == report[p]
        h == s.host
    IN /\ s.at = "bind"
       /\ \/ \E r \in s.todo :
                /\ binding' = [binding EXCEPT ![h][r] =
                      IF Changed(s, r) THEN OutcomeOf(s.says, r, @.fp)
                      ELSE IF @.status = "none" THEN [status |-> "PENDING", fp |-> Nil] ELSE @]
                /\ regrouped' = IF Changed(s, r) THEN regrouped \ {<<h, r>>}
                                ELSE IF PlacesOf(s.previous, r) = PlacesOf(s.says, r) THEN regrouped
                                ELSE regrouped \cup {<<h, r>>}
                /\ report' = [report EXCEPT ![p].todo = @ \ {r}]
          \/ s.todo = {} /\ report' = [report EXCEPT ![p] = NoReport] /\ UNCHANGED <<binding, regrouped>>
       /\ UNCHANGED <<installed, muddled, scanVars, reportCount>>

\* A statement fails or the process stops: the rows are the new ones, and the
\* next report finds nothing changed.
ReportCutShort(p) ==
    /\ report[p].at # "idle"
    /\ report' = [report EXCEPT ![p] = NoReport]
    /\ muddled' = muddled \cup {report[p].host}
    /\ UNCHANGED <<installed, binding, regrouped, scanVars, reportCount>>

-----------------------------------------------------------------------------
(* The inventory of files.                                                 *)

Inventory(h, found) ==
    /\ scan[h].at = "idle" /\ reportCount < MaxReports
    /\ scan' = [scan EXCEPT ![h] = [at |-> "upsert", found |-> found, todo |-> found]]
    /\ whole' = whole \ {h}
    /\ reportCount' = reportCount + 1
    /\ UNCHANGED <<installVars, file>>

\* Mutant of Upserted: a file that comes back stays removed.
UpsertedOnce(state) == IF state = "none" THEN "present" ELSE state

\* A file that came back is not removed any more.
Upserted(state) == "present"

\* One INSERT ... ON CONFLICT per file; an error ends the report.
UpsertAgentCertificates(h) ==
    LET s == scan[h]
    IN /\ s.at = "upsert"
       /\ \/ \E f \in s.todo : /\ file' = [file EXCEPT ![h][f] = Upserted(@)]
                               /\ scan' = [scan EXCEPT ![h].todo = @ \ {f}]
          \/ s.todo = {} /\ scan' = [scan EXCEPT ![h].at = "reconcile"] /\ UNCHANGED file
          \/ s.todo # {} /\ scan' = [scan EXCEPT ![h] = NoScan] /\ UNCHANGED file
       /\ UNCHANGED <<installVars, whole, reportCount>>

MarkAgentCertificatesRemoved(h) ==
    LET s == scan[h]
    IN /\ s.at = "reconcile"
       /\ file' = [file EXCEPT ![h] = [f \in Files |->
                      IF f \notin s.found /\ @[f] = "present" THEN "removed" ELSE @[f]]]
       /\ scan' = [scan EXCEPT ![h].at = "idle"]
       /\ whole' = whole \cup {h}
       /\ UNCHANGED <<installVars, reportCount>>

ReportsNext ==
    \/ \E p \in Reports :
          \/ \E h \in ReportingHosts, says \in ReportSet : PreviousState(p, h, says)
          \/ ReplaceAgentInstallations(p) \/ PruneAgentBindings(p) \/ ReconcileBinding(p) \/ ReportCutShort(p)
    \/ \E h \in ReportingHosts :
          \/ \E found \in SUBSET Files : Inventory(h, found)
          \/ UpsertAgentCertificates(h) \/ MarkAgentCertificatesRemoved(h)

-----------------------------------------------------------------------------
ReportsTypeOK ==
    /\ \A h \in ReportingHosts : installed[h] \in ReportSet \cup {NoInstalls}
    /\ binding \in [ReportingHosts -> [HeldCerts -> BindingRow]]
    /\ \A p \in Reports : report[p].todo \subseteq HeldCerts
    /\ muddled \subseteq ReportingHosts /\ regrouped \subseteq ReportingHosts \X HeldCerts
    /\ file \in [ReportingHosts -> [Files -> FileState]]
    /\ scan \in [ReportingHosts -> ScanState]
    /\ whole \subseteq ReportingHosts
    /\ reportCount \in 0..MaxReports

\* The binding of r says what the report says of r's destinations.
Follows(h, r, says) ==
    IF r \in RecsOf(says)
    THEN \/ <<h, r>> \in regrouped
         \/ IF \A d \in PlacesOf(says, r) : says[d].ok
            THEN \E d \in PlacesOf(says, r) : binding[h][r] = [status |-> "DEPLOYED", fp |-> says[d].fp]
            ELSE binding[h][r].status = "FAILED"
    ELSE says # NoInstalls => binding[h][r] = NoBinding

\* Once a host's reports are recorded one after the other and to the end, its
\* bindings say what it reported last: one per certificate it installs, and
\* deployed, with that fingerprint, only if every destination took it. Only a
\* withdrawn or exchanged destination may leave the earlier outcome standing.
BindingsFollowReport ==
    \A h \in ReportingHosts \ muddled :
        (\A p \in Reports : report[p].host # h) =>
        \A r \in HeldCerts : Follows(h, r, installed[h])

\* Once a scan is recorded to the end, the files not marked as removed are
\* exactly the ones it found, whatever earlier scans found or failed to record.
InventoryFollowsScan ==
    \A h \in whole : scan[h].at = "idle" =>
        {f \in Files : file[h][f] = "present"} = scan[h].found
===============================================================================
