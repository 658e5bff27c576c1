----------------------------- MODULE CloudSync ------------------------------
(***************************************************************************)
(* Cloud inventory: a sync lists a provider's certificates page by page,   *)
(* classifies them against the inventory, upserts a row per resource,      *)
(* marks the rows not listed as removed, and announces what is new.        *)
(* Syncs overlap (replicas, operators), and operators import rows.         *)
(***************************************************************************)
EXTENDS Integers, FiniteSets, Common

CONSTANTS
    Providers,      \* the providers whose connections are looked at
    Resources,      \* resource ids of the provider
    CloudPrints,    \* fingerprints
    Syncs,          \* syncs, each made at most once
    MaxCloudChanges \* bound: changes at the provider

ASSUME CloudAssumption ==
    CloudPrints # {} /\ Providers \subseteq {"aws_acm", "azure_key_vault", "gcp", "kubernetes"} /\ Nil \notin CloudPrints /\ "absent" \notin CloudPrints \cup {Nil} /\ MaxCloudChanges \in Nat

VARIABLES
    provider,       \* the connection's provider
    cloudAccount,   \* [Resources -> CloudPrints \cup {"absent"}]: what the provider holds
    managedPrints,  \* fingerprints of managed certificates
    cloudRow,       \* [Resources -> CloudRow]
    sync,           \* [Syncs -> SyncState]
    adopting,       \* the resource whose import is under way, or Nil
    cloudChanges,   \* changes at the provider so far
    wasGone,        \* history: resources the provider lacked at some time
    cutShort,       \* history: resources a listing left out though they exist
    newsOf          \* history: [Resources -> Nat] announcements as new and unmanaged

cloudVars == <<provider, cloudAccount, managedPrints, cloudRow, sync, adopting, cloudChanges, wasGone, cutShort, newsOf>>

CloudRow == [state : {"none", "present", "removed"}, fp : CloudPrints \cup {Nil}, managed : BOOLEAN, imported : BOOLEAN]
Listing == [Resources -> CloudPrints \cup {Nil, "absent"}]     \* Nil: the provider returned no body
SyncState == [at : {"none", "list", "upsert", "remove", "announce", "ended"}, todo : SUBSET Resources,
              assets : Listing, managed : SUBSET Resources, added : SUBSET Resources]

NoRow == [state |-> "none", fp |-> Nil, managed |-> FALSE, imported |-> FALSE]
NothingListed == [r \in Resources |-> "absent"]
NoSync == [at |-> "none", todo |-> {}, assets |-> NothingListed, managed |-> {}, added |-> {}]
EndedSync == [NoSync EXCEPT !.at = "ended"]

CloudInit ==
    /\ provider \in Providers
    /\ cloudAccount = [r \in Resources |-> CHOOSE p \in CloudPrints : TRUE]
    /\ managedPrints = {} /\ cloudRow = [r \in Resources |-> NoRow]
    /\ sync = [y \in Syncs |-> NoSync]
    /\ adopting = Nil /\ cloudChanges = 0
    /\ wasGone = {} /\ cutShort = {}
    /\ newsOf = [r \in Resources |-> 0]

ProviderChanges(r, c) ==
    /\ cloudChanges < MaxCloudChanges /\ cloudAccount[r] # c
    /\ cloudAccount' = [cloudAccount EXCEPT ![r] = c]
    /\ cloudChanges' = cloudChanges + 1
    /\ wasGone' = IF c = "absent" THEN wasGone \cup {r} ELSE wasGone
    /\ UNCHANGED <<provider, managedPrints, cloudRow, sync, adopting, cutShort, newsOf>>

-----------------------------------------------------------------------------
(* Listing, page by page. A page that fails fails the listing.             *)

BeginSync(y) ==
    /\ sync[y].at = "none"
    /\ sync' = [sync EXCEPT ![y].at = "list", ![y].todo = Resources]
    /\ UNCHANGED <<provider, cloudAccount, managedPrints, cloudRow, adopting, cloudChanges, wasGone, cutShort, newsOf>>

\* ACM.Inventory: the body is asked for one by one, an error leaves it out.
ListedACM(r) == {cloudAccount[r], Nil}

\* KeyVault.Inventory: likewise, with the error as the renewal mode.
ListedKeyVault(r) == {cloudAccount[r], Nil}

\* GCP.Inventory: the bodies come with the list.
ListedGCP(r) == {cloudAccount[r]}

\* Kubernetes.Inventory: a secret that cannot be decoded has no body.
ListedKubernetes(r) == {cloudAccount[r], Nil}

\* What a page shows of a resource: the certificate, or that there is one.
Listed(r) ==
    IF cloudAccount[r] = "absent" THEN {"absent"}
    ELSE CASE provider = "aws_acm" -> ListedACM(r)
           [] provider = "azure_key_vault" -> ListedKeyVault(r)
           [] provider = "gcp" -> ListedGCP(r)
           [] OTHER -> ListedKubernetes(r)

\* The next resource in the provider's order.
NextListed(y) == CHOOSE r \in sync[y].todo : TRUE

ListResource(y) ==
    /\ sync[y].at = "list" /\ sync[y].todo # {}
    /\ LET r == NextListed(y) IN
       \E a \in Listed(r) : sync' = [sync EXCEPT ![y].todo = @ \ {r}, ![y].assets[r] = a]
    /\ UNCHANGED <<provider, cloudAccount, managedPrints, cloudRow, adopting, cloudChanges, wasGone, cutShort, newsOf>>

\* Listings that may stop early and be taken for complete: after 5000 entries
\* (ACM, Key Vault), after 50 pages or for a scope that could not be read
\* (GCP, returnPartialSuccess). Kubernetes follows every continue token.
CutACM == TRUE
CutKeyVault == TRUE
CutGCP == TRUE
CutKubernetes == FALSE

MayBeCut ==
    CASE provider = "aws_acm" -> CutACM
      [] provider = "azure_key_vault" -> CutKeyVault
      [] provider = "gcp" -> CutGCP
      [] OTHER -> CutKubernetes

ListingCut(y) ==
    /\ sync[y].at = "list" /\ sync[y].todo # {} /\ MayBeCut
    /\ sync' = [sync EXCEPT ![y].todo = {}]
    /\ cutShort' = cutShort \cup sync[y].todo
    /\ UNCHANGED <<provider, cloudAccount, managedPrints, cloudRow, adopting, cloudChanges, wasGone, newsOf>>

\* Mutant of AfterListingFailed: what was listed so far is used.
AfterListingFailedKept(s) == [s EXCEPT !.at = "upsert", !.todo = {}]

\* fail(): the error is recorded and nothing else is touched.
AfterListingFailed(s) == EndedSync

ListingFails(y) ==
    /\ sync[y].at = "list" /\ sync[y].todo # {}
    /\ sync' = [sync EXCEPT ![y] = AfterListingFailed(@)]
    /\ UNCHANGED <<provider, cloudAccount, managedPrints, cloudRow, adopting, cloudChanges, wasGone, cutShort, newsOf>>

Found(s) == {r \in Resources : s.assets[r] # "absent"}

\* classify: by fingerprint; a lookup that fails leaves the asset unmanaged.
Classify(y) ==
    /\ sync[y].at = "list" /\ sync[y].todo = {}
    /\ \E lookup \in {managedPrints, {}} :
          sync' = [sync EXCEPT ![y].at = "upsert",
                               ![y].managed = {r \in Resources : sync[y].assets[r] \in lookup}]
    /\ UNCHANGED <<provider, cloudAccount, managedPrints, cloudRow, adopting, cloudChanges, wasGone, cutShort, newsOf>>

-----------------------------------------------------------------------------
(* Storing.                                                                *)

\* Mutant of UpsertedRow: the provider's view wins.
UpsertedRowPlain(row, fp, managed) ==
    [state |-> "present", fp |-> fp, managed |-> managed, imported |-> row.imported]

\* ON CONFLICT DO UPDATE: an import survives, removed_at is cleared.
UpsertedRow(row, fp, managed) ==
    [state |-> "present", fp |-> fp, managed |-> row.imported \/ managed, imported |-> row.imported]

\* Mutant of Inserted: everything listed counts as added.
InsertedAll(s) == Found(s)

\* xmax = 0: inserted rather than updated
Inserted(s) == {r \in Found(s) : cloudRow[r].state = "none"}

UpsertCloudCertificates(y) ==
    LET s == sync[y]
    IN /\ s.at = "upsert"
       /\ cloudRow' = [r \in Resources |-> IF r \in Found(s) THEN UpsertedRow(cloudRow[r], s.assets[r], r \in s.managed)
                                           ELSE cloudRow[r]]
       /\ sync' = [sync EXCEPT ![y].at = "remove", ![y].added = Inserted(s)]
       /\ UNCHANGED <<provider, cloudAccount, managedPrints, adopting, cloudChanges, wasGone, cutShort, newsOf>>

\* One transaction: nothing is stored, and the sync ends in fail().
UpsertFails(y) ==
    /\ sync[y].at = "upsert"
    /\ sync' = [sync EXCEPT ![y] = EndedSync]
    /\ UNCHANGED <<provider, cloudAccount, managedPrints, cloudRow, adopting, cloudChanges, wasGone, cutShort, newsOf>>

\* Rows not listed; an empty listing marks nothing.
NotListed(s) == IF Found(s) = {} THEN {} ELSE Resources \ Found(s)

\* An error here is only logged.
MarkCloudCertificatesRemoved(y) ==
    /\ sync[y].at = "remove"
    /\ \/ cloudRow' = [r \in Resources |->
                          IF r \in NotListed(sync[y]) /\ cloudRow[r].state = "present"
                          THEN [cloudRow[r] EXCEPT !.state = "removed"] ELSE cloudRow[r]]
       \/ UNCHANGED cloudRow
    /\ sync' = [sync EXCEPT ![y].at = "announce"]
    /\ UNCHANGED <<provider, cloudAccount, managedPrints, adopting, cloudChanges, wasGone, cutShort, newsOf>>

\* MarkCloudConnectionSynced, then one message for what is new and unmanaged.
AnnounceCloud(y) ==
    LET s == sync[y]
    IN /\ s.at = "announce"
       /\ newsOf' = [r \in Resources |-> IF r \in s.added \ s.managed THEN newsOf[r] + 1 ELSE newsOf[r]]
       /\ sync' = [sync EXCEPT ![y] = EndedSync]
       /\ UNCHANGED <<provider, cloudAccount, managedPrints, cloudRow, adopting, cloudChanges, wasGone, cutShort>>

\* The process dies. Before anything is stored that is the same as a failure.
SyncDies(y) ==
    /\ sync[y].at \in {"remove", "announce"}
    /\ sync' = [sync EXCEPT ![y] = EndedSync]
    /\ UNCHANGED <<provider, cloudAccount, managedPrints, cloudRow, adopting, cloudChanges, wasGone, cutShort, newsOf>>

-----------------------------------------------------------------------------
(* Import of a row: the certificate is created unless it is managed already; *)
(* then the row is marked. A crash in between leaves the row as it was.      *)

ImportCloudCertificate(r) ==
    /\ adopting = Nil /\ cloudRow[r].fp # Nil
    /\ managedPrints' = managedPrints \cup {cloudRow[r].fp}
    /\ adopting' = r
    /\ UNCHANGED <<provider, cloudAccount, cloudRow, sync, cloudChanges, wasGone, cutShort, newsOf>>

MarkCloudCertificateImported ==
    /\ adopting # Nil
    /\ cloudRow' = [cloudRow EXCEPT ![adopting].imported = TRUE, ![adopting].managed = TRUE]
    /\ adopting' = Nil
    /\ UNCHANGED <<provider, cloudAccount, managedPrints, sync, cloudChanges, wasGone, cutShort, newsOf>>

CloudImportLost ==
    /\ adopting # Nil /\ adopting' = Nil
    /\ UNCHANGED <<provider, cloudAccount, managedPrints, cloudRow, sync, cloudChanges, wasGone, cutShort, newsOf>>

CloudNext ==
    \/ \E r \in Resources, c \in CloudPrints \cup {"absent"} : ProviderChanges(r, c)
    \/ \E y \in Syncs :
          \/ BeginSync(y) \/ ListResource(y) \/ ListingCut(y) \/ ListingFails(y) \/ Classify(y)
          \/ UpsertCloudCertificates(y) \/ UpsertFails(y) \/ MarkCloudCertificatesRemoved(y)
          \/ AnnounceCloud(y) \/ SyncDies(y)
    \/ \E r \in Resources : ImportCloudCertificate(r)
    \/ MarkCloudCertificateImported \/ CloudImportLost

-----------------------------------------------------------------------------
CloudTypeOK ==
    /\ provider \in Providers /\ cloudAccount \in [Resources -> CloudPrints \cup {"absent"}] /\ managedPrints \subseteq CloudPrints
    /\ cloudRow \in [Resources -> CloudRow] /\ sync \in [Syncs -> SyncState]
    /\ adopting \in Resources \cup {Nil} /\ cloudChanges \in 0..MaxCloudChanges
    /\ wasGone \subseteq Resources /\ cutShort \subseteq Resources
    /\ newsOf \in [Resources -> Nat]

\* A certificate the provider holds is not shown as removed: a row is marked
\* removed only if the provider lacked the resource at some time or a listing
\* was cut, never because a page could not be read.
RemovedWasGone ==
    \A r \in Resources : cloudRow[r].state = "removed" => r \in wasGone \cup cutShort

\* An imported certificate stays managed through every later and every
\* overlapping sync, whose provider still reports it as unmanaged.
ImportSurvivesSync == \A r \in Resources : cloudRow[r].imported => cloudRow[r].managed

\* A resource is announced as new and unmanaged at most once, however many
\* syncs list it for the first time at once, and though it went and came back.
CloudNewsOnce == \A r \in Resources : newsOf[r] <= 1
=============================================================================
