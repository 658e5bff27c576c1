----------------------------- MODULE MCServices -----------------------------
(***************************************************************************)
(* Small instances of the core's services. They share no state with each   *)
(* other, so that a behaviour of the core projects to one of each: part    *)
(* says which of them a behaviour exercises, and the others stay in one of *)
(* their initial states.                                                   *)
(***************************************************************************)
EXTENDS AcmeNonces, AcmeAccounts, AgentIssuance, AgentReports,
        Acknowledgements, DiscoverySchedules, CTMonitors, CloudSync, SignIn,
        Accounts, RateLimit, IssuanceRules, TemplateVersions, MemoryRenewals,
        AuditChain, DiscoveryScans, Verification, GatewayManager, AcmeOrders,
        AgentFleet, RetryTimes, AgentJobs

CONSTANTS c1, c2, w1, t1, h1, h2, n1, n2, g1, g2, x1, x2, d1, d2, fp1, fp2, fp3, k1, k2, kw, r1, r2, rw

VARIABLE part

vars == <<part, noncesVars, acmeAccountsVars, issuanceVars, reportsVars,
          acksVars, schedulesVars, ctVars, cloudVars, signInVars,
          accountsVars, rateLimitVars, rulesVars, templateVars, memoryVars,
          auditVars, scansVars, verifyVars, gatewayVars, acmeVars, fleetVars,
          retryVars, agentJobsVars>>

-----------------------------------------------------------------------------
(* AgentIssuance: both hosts may have n1, only h1 may have n2.             *)
MCGrantNames == (g1 :> {n1}) @@ (g2 :> {n2})
MCGrantHosts == (g1 :> {h1, h2}) @@ (g2 :> {h1})

\* AgentReports: nothing yet, everything at one certificate, everything at
\* another, one destination that failed, one that is not reported any more, and
\* a destination the agent cannot tell about.
Told(rec, ok, fp) == [rec |-> rec, ok |-> ok, fp |-> fp]
MCReports ==
    {[d \in {} |-> Nil],
     [d \in {d1, d2} |-> Told(x1, TRUE, fp1)],
     [d \in {d1, d2} |-> Told(x1, TRUE, fp2)],
     (d1 :> Told(x1, TRUE, fp1)) @@ (d2 :> Told(x1, FALSE, fp1)),
     (d1 :> Told(x1, TRUE, fp1)),
     (d1 :> Told(x2, TRUE, fp3)) @@ (d2 :> Told(Nil, FALSE, Nil))}

\* IssuanceRules: templates that differ in the keys they permit, and ones that
\* differ in the names.
KeyRules ==
    LET Rule(t, low, high, c) ==
            [types |-> t, rsaMin |-> low, rsaMax |-> high, curves |-> c, wildcards |-> FALSE, suffixes |-> 0, patterns |-> FALSE]
        Bounds == {<<0, 0>>, <<0, 1024>>, <<0, 2048>>, <<4096, 0>>, <<4096, 2048>>}
        CurveSets == {{256, 521}, {384, 521}}
    IN  {Rule({"RSA"}, b[1], b[2], {}) : b \in Bounds} \cup {Rule({"RSA", "ECDSA"}, b[1], b[2], {384, 521}) : b \in Bounds}
        \cup {Rule(t, 0, 0, c) : t \in {{"ECDSA"}, {"ECDSA", "Ed25519"}}, c \in CurveSets}
NameRules ==
    [types : {{"RSA"}}, rsaMin : {0}, rsaMax : {0}, curves : {{256}},
     wildcards : BOOLEAN, suffixes : 0..2, patterns : BOOLEAN]
MCRulesets == KeyRules \cup NameRules
MCPolicies == [rsaMin : {0, 4096}, ecdsaMin : {384}, forbidden : {{}, {"RSA"}}, names : {{"outside"}, {"first"}}]
MCOwned ==
    [key : {[type |-> "RSA", size |-> 1024], [type |-> "RSA", size |-> 4096], [type |-> "ECDSA", size |-> 384]}, name : Names]

\* MemoryRenewals: one certificate that expires, one whose expiry is unknown.
MCDeadline == (x1 :> 2) @@ (x2 :> Nil)

\* AuditChain: the first keyring, the keyring after a rotation, and a wrong one.
MCKeysOf == (r1 :> {k1}) @@ (r2 :> {k1, k2}) @@ (rw :> {kw})
MCPrimaryOf == (r1 :> k1) @@ (r2 :> k2) @@ (rw :> kw)

\* AcmeOrders: one account orders a name and a wildcard, which dns-01 alone
\* can prove, the other is trusted with the name.
MCNamesOf == (c1 :> {n1, w1}) @@ (c2 :> {n1})
MCAnswerable == {<<n1, "http-01">>, <<n1, "dns-01">>, <<w1, "http-01">>}

\* AgentFleet: a token for one host.
MCMaxUses == t1 :> 1

\* AgentJobs: a host of staging and one of production, queued by one rollout.
MCHostWave == (h1 :> 1) @@ (h2 :> 2)
MCFirstJobs == (h1 :> x1) @@ (h2 :> x2)

-----------------------------------------------------------------------------
Parts == {"nonces", "acmeAccounts", "issuance", "reports", "acks",
          "schedules", "ct", "cloud", "signIn", "accounts", "rateLimit",
          "rules", "templates", "memory", "audit", "scans", "verification",
          "gateways", "orders", "fleet", "retries",
          "agentJobs"}

Init ==
    /\ part \in Parts
    /\ NoncesInit
    /\ AcmeAccountsInit
    /\ IssuanceInit
    /\ ReportsInit
    /\ AcksInit
    /\ SchedulesInit
    /\ CTInit
    /\ CloudInit
    /\ part # "cloud" => provider = CHOOSE p \in Providers : TRUE
    /\ SignInInit
    /\ AccountsInit
    /\ RateLimitInit
    /\ RulesInit
    /\ part # "rules" => rules = (CHOOSE r \in Rulesets : validShape(r)) /\ policies = (CHOOSE p \in Policies : TRUE) /\ held = Nil
    /\ TemplatesInit
    /\ part # "templates" => template.rules = (CHOOSE r \in Rules : TRUE)
    /\ MemoryInit
    /\ AuditInit
    /\ part # "audit" => \A w \in Writes \ {FirstWrite} : auditLogs[w] = NoEntry
    /\ ScansInit
    /\ VerificationInit
    /\ GatewayInit
    /\ part # "gateways" => up = {} /\ \A n \in GatewayNames : caAccount[n] = Nil /\ known[n] = Nil
    /\ AcmeInit
    /\ part # "orders" => standing = {c1}
    /\ FleetInit
    /\ RetryInit
    /\ part # "retries" => firstLeft = Nil
    /\ AgentJobsInit

\* The parts that a behaviour is not about.
RestUnchanged ==
    /\ IF part = "nonces" THEN TRUE ELSE UNCHANGED noncesVars
    /\ IF part = "acmeAccounts" THEN TRUE ELSE UNCHANGED acmeAccountsVars
    /\ IF part = "issuance" THEN TRUE ELSE UNCHANGED issuanceVars
    /\ IF part = "reports" THEN TRUE ELSE UNCHANGED reportsVars
    /\ IF part = "acks" THEN TRUE ELSE UNCHANGED acksVars
    /\ IF part = "schedules" THEN TRUE ELSE UNCHANGED schedulesVars
    /\ IF part = "ct" THEN TRUE ELSE UNCHANGED ctVars
    /\ IF part = "cloud" THEN TRUE ELSE UNCHANGED cloudVars
    /\ IF part = "signIn" THEN TRUE ELSE UNCHANGED signInVars
    /\ IF part = "accounts" THEN TRUE ELSE UNCHANGED accountsVars
    /\ IF part = "rateLimit" THEN TRUE ELSE UNCHANGED rateLimitVars
    /\ IF part = "rules" THEN TRUE ELSE UNCHANGED rulesVars
    /\ IF part = "templates" THEN TRUE ELSE UNCHANGED templateVars
    /\ IF part = "memory" THEN TRUE ELSE UNCHANGED memoryVars
    /\ IF part = "audit" THEN TRUE ELSE UNCHANGED auditVars
    /\ IF part = "scans" THEN TRUE ELSE UNCHANGED scansVars
    /\ IF part = "verification" THEN TRUE ELSE UNCHANGED verifyVars
    /\ IF part = "gateways" THEN TRUE ELSE UNCHANGED gatewayVars
    /\ IF part = "orders" THEN TRUE ELSE UNCHANGED acmeVars
    /\ IF part = "fleet" THEN TRUE ELSE UNCHANGED fleetVars
    /\ IF part = "retries" THEN TRUE ELSE UNCHANGED retryVars
    /\ IF part = "agentJobs" THEN TRUE ELSE UNCHANGED agentJobsVars

Next ==
    /\ UNCHANGED part
    /\ RestUnchanged
    /\ \/ part = "nonces" /\ NoncesNext
       \/ part = "acmeAccounts" /\ AcmeAccountsNext
       \/ part = "issuance" /\ IssuanceNext
       \/ part = "reports" /\ ReportsNext
       \/ part = "acks" /\ AcksNext
       \/ part = "schedules" /\ SchedulesNext
       \/ part = "ct" /\ CTNext
       \/ part = "cloud" /\ CloudNext
       \/ part = "signIn" /\ SignInNext
       \/ part = "accounts" /\ AccountsNext
       \/ part = "rateLimit" /\ RateLimitNext
       \/ part = "rules" /\ RulesNext
       \/ part = "templates" /\ TemplatesNext
       \/ part = "memory" /\ MemoryNext
       \/ part = "audit" /\ AuditNext
       \/ part = "scans" /\ ScansNext
       \/ part = "verification" /\ VerificationNext
       \/ part = "gateways" /\ GatewayNext
       \/ part = "orders" /\ AcmeNext
       \/ part = "fleet" /\ FleetNext
       \/ part = "retries" /\ RetryNext
       \/ part = "agentJobs" /\ AgentJobsNext

Spec == Init /\ [][Next]_vars

-----------------------------------------------------------------------------
\* Every variable of the part at work has its type.
TypeOK ==
    /\ part = "nonces" => NoncesTypeOK
    /\ part = "acmeAccounts" => AcmeAccountsTypeOK
    /\ part = "issuance" => IssuanceTypeOK
    /\ part = "reports" => ReportsTypeOK
    /\ part = "acks" => AcksTypeOK
    /\ part = "schedules" => SchedulesTypeOK
    /\ part = "ct" => CTTypeOK
    /\ part = "cloud" => CloudTypeOK
    /\ part = "signIn" => SignInTypeOK
    /\ part = "accounts" => AccountsTypeOK
    /\ part = "rateLimit" => RateLimitTypeOK
    /\ part = "rules" => RulesTypeOK
    /\ part = "templates" => TemplatesTypeOK
    /\ part = "memory" => MemoryTypeOK
    /\ part = "audit" => AuditTypeOK
    /\ part = "scans" => ScansTypeOK
    /\ part = "verification" => VerificationTypeOK
    /\ part = "gateways" => GatewayTypeOK
    /\ part = "orders" => AcmeTypeOK
    /\ part = "fleet" => FleetTypeOK
    /\ part = "retries" => RetryTypeOK
    /\ part = "agentJobs" => AgentJobsTypeOK

-----------------------------------------------------------------------------
(* What the services promise together, each with its part: the parts are   *)
(* stated, with their exceptions, in the services' modules.                *)

\* What is good once is spent once, on any replica, however requests overlap
\* and rows are swept: a nonce, a signed request, a use of an enrolment token,
\* the claim of an order, the import of a discovered certificate.
SpentOnce ==
    /\ part = "nonces" => NonceAcceptedOnce
    /\ part = "fleet" => RequestAcceptedOnce /\ TokenWithinUses
    /\ part = "orders" => OneCertificatePerOrder
    /\ part = "scans" => ImportedOnce

\* Nobody gets a certificate, or an account to ask for one with, beyond what
\* they proved or were granted: challenges, grants, credentials and keys.
AuthorityIsProved ==
    /\ part = "orders" => OnlyProvedNames
    /\ part = "issuance" => OneGrantPermits
    /\ part = "acmeAccounts" => RevokedCredentialStaysOut /\ AccountKeysDistinct

\* Sign-in holds against overlapping requests: sessions end with the password
\* they were opened with, guesses and requests are bounded, a demoted account
\* stays demoted and the last administrator stays.
AccessIsBounded ==
    /\ part = "signIn" => SessionsEndWithTheirEra /\ GuessesBounded
    /\ part = "accounts" => AdminRemains /\ DemotionSticks
    /\ part = "rateLimit" => WithinRate

\* The inventory follows the world it observes, though scans, checks, syncs
\* and reports overlap, fail half-way and are cancelled: CT logs, cloud
\* providers, network endpoints, files and installations on hosts, which are
\* recorded as the hosts tell them and made in the order of the waves.
InventoryFollowsWorld ==
    /\ part = "ct" => NoEntrySkipped /\ CertificateSurfaces /\ CountAgrees
    /\ part = "cloud" => RemovedWasGone /\ ImportSurvivesSync
    /\ part = "scans" => FoundIsKept /\ ReplacementIsReported
    /\ part = "reports" => InventoryFollowsScan /\ BindingsFollowReport
    /\ part = "agentJobs" => SucceededWasInstalled /\ WavesWait

\* Alerts reach people once and are silenced only knowingly: news of logs,
\* clouds, silent and failing hosts, certificates not served, acknowledgements.
AlertsAreTold ==
    /\ part = "ct" => NewsOnce
    /\ part = "cloud" => CloudNewsOnce
    /\ part = "fleet" => NoAlertStorm
    /\ part = "verification" => StaleIsTold
    /\ part = "acks" => SilenceIsForWhatWasSeen /\ LastWordCounts /\ SameAcknowledgement
    /\ part = "agentJobs" => FailingHostToldOnce

\* The rules decide what is issued: saving a template, defaulting a key,
\* raising one at a renewal and recording a version agree with the check a new
\* request is put to.
RulesDecide ==
    /\ part = "rules" => ProbesDecide /\ DefaultIsPermitted /\ NoGratuitousChange /\ RenewedConforms
    /\ part = "templates" => VersionNamesRules

\* The audit chain shows tampering and nothing else, through concurrent
\* writers, rotations, crashes and cores started with a wrong key.
ChainHolds ==
    part = "audit" => ChainStaysCheckable /\ NoEntryLost /\ TamperingShows

\* Nothing is left over: no connection without an owner, no live record of a
\* certificate a host replaced, no order pending on nothing, no failing job
\* that its retries leave waiting past the deadline.
NothingLeftOver ==
    /\ part = "gateways" => ConnectionsOwned
    /\ part = "issuance" => OneLivePerNames
    /\ part = "orders" => OrderFollowsAuthorizations
    /\ part = "retries" => TriesFitRunway /\ BackoffGrows

\* What no step may do: run a schedule early, decide an order again, delete or
\* revive an agent's credential out of turn.
StepsInTurn == PaceKept /\ DecidedOnce /\ RevokedBeforeDeleted
=============================================================================
