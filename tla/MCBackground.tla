---------------------------- MODULE MCBackground ----------------------------
(***************************************************************************)
(* Small instances of the services that must get something done, whoever   *)
(* asks for it: a request, a timer or another service. They share no state *)
(* with each other, so that a behaviour of the core projects to one of     *)
(* each: part says which of them a behaviour exercises, and the others     *)
(* stay in one of their initial states.                                    *)
(***************************************************************************)
EXTENDS DiscoveryScans, Notifications, EventStream, RenewalAdvice,
        Verification, GatewayManager, AcmeOrders, AgentFleet, CAAuthorities,
        TLC

CONSTANTS c1, c2, n1, w1, t1, g1, g2, p1, p2

VARIABLE part

vars == <<part, scansVars, notifyVars, streamVars, adviceVars, verifyVars,
          gatewayVars, acmeVars, fleetVars, caVars>>

-----------------------------------------------------------------------------
\* AcmeOrders: one account orders a name and a wildcard, which dns-01 alone
\* can prove, the other is trusted with the name.
MCNamesOf == (c1 :> {n1, w1}) @@ (c2 :> {n1})
MCAnswerable == {<<n1, "http-01">>, <<n1, "dns-01">>, <<w1, "http-01">>}

\* AgentFleet: a token for one host.
MCMaxUses == t1 :> 1

\* GatewayManager: two gateways of the configuration file, each at an address of
\* its own, and no account that is added or removed.
MCAddrOf == (g1 :> p1) @@ (g2 :> p2)

-----------------------------------------------------------------------------
Parts == {"scans", "notify", "stream", "advice", "verification", "gateways",
          "orders", "fleet", "authorities"}

Init ==
    /\ part \in Parts
    /\ ScansInit
    /\ NotifyInit
    /\ StreamInit
    /\ AdviceInit
    /\ VerificationInit
    /\ GatewayInit
    /\ part # "gateways" => up = {}
    /\ known = MCAddrOf /\ caAccount = [n \in GatewayNames |-> Nil]
    /\ AcmeInit
    /\ part # "orders" => standing = {c1}
    /\ FleetInit
    /\ CAInit

\* The parts that a behaviour is not about stay as they are.
RestUnchanged ==
    /\ UNCHANGED part
    /\ IF part = "scans" THEN TRUE ELSE UNCHANGED scansVars
    /\ IF part = "notify" THEN TRUE ELSE UNCHANGED notifyVars
    /\ IF part = "stream" THEN TRUE ELSE UNCHANGED streamVars
    /\ IF part = "advice" THEN TRUE ELSE UNCHANGED adviceVars
    /\ IF part = "verification" THEN TRUE ELSE UNCHANGED verifyVars
    /\ IF part = "gateways" THEN TRUE ELSE UNCHANGED gatewayVars
    /\ IF part = "orders" THEN TRUE ELSE UNCHANGED acmeVars
    /\ IF part = "fleet" THEN TRUE ELSE UNCHANGED fleetVars
    /\ IF part = "authorities" THEN TRUE ELSE UNCHANGED caVars

Next ==
    /\ RestUnchanged
    /\ \/ part = "scans" /\ ScansNext
       \/ part = "notify" /\ NotifyNext
       \/ part = "stream" /\ StreamNext
       \/ part = "advice" /\ AdviceNext
       \/ part = "verification" /\ VerificationNext
       \/ part = "gateways" /\ GatewayNext /\ UNCHANGED caAccount
       \/ part = "orders" /\ AcmeNext
       \/ part = "fleet" /\ FleetNext
       \/ part = "authorities" /\ CANext

(***************************************************************************)
(* Fairness: that of every part. A behaviour exercises one part, so the    *)
(* conditions of different parts are about different behaviours, and the   *)
(* i-th ones of all parts make one condition.                              *)
(***************************************************************************)
Deliveries == SetToSeq(Notices \X Channels)
Dialers == SetToSeq(Callers)
Sweepers == SetToSeq(Monitors \X Agents)
Checkers == SetToSeq(CARuns \X CAs)
ScanSeq == SetToSeq(Scans)
DashboardSeq == SetToSeq(Dashboards)
GatewaySeq == SetToSeq(GatewayNames)
RequestSeq == SetToSeq(Requests)
MonitorSeq == SetToSeq(Monitors)
RunSeq == SetToSeq(CARuns)

Weak(i) ==
    \/ part = "scans" /\ i \in DOMAIN ScanSeq /\ ScanStep(ScanSeq[i])
    \/ /\ part = "notify"
       /\ \/ i = 1 /\ (TakeNotice \/ RunStep)
          \/ i = 2 /\ RunEnds
          \/ i - 2 \in DOMAIN Deliveries /\ DeliveryStep(Deliveries[i - 2])
    \/ part = "stream" /\ i \in DOMAIN DashboardSeq /\ HandlerStep(DashboardSeq[i])
    \/ /\ part = "advice"
       /\ \/ i = 1 /\ Tick(FALSE)
          \/ i = 2 /\ RenewDue
          \/ i = 3 /\ BeginRefresh("poller")
          \/ i = 4 /\ (RecordAdvice("poller") \/ RecordLost("poller"))
    \/ /\ part = "verification"
       /\ \/ i = 1 /\ GraceEnds
          \/ i = 2 /\ BeginVerify("ticker")
          \/ i = 3 /\ announceStale("ticker")
    \/ /\ part = "gateways"
       /\ \/ i = 1 /\ SweepStep
          \/ i - 1 \in DOMAIN Dialers /\ CallStep(Dialers[i - 1])
    \/ part = "orders" /\ i \in DOMAIN RequestSeq /\ RequestStep(RequestSeq[i])
    \/ part = "fleet" /\ i \in DOMAIN MonitorSeq /\ GetStaleAgents(MonitorSeq[i])
    \/ part = "authorities" /\ i \in DOMAIN RunSeq /\ UpdateCAAuthority(RunSeq[i])

Strong(i) ==
    \/ /\ part = "advice"
       /\ \/ i = 1 /\ Fetch("poller")
          \/ i = 2 /\ ~asking["poller"].failed /\ RecordAdvice("poller")
    \/ /\ part = "verification"
       /\ \/ i = 1 /\ (NoEndpoints("ticker") \/ ProbeEndpoints("ticker"))
          \/ i = 2 /\ RecordVerdict("ticker")
    \/ part = "gateways" /\ i \in DOMAIN GatewaySeq /\ CheckGateway(GatewaySeq[i], TRUE)
    \/ part = "fleet" /\ i \in DOMAIN Sweepers /\ MarkAgentStaleAlerted(Sweepers[i][1], Sweepers[i][2])
    \/ /\ part = "authorities"
       /\ \/ i \in DOMAIN Checkers /\ BeginCheck(Checkers[i][1], Checkers[i][2])
          \/ /\ i - 2 \in DOMAIN Checkers
             /\ CheckCA(Checkers[i - 2][1]) /\ caRun[Checkers[i - 2][1]].ca = Checkers[i - 2][2]

\* The variables of the part at work. Its actions change no other.
workVars ==
    CASE part = "scans" -> scansVars
      [] part = "notify" -> notifyVars
      [] part = "stream" -> streamVars
      [] part = "advice" -> adviceVars
      [] part = "verification" -> verifyVars
      [] part = "gateways" -> gatewayVars
      [] part = "orders" -> acmeVars
      [] part = "fleet" -> fleetVars
      [] part = "authorities" -> caVars

Fairness ==
    /\ \A i \in 1..4 : WF_workVars(UNCHANGED part /\ Weak(i))
    /\ \A i \in 1..4 : SF_workVars(UNCHANGED part /\ Strong(i))

Spec == Init /\ [][Next]_vars /\ Fairness

-----------------------------------------------------------------------------
\* Every variable of the part at work has its type.
TypeOK ==
    /\ part = "scans" => ScansTypeOK
    /\ part = "notify" => NotifyTypeOK
    /\ part = "stream" => StreamTypeOK
    /\ part = "advice" => AdviceTypeOK
    /\ part = "verification" => VerificationTypeOK
    /\ part = "gateways" => GatewayTypeOK
    /\ part = "orders" => AcmeTypeOK
    /\ part = "fleet" => FleetTypeOK
    /\ part = "authorities" => CATypeOK

-----------------------------------------------------------------------------
(* What the background services promise together, each with its part: the  *)
(* parts are stated, with their exceptions, in the services' modules.      *)

\* Nothing that was published or edited is missed in silence: a dashboard
\* knows every change, the dispatcher's cache follows the edits of channels,
\* and what is recorded as announced was crossed and announced.
NothingMissed == TypeOK /\ NoSilentGap /\ CacheFollowsEdits /\ AnnouncedWhatWasCrossed

\* What was begun comes to an end: scans, deliveries, streams at a stop,
\* verifications and claimed orders.
WorkEnds ==
    ScanSettles /\ DeliverySettles /\ StopEndsStreams /\ VerificationEnds /\ FinalizeSettles

\* A certificate is renewed when its CA asks for it and before the safety
\* floor runs out, whatever the poller was told or failed to hear.
RenewedInTime == IncidentActedOn /\ FloorMet

\* What fails is noticed without anybody asking: a gateway that answers again
\* is connected, a silent host and an expiring authority are announced.
TroubleIsNoticed == GatewayComesBack /\ QuietHostAnnounced /\ CrossingIsAnnounced
=============================================================================
