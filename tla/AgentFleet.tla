----------------------------- MODULE AgentFleet -----------------------------
(***************************************************************************)
(* Agents: enrolment tokens, enrolment, heartbeats, revocation, the replay *)
(* guard on signed requests, and the fleet monitors (one per core replica) *)
(* that announce hosts that have gone quiet. Time is what has lapsed: a    *)
(* token has expired, an agent has missed its intervals, the window of a   *)
(* signature has closed.                                                   *)
(***************************************************************************)
EXTENDS Integers, FiniteSets, Common

CONSTANTS
    EnrolTokens,    \* enrolment tokens that exist
    MaxUses,        \* [EnrolTokens -> Nat \ {0}]: max_uses
    Agents,         \* row identities of agents
    Enrolments,     \* enrolment requests in flight at once
    Monitors,       \* core replicas, each with a fleet monitor
    SignedRequests, \* signed requests to guarded endpoints
    MaxSilences     \* bound: times a host goes quiet

ASSUME FleetAssumption ==
    /\ MaxUses \in [EnrolTokens -> Nat \ {0}]
    /\ MaxSilences \in Nat
    /\ Nil \notin EnrolTokens \cup Agents
    /\ IsFiniteSet(Agents) /\ IsFiniteSet(Enrolments) /\ IsFiniteSet(Monitors)

VARIABLES
    token,          \* [EnrolTokens -> TokenRow]
    agent,          \* [Agents -> AgentRow]
    enrolment,      \* [Enrolments -> EnrolmentState]
    sweep,          \* [Monitors -> SUBSET Agents]: read as quiet, not yet announced
    signature,      \* [SignedRequests -> SignatureState]
    silences,       \* number of times a host has gone quiet
    told,           \* history: [Agents -> Nat], messages since the host was last heard
    brushed,        \* history: agents marked after they had been heard again
    sweptTwice      \* history: agents read as quiet by a sweep while another's still held them

fleetVars == <<token, agent, enrolment, sweep, signature, silences, told, brushed, sweptTwice>>

TokenRow == [revoked : BOOLEAN, expired : BOOLEAN, uses : Nat]
AgentRow == [status  : {"none", "ACTIVE", "REVOKED"},
             by      : EnrolTokens \cup {Nil},   \* enrol_token_id
             quiet   : BOOLEAN,                  \* three promised intervals have passed
             alerted : BOOLEAN]                  \* stale_alerted_at IS NOT NULL
EnrolmentState == [at : {"idle", "consume", "create"}, token : EnrolTokens \cup {Nil}]

\* row: in agent_request_signatures; used: times accepted within the window.
SignatureState == [closed : BOOLEAN, row : BOOLEAN, used : Nat]

NoAgent == [status |-> "none", by |-> Nil, quiet |-> FALSE, alerted |-> FALSE]
NoEnrolment == [at |-> "idle", token |-> Nil]

FleetInit ==
    /\ token = [t \in EnrolTokens |-> [revoked |-> FALSE, expired |-> FALSE, uses |-> 0]]
    /\ agent = [a \in Agents |-> NoAgent]
    /\ enrolment = [e \in Enrolments |-> NoEnrolment]
    /\ sweep = [m \in Monitors |-> {}]
    /\ signature = [r \in SignedRequests |-> [closed |-> FALSE, row |-> FALSE, used |-> 0]]
    /\ silences = 0
    /\ told = [a \in Agents |-> 0]
    /\ brushed = {} /\ sweptTwice = {}

-----------------------------------------------------------------------------
(* Enrolment.                                                              *)

Usable(t) == ~token[t].revoked /\ ~token[t].expired /\ token[t].uses < MaxUses[t]

\* The key is parsed and the token looked up before it is spent.
Enrol(e, t) ==
    /\ enrolment[e].at = "idle" /\ Usable(t)
    /\ enrolment' = [enrolment EXCEPT ![e] = [at |-> "consume", token |-> t]]
    /\ UNCHANGED <<token, agent, sweep, signature, silences, told, brushed, sweptTwice>>

\* Mutant of Spendable: the look-up has said it is usable.
SpendableAsRead(t) == TRUE

\* UPDATE ... WHERE revoked_at IS NULL AND expires_at > now AND uses < max_uses
Spendable(t) == ~token[t].revoked /\ ~token[t].expired /\ token[t].uses < MaxUses[t]

ConsumeAgentEnrolToken(e) ==
    LET t == enrolment[e].token
    IN /\ enrolment[e].at = "consume"
       /\ IF Spendable(t)
          THEN /\ token' = [token EXCEPT ![t].uses = @ + 1]
               /\ enrolment' = [enrolment EXCEPT ![e].at = "create"]
          ELSE enrolment' = [enrolment EXCEPT ![e] = NoEnrolment] /\ UNCHANGED token
       /\ UNCHANGED <<agent, sweep, signature, silences, told, brushed, sweptTwice>>

EnrolledRow(t) == [NoAgent EXCEPT !.status = "ACTIVE", !.by = t]

\* Two replicas are about to announce the agent.
SweptByTwo(a) == \E m, n \in Monitors : m # n /\ a \in sweep[m] /\ a \in sweep[n]

StillSweptTwice(a) == IF SweptByTwo(a) THEN sweptTwice ELSE sweptTwice \ {a}

CreateAgent(e, a) ==
    /\ enrolment[e].at = "create" /\ agent[a].status = "none"
    /\ agent' = [agent EXCEPT ![a] = EnrolledRow(enrolment[e].token)]
    /\ enrolment' = [enrolment EXCEPT ![e] = NoEnrolment]
    /\ told' = [told EXCEPT ![a] = 0]
    /\ sweptTwice' = StillSweptTwice(a)
    /\ UNCHANGED <<token, sweep, signature, silences, brushed>>

\* The process stops between two statements: a use is spent for nothing.
EnrolmentLost(e) ==
    /\ enrolment[e].at # "idle"
    /\ enrolment' = [enrolment EXCEPT ![e] = NoEnrolment]
    /\ UNCHANGED <<token, agent, sweep, signature, silences, told, brushed, sweptTwice>>

RevokeAgentEnrolToken(t) ==
    /\ ~token[t].revoked
    /\ token' = [token EXCEPT ![t].revoked = TRUE]
    /\ UNCHANGED <<agent, enrolment, sweep, signature, silences, told, brushed, sweptTwice>>

TokenExpires(t) ==
    /\ ~token[t].expired
    /\ token' = [token EXCEPT ![t].expired = TRUE]
    /\ UNCHANGED <<agent, enrolment, sweep, signature, silences, told, brushed, sweptTwice>>

-----------------------------------------------------------------------------
(* Agents.                                                                 *)

\* Mutant of HeardRow: the mark stays.
HeardRowKeepsMark(a) == [agent[a] EXCEPT !.quiet = FALSE]

\* A heartbeat clears the alert, so that the next silence is announced.
HeardRow(a) == [agent[a] EXCEPT !.quiet = FALSE, !.alerted = FALSE]

RecordAgentHeartbeat(a) ==
    /\ agent[a].status = "ACTIVE"
    /\ agent' = [agent EXCEPT ![a] = HeardRow(a)]
    /\ told' = [told EXCEPT ![a] = 0]
    /\ brushed' = brushed \ {a}
    /\ sweptTwice' = StillSweptTwice(a)
    /\ UNCHANGED <<token, enrolment, sweep, signature, silences>>

\* Three promised intervals have passed.
GoesQuiet(a) ==
    /\ agent[a].status = "ACTIVE" /\ ~agent[a].quiet /\ silences < MaxSilences
    /\ agent' = [agent EXCEPT ![a].quiet = TRUE]
    /\ silences' = silences + 1
    /\ UNCHANGED <<token, enrolment, sweep, signature, told, brushed, sweptTwice>>

RevokeAgent(a) ==
    /\ agent[a].status = "ACTIVE"
    /\ agent' = [agent EXCEPT ![a].status = "REVOKED"]
    /\ UNCHANGED <<token, enrolment, sweep, signature, silences, told, brushed, sweptTwice>>

\* Mutant of MayDelete: the record may go while the credential works.
MayDeleteAny(a) == agent[a].status # "none"

MayDelete(a) == agent[a].status = "REVOKED"

DeleteAgent(a) ==
    /\ MayDelete(a)
    /\ agent' = [agent EXCEPT ![a] = NoAgent]
    /\ brushed' = brushed \ {a}
    /\ UNCHANGED <<token, enrolment, sweep, signature, silences, told, sweptTwice>>

-----------------------------------------------------------------------------
(* The monitors. A sweep reads the quiet agents, then marks and announces  *)
(* them one by one; the mark is written whatever the row says by then.     *)

\* Mutant of Stale: every quiet agent, announced or not.
StaleAlways(a) == agent[a].status = "ACTIVE" /\ agent[a].quiet

\* agentStalePredicate AND stale_alerted_at IS NULL
Stale(a) == agent[a].status = "ACTIVE" /\ agent[a].quiet /\ ~agent[a].alerted

GetStaleAgents(m) ==
    /\ sweep[m] = {} /\ \E a \in Agents : Stale(a)
    /\ sweep' = [sweep EXCEPT ![m] = {a \in Agents : Stale(a)}]
    /\ sweptTwice' = sweptTwice \cup {a \in Agents : Stale(a) /\ \E n \in Monitors : a \in sweep[n]}
    /\ UNCHANGED <<token, agent, enrolment, signature, silences, told, brushed>>

MarkAgentStaleAlerted(m, a) ==
    /\ a \in sweep[m]
    /\ sweep' = [sweep EXCEPT ![m] = @ \ {a}]
    /\ agent' = IF agent[a].status = "none" THEN agent ELSE [agent EXCEPT ![a].alerted = TRUE]
    /\ told' = [told EXCEPT ![a] = @ + 1]
    /\ brushed' = IF agent[a].quiet THEN brushed ELSE brushed \cup {a}
    /\ UNCHANGED <<token, enrolment, signature, silences, sweptTwice>>

\* The process stops, or the mark cannot be written: nothing is announced.
SweepEnds(m) ==
    /\ sweep[m] # {}
    /\ sweep' = [sweep EXCEPT ![m] = {}]
    /\ UNCHANGED <<token, agent, enrolment, signature, silences, told, brushed, sweptTwice>>

-----------------------------------------------------------------------------
(* The replay guard.                                                       *)

\* INSERT ... ON CONFLICT DO NOTHING
Fresh(r) == ~signature[r].row

\* AgentAuth on a guarded path: the signature verifies only within the
\* tolerance around its timestamp.
ClaimAgentRequestSignature(r) ==
    /\ ~signature[r].closed
    /\ signature' = [signature EXCEPT ![r].row = TRUE, ![r].used = @ + IF Fresh(r) THEN 1 ELSE 0]
    /\ signature' # signature
    /\ UNCHANGED <<token, agent, enrolment, sweep, silences, told, brushed, sweptTwice>>

WindowCloses(r) ==
    /\ ~signature[r].closed
    /\ signature' = [signature EXCEPT ![r].closed = TRUE]
    /\ UNCHANGED <<token, agent, enrolment, sweep, silences, told, brushed, sweptTwice>>

\* Mutant of SweptSignatures: rows are swept while their window is open.
SweptAll == {r \in SignedRequests : signature[r].row}

SweptSignatures == {r \in SignedRequests : signature[r].row /\ signature[r].closed}

SweepAgentRequestSignatures ==
    /\ SweptSignatures # {}
    /\ signature' = [r \in SignedRequests |->
                        IF r \in SweptSignatures THEN [signature[r] EXCEPT !.row = FALSE] ELSE signature[r]]
    /\ UNCHANGED <<token, agent, enrolment, sweep, silences, told, brushed, sweptTwice>>

MonitorStep(m) == GetStaleAgents(m) \/ \E a \in Agents : MarkAgentStaleAlerted(m, a)

FleetNext ==
    \/ \E e \in Enrolments :
          \/ \E t \in EnrolTokens : Enrol(e, t)
          \/ ConsumeAgentEnrolToken(e) \/ EnrolmentLost(e)
          \/ \E a \in Agents : CreateAgent(e, a)
    \/ \E t \in EnrolTokens : RevokeAgentEnrolToken(t) \/ TokenExpires(t)
    \/ \E a \in Agents : RecordAgentHeartbeat(a) \/ GoesQuiet(a) \/ RevokeAgent(a) \/ DeleteAgent(a)
    \/ \E m \in Monitors : MonitorStep(m) \/ SweepEnds(m)
    \/ \E r \in SignedRequests : ClaimAgentRequestSignature(r) \/ WindowCloses(r)
    \/ SweepAgentRequestSignatures

\* The monitor of every replica sweeps on its ticker, and its marks succeed
\* if they are tried again and again.
FleetFairness ==
    \A m \in Monitors, a \in Agents :
        WF_fleetVars(GetStaleAgents(m)) /\ SF_fleetVars(MarkAgentStaleAlerted(m, a))

-----------------------------------------------------------------------------
FleetTypeOK ==
    /\ token \in [EnrolTokens -> TokenRow]
    /\ agent \in [Agents -> AgentRow]
    /\ \A a \in Agents : agent[a].status # "none" => agent[a].by # Nil
    /\ enrolment \in [Enrolments -> EnrolmentState]
    /\ sweep \in [Monitors -> SUBSET Agents]
    /\ signature \in [SignedRequests -> SignatureState]
    /\ silences \in 0..MaxSilences
    /\ told \in [Agents -> Nat]
    /\ brushed \subseteq Agents /\ sweptTwice \subseteq Agents

\* Two hosts booting from one image: however their enrolments interleave,
\* a token enrols no more agents than it allows, and the agents that exist
\* and the enrolments past the token are uses that were counted.
TokenWithinUses ==
    \A t \in EnrolTokens :
        LET enrolled == {a \in Agents : agent[a].by = t}
            spending == {e \in Enrolments : enrolment[e].at = "create" /\ enrolment[e].token = t}
        IN Cardinality(enrolled) + Cardinality(spending) <= token[t].uses /\ token[t].uses <= MaxUses[t]

\* A guarded request is accepted once while its signature would still verify,
\* on any replica and beside the sweep of old rows.
RequestAcceptedOnce == \A r \in SignedRequests : signature[r].used <= 1

\* One silence makes one message, whichever replica's sweep finds it and however
\* heartbeats, crashes and revocations fall between the read and the mark. Excluded
\* is a host that two sweeps read before either had marked it: the mark is written
\* without a condition, and each replica sends the message of its own.
NoAlertStorm ==
    \A a \in Agents : told[a] <= IF a \in sweptTwice THEN Cardinality(Monitors) ELSE 1

\* A credential is withdrawn before its record: an agent's row goes only from
\* active through revoked, and what is revoked never becomes active again.
RevokedBeforeDeleted ==
    [][\A a \in Agents :
          /\ agent[a].status = "ACTIVE" => agent'[a].status # "none"
          /\ agent[a].status = "REVOKED" => agent'[a].status # "ACTIVE"]_fleetVars

\* A host that goes quiet is announced, unless it is heard again or withdrawn;
\* a host that comes back and goes quiet again is announced again. Excluded is
\* a host that was marked from an old read just after it had been heard.
QuietHostAnnounced ==
    \A a \in Agents :
        (agent[a].status = "ACTIVE" /\ agent[a].quiet)
            ~> (told[a] > 0 \/ ~agent[a].quiet \/ agent[a].status # "ACTIVE" \/ a \in brushed)
=============================================================================
