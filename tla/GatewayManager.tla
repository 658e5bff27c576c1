--------------------------- MODULE GatewayManager ---------------------------
(***************************************************************************)
(* pluginmgr.Manager: the table of gateway connections by name. Requests,  *)
(* the accounts' handlers and the health sweep dial without the lock and   *)
(* install under it.                                                       *)
(***************************************************************************)
EXTENDS Integers, FiniteSets, Common

CONSTANTS
    GatewayNames,   \* names of CA accounts and configured gateways
    Addrs,          \* addresses gateways listen at
    GatewayRequests,       \* concurrent requests that may dial
    MaxClients      \* bound: GatewayClient values alive at once

ASSUME GatewayAssumption == MaxClients \in Nat \ {0} /\ IsFiniteSet(GatewayNames) /\ GatewayNames \cap GatewayRequests = {}

VARIABLES
    up,             \* the addresses at which a gateway process runs
    hung,           \* those that take a connection and answer no call
    caAccount,      \* [GatewayNames -> Addrs \cup {Nil}]: the stored accounts' gateway_addr
    known,          \* [GatewayNames -> Addrs \cup {Nil}]: how to reach each name
    gateways,       \* [GatewayNames -> 0..MaxClients]: the client of a name, 0 when absent
    client,         \* [1..MaxClients -> ClientState]: the GatewayClient values
    failedAt,       \* names whose last dial failed less than redialPause ago
    dial,           \* [GatewayRequests \cup GatewayNames -> DialState]: RegisterGateway calls; a name is the sweep's goroutine
    healthSweep,    \* the health sweep
    closed          \* Manager.Close was called

gatewayVars == <<up, hung, caAccount, known, gateways, client, failedAt, dial, healthSweep, closed>>

Callers == GatewayRequests \cup GatewayNames
ClientIds == 1..MaxClients
ClientState == [addr : Addrs \cup {Nil}, open : BOOLEAN, isConnected : BOOLEAN, caps : BOOLEAN]
DialState == [pc : {"idle", "dialling", "asking", "dialled"}, name : GatewayNames \cup {Nil}, addr : Addrs \cup {Nil}, id : 0..MaxClients]
SweepState == [pc : {"idle", "connecting", "checking"}, snapshot : [GatewayNames -> 0..MaxClients], absent : SUBSET GatewayNames]

NoClient == [addr |-> Nil, open |-> FALSE, isConnected |-> FALSE, caps |-> FALSE]
NoDial == [pc |-> "idle", name |-> Nil, addr |-> Nil, id |-> 0]
NoSweep == [pc |-> "idle", snapshot |-> [n \in GatewayNames |-> 0], absent |-> {}]

\* Start-up has dialled the configured gateways and the accounts' and reached none.
GatewayInit ==
    /\ up \in SUBSET Addrs /\ hung = {}
    /\ known \in [GatewayNames -> Addrs \cup {Nil}] /\ caAccount \in [GatewayNames -> Addrs \cup {Nil}]
    /\ gateways = [n \in GatewayNames |-> 0] /\ client = [i \in ClientIds |-> NoClient]
    /\ failedAt = {} /\ dial = [c \in Callers |-> NoDial] /\ healthSweep = NoSweep /\ closed = FALSE

\* GetGateway and connectedAt.
Connected(n) == gateways[n] # 0 /\ client[gateways[n]].isConnected
ConnectedAt(a) == \E n \in GatewayNames : Connected(n) /\ client[gateways[n]].addr = a

FreeIds == {i \in ClientIds : /\ ~client[i].open /\ \A n \in GatewayNames : gateways[n] # i /\ healthSweep.snapshot[n] # i}

-----------------------------------------------------------------------------
\* RegisterGateway up to the dial: what is known is replaced; a connection
\* that stands under the name is returned whatever its address.
Register(c, n, a) ==
    /\ known' = [known EXCEPT ![n] = a]
    /\ dial' = IF Connected(n) THEN dial ELSE [dial EXCEPT ![c] = [NoDial EXCEPT !.pc = "dialling", !.name = n, !.addr = a]]
    /\ UNCHANGED <<up, hung, caAccount, gateways, client, failedAt, healthSweep, closed>>

\* GatewayFor where it dials: nothing is connected under the account's name or
\* at its address, and no dial failed lately. Its other outcomes change nothing.
GatewayFor(q, n) ==
    /\ ~closed /\ dial[q].pc = "idle" /\ caAccount[n] # Nil
    /\ ~Connected(n) /\ ~ConnectedAt(caAccount[n]) /\ n \notin failedAt
    /\ Register(q, n, caAccount[n])

\* The account handler's health check, which dials at once.
CheckNow(q, n) ==
    /\ ~closed /\ dial[q].pc = "idle" /\ caAccount[n] # Nil /\ ~Connected(n) /\ Register(q, n, caAccount[n])

\* CAAccountHandler.Create connects first and stores the account afterwards.
ConnectNew(q, n, a) == ~closed /\ dial[q].pc = "idle" /\ caAccount[n] = Nil /\ Register(q, n, a)

StoreAccount(n) ==
    /\ caAccount[n] = Nil /\ known[n] # Nil /\ Connected(n) /\ caAccount' = [caAccount EXCEPT ![n] = known[n]]
    /\ UNCHANGED <<up, hung, known, gateways, client, failedAt, dial, healthSweep, closed>>

\* The manager is not told of a deleted account.
DeleteAccount(n) ==
    /\ caAccount[n] # Nil /\ caAccount' = [caAccount EXCEPT ![n] = Nil]
    /\ UNCHANGED <<up, hung, known, gateways, client, failedAt, dial, healthSweep, closed>>

DialFails(c) ==
    /\ dial[c].pc = "dialling" /\ dial[c].addr \notin up
    /\ failedAt' = failedAt \cup {dial[c].name} /\ dial' = [dial EXCEPT ![c] = NoDial]
    /\ UNCHANGED <<up, hung, caAccount, known, gateways, client, healthSweep, closed>>

\* The dial, which has its dialTimeout.
Dialled(c) ==
    LET id == CHOOSE i \in FreeIds : \A j \in FreeIds : i <= j IN
    /\ dial[c].pc = "dialling" /\ dial[c].addr \in up /\ FreeIds # {}
    /\ client' = [client EXCEPT ![id] = [NoClient EXCEPT !.addr = dial[c].addr, !.open = TRUE]]
    /\ dial' = [dial EXCEPT ![c].pc = "asking", ![c].id = id]
    /\ UNCHANGED <<up, hung, caAccount, known, gateways, failedAt, healthSweep, closed>>

Answers(a) == a \in up \ hung

Asked(c, caps) ==
    /\ dial[c].pc = "asking"
    /\ client' = [client EXCEPT ![dial[c].id].caps = caps]
    /\ dial' = [dial EXCEPT ![c].pc = "dialled"]
    /\ UNCHANGED <<up, hung, caAccount, known, gateways, failedAt, healthSweep, closed>>

\* GetCapabilities has the caller's context and no deadline of its own. It may
\* fail by itself, and does when the gateway stops; that is logged and no more.
GetCapabilities(c) == dial[c].addr \notin up \cap hung /\ \E caps \in BOOLEAN : Asked(c, caps) /\ (caps => dial[c].addr \in up)

\* A request's context ends. The sweep's is context.Background().
AskTimesOut(q) == q \in GatewayRequests /\ Asked(q, FALSE)

\* Mutant of Installed: the connection that is replaced stays open.
InstalledBeside(n, id) == [client EXCEPT ![id].isConnected = TRUE]

\* A client that takes a name's place; the one before it is closed.
Installed(n, id) ==
    [i \in ClientIds |-> IF i = id THEN [client[i] EXCEPT !.isConnected = TRUE]
                         ELSE IF i = gateways[n] THEN NoClient ELSE client[i]]

\* The end of RegisterGateway, under the lock: the first of two dials wins.
Install(c) ==
    LET n == dial[c].name
        id == dial[c].id
    IN  /\ dial[c].pc = "dialled" /\ dial' = [dial EXCEPT ![c] = NoDial]
        /\ IF Connected(n)
           THEN /\ client' = [client EXCEPT ![id] = NoClient] /\ UNCHANGED <<gateways, failedAt>>
           ELSE /\ client' = Installed(n, id) /\ gateways' = [gateways EXCEPT ![n] = id] /\ failedAt' = failedAt \ {n}
        /\ UNCHANGED <<up, hung, caAccount, known, healthSweep, closed>>

PauseEnds(n) ==
    /\ n \in failedAt /\ failedAt' = failedAt \ {n}
    /\ UNCHANGED <<up, hung, caAccount, known, gateways, client, dial, healthSweep, closed>>

-----------------------------------------------------------------------------
\* Mutant of Checked: the sweep skips clients marked disconnected.
CheckedConnected == [n \in GatewayNames |-> IF Connected(n) THEN gateways[n] ELSE 0]

\* The clients a sweep checks, those marked disconnected included.
Checked == gateways

Absent == {n \in GatewayNames : known[n] # Nil /\ gateways[n] = 0}
ToDial == {n \in Absent : ~ConnectedAt(known[n])}

\* HealthCheckAll takes its snapshot and dials what has no client yet.
SweepBegin ==
    /\ ~closed /\ healthSweep.pc = "idle"
    /\ healthSweep' = [pc |-> IF Absent = {} THEN "checking" ELSE "connecting", snapshot |-> Checked, absent |-> Absent]
    /\ dial' = [c \in Callers |-> IF c \in ToDial THEN [NoDial EXCEPT !.pc = "dialling", !.name = c, !.addr = known[c]] ELSE dial[c]]
    /\ UNCHANGED <<up, hung, caAccount, known, gateways, client, failedAt, closed>>

\* ConnectAll waits for every dial; what is connected now is checked too.
SweepJoin ==
    /\ healthSweep.pc = "connecting" /\ \A n \in GatewayNames : dial[n].pc = "idle"
    /\ healthSweep' = [pc |-> "checking", absent |-> {},
                 snapshot |-> [n \in GatewayNames |-> IF n \in healthSweep.absent THEN gateways[n] ELSE healthSweep.snapshot[n]]]
    /\ UNCHANGED <<up, hung, caAccount, known, gateways, client, failedAt, dial, closed>>

\* One client of the snapshot is asked; one that answers and has no
\* capabilities is asked for them.
CheckGateway(n, caps) ==
    LET id == healthSweep.snapshot[n] IN
    /\ healthSweep.pc = "checking" /\ id # 0
    /\ IF Answers(client[id].addr)
       THEN client' = [client EXCEPT ![id].isConnected = TRUE, ![id].caps = @ \/ caps]
       ELSE client' = [client EXCEPT ![id].isConnected = FALSE]
    /\ healthSweep' = [healthSweep EXCEPT !.snapshot[n] = 0]
    /\ UNCHANGED <<up, hung, caAccount, known, gateways, failedAt, dial, closed>>

SweepEnd ==
    /\ healthSweep.pc = "checking" /\ (\A n \in GatewayNames : healthSweep.snapshot[n] = 0) /\ healthSweep' = NoSweep
    /\ UNCHANGED <<up, hung, caAccount, known, gateways, client, failedAt, dial, closed>>

CloseManager ==
    /\ ~closed /\ closed' = TRUE /\ gateways' = [n \in GatewayNames |-> 0]
    /\ client' = [i \in ClientIds |-> IF \E n \in GatewayNames : gateways[n] = i THEN NoClient ELSE client[i]]
    /\ UNCHANGED <<up, hung, caAccount, known, failedAt, dial, healthSweep>>

\* A gateway process stops or comes back.
Flip(a) ==
    /\ up' = (up \cup {a}) \ (up \cap {a})
    /\ UNCHANGED <<hung, caAccount, known, gateways, client, failedAt, dial, healthSweep, closed>>

\* One that runs stops answering, or answers again.
Hang(a) ==
    /\ hung' = (hung \cup {a}) \ (hung \cap {a})
    /\ UNCHANGED <<up, caAccount, known, gateways, client, failedAt, dial, healthSweep, closed>>

CallStep(c) == DialFails(c) \/ Dialled(c) \/ GetCapabilities(c) \/ Install(c)
SweepStep == SweepBegin \/ SweepJoin \/ SweepEnd \/ \E n \in GatewayNames, caps \in BOOLEAN : CheckGateway(n, caps)

GatewayNext ==
    \/ \E q \in GatewayRequests, n \in GatewayNames : GatewayFor(q, n) \/ CheckNow(q, n) \/ \E a \in Addrs : ConnectNew(q, n, a)
    \/ \E n \in GatewayNames : StoreAccount(n) \/ DeleteAccount(n) \/ PauseEnds(n)
    \/ \E c \in Callers : CallStep(c) \/ AskTimesOut(c)
    \/ SweepStep \/ CloseManager
    \/ \E a \in Addrs : Flip(a) \/ Hang(a)

\* The sweep runs on a timer, and its dials and health checks have deadlines.
\* GetCapabilities of one that it dials has none: GetCapabilities(c) cannot
\* happen while the gateway hangs. A gateway that answers its health checks does
\* not fail the call for its capabilities for ever.
GatewayFairness ==
    /\ WF_gatewayVars(SweepStep) /\ \A c \in Callers : WF_gatewayVars(CallStep(c))
    /\ \A n \in GatewayNames : SF_gatewayVars(CheckGateway(n, TRUE))

-----------------------------------------------------------------------------
GatewayTypeOK ==
    /\ up \subseteq Addrs /\ hung \subseteq Addrs /\ caAccount \in [GatewayNames -> Addrs \cup {Nil}] /\ known \in [GatewayNames -> Addrs \cup {Nil}]
    /\ gateways \in [GatewayNames -> 0..MaxClients] /\ client \in [ClientIds -> ClientState]
    /\ failedAt \subseteq GatewayNames /\ dial \in [Callers -> DialState] /\ healthSweep \in SweepState /\ closed \in BOOLEAN

\* "There is only ever one per name": every open connection is the one of a
\* name or of a call that has just dialled, and no name has a closed one,
\* whichever of a request, an account handler and the sweep dialled.
ConnectionsOwned ==
    /\ \A i \in ClientIds : client[i].open => (\E n \in GatewayNames : gateways[n] = i) \/ (\E c \in Callers : dial[c].id = i)
    /\ \A n \in GatewayNames : gateways[n] # 0 => client[gateways[n]].open

\* The name's gateway answers at the address known for it.
Reachable(n) ==
    /\ ~closed /\ known[n] \in up \ hung /\ (gateways[n] # 0 => client[gateways[n]].addr = known[n])

\* A gateway that the sweep has dialled takes the call and does not answer it.
SweepHeldUp == \E n \in GatewayNames : dial[n].pc = "asking" /\ dial[n].addr \in up \cap hung

\* A gateway that answers from some time on is connected, with its
\* capabilities, without any request: one that was down when it was first
\* dialled and one that a failed check marked disconnected alike. That needs a
\* sweep that gets on: ConnectAll waits for every gateway it dials, so one that
\* hangs right after it was dialled keeps all others from being noticed.
GatewayComesBack ==
    \A n \in GatewayNames :
        <>[](Reachable(n) /\ ~SweepHeldUp)
           => <>[]((Connected(n) /\ client[gateways[n]].caps) \/ (gateways[n] = 0 /\ ConnectedAt(known[n])))
=============================================================================
