SPECIFICATION Spec
CONSTANTS
    Nil = Nil
    c1 = c1 c2 = c2 n1 = n1 w1 = w1 t1 = t1 g1 = g1 g2 = g2 p1 = p1 p2 = p2
    \* DiscoveryScans
    Endpoints = {e1} Served = {c1, c2} Scans = {s1} Imports = {i1} MaxMoves = 1
    \* Notifications
    Notices = {n1, n2} Channels = {h1} NoticeBuffer = 1 MaxInFlight = 1 Attempts = 2 MaxEdits = 1
    \* EventStream
    Dashboards = {d1} QueueSize = 2 HistoryCap = 1 MaxChanges = 3 MaxUnderWay = 1 MaxBoots = 1
    \* RenewalAdvice
    Life = 2 Lead = 1 Floor = 1 MinWait = 1 LongWait = 1 MaxRefresh = 1
    \* Verification
    ServingHosts = {e1, e2} MaxRenewals = 1 MaxAttempts = 2 MaxAsked = 1 MaxSettled = 0
    \* GatewayManager
    GatewayNames = {g1, g2} Addrs = {p1, p2} GatewayRequests = {} MaxClients = 2
    \* AcmeOrders
    Accts = {c1, c2} ProofAccts = {} MaxProofOrders = 1 NamesOf <- MCNamesOf AcmeNames = {n1, w1} Wildcards = {w1}
    Answerable <- MCAnswerable Orders = {o1} Records = {r1} Requests = {q1, q2} MaxIdentifiers = 2 MaxSigned = 2
    \* AgentFleet
    EnrolTokens = {t1} MaxUses <- MCMaxUses Agents = {a1} Enrolments = {e1} Monitors = {m1, m2}
    SignedRequests = {r1} MaxSilences = 2
    \* CAAuthorities
    CAs = {c1} CAThresholds = {0, 1} CARuns = {r1, r2} CADays = 2 CriticalDays = 0 WarningDays = 1
INVARIANTS
    NothingMissed
PROPERTIES
    WorkEnds
    RenewedInTime
    
CHECK_DEADLOCK FALSE
