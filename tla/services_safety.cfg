SPECIFICATION Spec
CONSTANTS
    Nil = Nil
    c1 = c1 c2 = c2 w1 = w1 t1 = t1 h1 = h1 h2 = h2 n1 = n1 n2 = n2 g1 = g1 g2 = g2 x1 = x1 x2 = x2 d1 = d1 d2 = d2
    fp1 = fp1 fp2 = fp2 fp3 = fp3 k1 = k1 k2 = k2 kw = kw r1 = r1 r2 = r2 rw = rw
    \* AcmeNonces
    Nonces = {n1, n2} Spends = {s1, s2} NonceLife = 1 MaxTicks = 2
    \* AcmeAccounts
    Creds = {e1, e2} AcmeKeys = {k1, k2} AcmeCalls = {a1, a2}
    \* AgentIssuance
    Hosts = {h1, h2} HostNames = {n1, n2} HostKeyTypes = {"RSA", "ECDSA"} Grants = {g1, g2} GrantNames <- MCGrantNames GrantHosts <- MCGrantHosts
    HostRecs = {x1, x2} Asks = {q1, q2} MaxMade = 2
    \* AgentReports
    ReportingHosts = {h1} HeldCerts = {x1, x2} Prints = {fp1, fp2, fp3} Destinations = {d1, d2} ReportSet <- MCReports
    Reports = {p1, p2} Files = {f1, f2} MaxReports = 3
    \* Acknowledgements
    AckThresholds = {7, 30} MaxAckRows = 2
    \* DiscoverySchedules
    Schedules = {h1} Schedulers = {r1, r2} Intervals = {1, 2} MinInterval = 2 MaxScheduleClock = 2
    \* CTMonitors
    Serials = {n1} Domains = {d1, d2} Checkers = {k1, k2} MaxAnswer = 2 MaxLog = 3
    \* CloudSync
    Providers = {"aws_acm", "gcp"} Resources = {a1, a2} CloudPrints = {f1} Syncs = {y1, y2} MaxCloudChanges = 1
    \* SignIn
    Logins = {l1, l2} Sessions = {s1, s2} MaxFailed = 2 MaxEras = 1
    \* Accounts
    Emails = {m1, m2} BootstrapAdmins = {m1} Updates = {q1, q2}
    \* RateLimit
    LimitedRequests = {r1, r2} Rate = 1 Burst = 2 IdleFor = 3 MaxDelay = 1 MaxClock = 5
    \* IssuanceRules
    Rulesets <- MCRulesets Policies <- MCPolicies Owned <- MCOwned
    \* TemplateVersions
    Shapes = {p1, p2} Edits = {d1, d2} MaxIssued = 2
    \* MemoryRenewals
    JobIds = {j1, j2} Certificates = {x1, x2} Deadline <- MCDeadline Holders = {h1, h2} LeaseTime = 1 MaxTries = 2 MaxTime = 2
    \* AuditChain
    Cores = {a1, a2} Writes = {u0, u1, u2} FirstWrite = u0 Rings = {r1, r2, rw}
    KeysOf <- MCKeysOf PrimaryOf <- MCPrimaryOf FirstRing = r1
    \* DiscoveryScans
    Endpoints = {e1} Served = {c1, c2} Scans = {s1, s2} Imports = {i1} MaxMoves = 1
    \* Verification
    ServingHosts = {e1} MaxRenewals = 2 MaxAttempts = 2 MaxAsked = 1 MaxSettled = 1
    \* GatewayManager
    GatewayNames = {g1} Addrs = {p1, p2} GatewayRequests = {q1} MaxClients = 3
    \* AcmeOrders
    Accts = {c1, c2} ProofAccts = {c1} MaxProofOrders = 1 NamesOf <- MCNamesOf AcmeNames = {n1, w1} Wildcards = {w1}
    Answerable <- MCAnswerable Orders = {o1, o2} Records = {r1, r2} Requests = {q1, q2} MaxIdentifiers = 2 MaxSigned = 2
    \* AgentFleet
    EnrolTokens = {t1} MaxUses <- MCMaxUses Agents = {a1, a2} Enrolments = {e1, e2} Monitors = {m1, m2}
    SignedRequests = {r1} MaxSilences = 2
    \* RetryTimes: minRetryDelay is 5, so that baseRetryDelay is 10 and maxRetryDelay 1800
    BaseDelay = 10 MaxRetry = 1800 MinRetry = 5 Budget = 24 MaxShift = 26 Runways = {Nil, 3, 60, 130} Durations = {1, 7} MaxFailures = 30
    \* AgentJobs
    TargetHosts = {h1, h2} HostWave <- MCHostWave HostJobs = {x1, x2, f1} FirstJobs <- MCFirstJobs ResultReports = {p1, p2}
    MaxResults = 3 MaxMishaps = 1
INVARIANTS
    TypeOK
    SpentOnce
    AuthorityIsProved
    AccessIsBounded
    InventoryFollowsWorld
    
    RulesDecide
    ChainHolds
    NothingLeftOver
PROPERTIES
    StepsInTurn
    ImplementsTable
CHECK_DEADLOCK FALSE
