SPECIFICATION Spec
CONSTANTS
    c1 = c1  c2 = c2  j1 = j1  j2 = j2  j3 = j3  r1 = r1  r2 = r2  w1 = w1  w2 = w2
    none = none
    Certs = {c1}
    Custody <- AllOurs
    Jobs = {j1, j2}
    Replicas = {r1, r2}
    Workers = {w1, w2}
    ReplicaOf <- OwnReplica
    RateLimit = 0
    Upsets = {"crash", "lapse", "read", "store", "rollout", "complete", "answer", "cancel", "delete"}
    MaxUpsets = 1
    MaxIssued = 2
    AttemptsCap = 3
    NoOne = none
CHECK_DEADLOCK FALSE
SYMMETRY Symmetric
INVARIANTS TypeOK LockFollowsStatus OneOutstandingPerCertificate OneRenewerPerCertificate
PROPERTIES SucceededIsFinal
