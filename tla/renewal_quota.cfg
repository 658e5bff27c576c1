SPECIFICATION Spec
CONSTANTS
    c1 = c1  c2 = c2  j1 = j1  j2 = j2  j3 = j3  r1 = r1  r2 = r2  w1 = w1  w2 = w2
    none = none
    Certs = {c1, c2}
    Custody <- AllOurs
    Jobs = {j1, j2, j3}
    Replicas = {r1}
    Workers = {w1, w2}
    ReplicaOf <- SharedReplica
    RateLimit = 1
    Upsets = {"read"}
    MaxUpsets = 1
    MaxIssued = 3
    AttemptsCap = 3
    NoOne = none
CHECK_DEADLOCK FALSE
SYMMETRY Interchangeable
INVARIANTS BoundedOvershoot NothingLeftBehind
