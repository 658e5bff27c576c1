SPECIFICATION Spec
CONSTANTS
    n1 = n1
    o1 = o1
    o2 = o2
    a1 = a1
    Renewers = {n1}
    Consoles = {o1, o2}
    Clients = {a1}
    MaxIssued = 4
    MaxAbandons = 1
SYMMETRY Interchangeable
INVARIANTS TypeOK KeyMatchesCertificate RecordedOnce AnsweredMeansRevoked
PROPERTY RevokedIsHistory
\* the CA signs MaxIssued certificates and everything may then be finished
CHECK_DEADLOCK FALSE
