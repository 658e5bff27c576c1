SPECIFICATION Spec
CONSTANTS
    n1 = n1
    o1 = o1
    o2 = o2
    a1 = a1
    Renewers = {n1}
    Consoles = {o1}
    Clients = {}
    MaxIssued = 3
    MaxAbandons = 0
INVARIANT RevokedMeansDeadAtCA
\* the CA signs MaxIssued certificates and everything may then be finished
CHECK_DEADLOCK FALSE
