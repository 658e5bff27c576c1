SPECIFICATION LiveSpec
CONSTANTS
    p1 = p1
    p2 = p2
    p3 = p3
    j1 = j1
    j2 = j2
    j3 = j3
    j4 = j4
    w1 = w1
    w2 = w2
    e1 = e1
    e2 = e2
    none = none
    Places = {p1, p2}
    Listing <- ListedTwo
    Wave <- TwoWaves
    OptedOut = {}
    Jobs = {j1, j2, j3, j4}
    Workers = {w1, w2}
    Planners = {e1}
    Escalates = {FALSE}
    MaxRenewals = 2
    MaxManual = 0
    Upsets = {"fail"}
    MaxUpsets = 1
    NoOne = none
PROPERTY EveryDeploymentSettles
\* renewals, job rows and upsets are finite: the queue may end up empty
CHECK_DEADLOCK FALSE
