SPECIFICATION Spec
CONSTANTS
    c1 = c1
    c2 = c2
    c3 = c3
    n1 = n1
    n2 = n2
    Conn = {c1, c2, c3}
    Node = {n1, n2}
    At <- TwoNodes
    Kind <- Clients
    Limit = 1
    Protected = {"client"}
    EnableMult = {"client"}
    KeepEarly = {}
    SameSecond = FALSE
    Leaving = {}
    MaxKicks = 0
    MaxLost = 0
    MaxStall = 0
    MaxCrash = 1
INVARIANTS WithinLimit
CHECK_DEADLOCK FALSE
