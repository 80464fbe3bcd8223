SPECIFICATION FairSpec
CONSTANTS
    c1 = c1
    c2 = c2
    c3 = c3
    n1 = n1
    n2 = n2
    Conn = {c1, c2}
    Node = {n1}
    At <- OneNode
    Kind <- Servers
    Limit = 9
    Protected = {"server"}
    EnableMult = {"server"}
    KeepEarly = {}
    SameSecond = FALSE
    Leaving = {c1, c2}
    MaxKicks = 0
    MaxLost = 0
    MaxStall = 0
    MaxCrash = 1
PROPERTIES ClosedIsFreed
CHECK_DEADLOCK FALSE
