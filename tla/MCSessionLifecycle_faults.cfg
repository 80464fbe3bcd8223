SPECIFICATION Spec
CONSTANTS
    c1 = c1
    c2 = c2
    c3 = c3
    n1 = n1
    n2 = n2
    Conn = {c1, c2}
    Node = {n1}
    At <- OneNode
    Kind <- Clients
    Limit = 1
    Protected = {}
    EnableMult = {"client"}
    KeepEarly = {}
    SameSecond = TRUE
    Leaving = {c1}
    MaxKicks = 2
    MaxLost = 1
    MaxStall = 1
    MaxCrash = 1
INVARIANTS SocketOwned LoginsAreOnline RegisteredAreOnline CallbackObjectsLive
CHECK_DEADLOCK FALSE
