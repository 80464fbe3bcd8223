SPECIFICATION ServicesSpec
CONSTANTS
    Node = {"n1", "n2"}
    Session = {s1}
    Expire = 5
    Beat = 2
    MaxDelay = 0
    Ahead <- MCAhead
    MaxSkew = 1
    MaxLost = 1
    MaxTime = 10
    None = None
    Server = {n1, n2}
    NoNode = NoNode
    Client = {c1, c2, c3}
    MaxClients = 2
    Data = {"d0", "d1", "d2"}
    Empty = "d0"
    MaxFails = 2
    MaxChanges = 2
    MaxOpened = 3
    Payload = {"x", "y"}
    Digit <- MCDigit
    Limit = 5
    MaxMessages = 3
    MaxBreaks = 1
INVARIANTS LiveNotClosed EndAccurate PublishedIsSent
PROPERTIES FinalKept CleanupComplete MasterServes ChangesArrive AllIsPublished
CHECK_DEADLOCK FALSE
