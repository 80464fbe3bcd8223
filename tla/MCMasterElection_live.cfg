SPECIFICATION FairSpec
CONSTANTS
    Node = {n1, n2}
    NoNode = NoNode
    UpdateIntv = 1
    MasterTTL = 4
    MaxLag = 1
    MaxInFlight = 2
    MaxLost = 0
    MaxCrash = 2
PROPERTIES EventuallyMaster StaleMasterStepsDown
