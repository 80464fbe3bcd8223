SPECIFICATION Spec
CONSTANTS
    Node = {n1, n2}
    NoNode = NoNode
    UpdateIntv = 6
    MasterTTL = 19
    MaxLag = 1
    MaxInFlight = 4
    MaxLost = 1
    MaxCrash = 1
INVARIANTS MasterHoldsLock MasterNamesItself FailoverBound
PROPERTIES ClusterMasterSpec
