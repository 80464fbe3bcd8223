SPECIFICATION FairSpec
CONSTANTS
    Node = {n1, n2}
    NoNode = NoNode
    Uid = {u1}
    Cfg = {c1}
    Absent = Absent
    AdminOps = {"create", "start", "stop"}
    UpdateTo = {TRUE}
    Overlap = FALSE
    MaxPipe = 0
    MaxEdits = 2
    MaxStall = 0
    MaxLost = 1
    MaxCrash = 1
PROPERTIES EnabledRunsOnSurvivor DisabledStops
