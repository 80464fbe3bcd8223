SPECIFICATION FairSpec
CONSTANTS
    Node = {n1}
    NoNode = NoNode
    Uid = {u1}
    Cfg = {c1, c2}
    Absent = Absent
    AdminOps = {"create", "update", "delete", "start", "stop"}
    UpdateTo = {TRUE, FALSE}
    Overlap = FALSE
    MaxPipe = 0
    MaxEdits = 3
    MaxStall = 0
    MaxLost = 1
    MaxCrash = 1
INVARIANTS RunsWhatWasDistributed
PROPERTIES EnabledRunsOnSurvivor
