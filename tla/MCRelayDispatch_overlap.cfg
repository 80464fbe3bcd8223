SPECIFICATION Spec
CONSTANTS
    Node = {n1, n2}
    NoNode = NoNode
    Uid = {u1}
    Cfg = {c1}
    Absent = Absent
    AdminOps = {"create", "update", "delete"}
    UpdateTo = {TRUE}
    Overlap = TRUE
    MaxPipe = 4
    MaxEdits = 2
    MaxStall = 1
    MaxLost = 1
    MaxCrash = 1
INVARIANTS SingleRun NoDoubleCreate
SYMMETRY Symm
