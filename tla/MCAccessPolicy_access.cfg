SPECIFICATION FairSpec
CONSTANTS
    Ctx = {1, 2}
    PingLimit = 0
    MaxBreaks = 2
    MaxLateBreaks = 0
    Group = {"default", "SYSTEM", "g"}
    Edited = {"default", "g"}
    Mount = {m1}
    Policy <- MCPolicy
    ItemContent <- MCItem
    OpenPolicy <- Open
    Aliases = {a1, a2}
    None = None
    MaxPipe = 2
    MaxEdits = 1
    MaxLateEdits = 0
INVARIANTS DenialsReturn SettledIsExact
PROPERTIES PolicyArrives AnsweringIsKept
CHECK_DEADLOCK FALSE
