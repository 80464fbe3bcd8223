SPECIFICATION FairSpec
CONSTANTS
    b1 = b1
    b2 = b2
    alias = alias
    here = here
    there = there
    Base = {b1, b2}
    Sources <- Rules
    Client = {c1}
    Near = {r1}
    NearMount = NearMount
    Closest <- Distances
    None = None
    MaxPipe = 2
    MaxChanges = 1
    MaxDrops = 1
INVARIANTS SubscribersRun OneBase ListensToMap
PROPERTIES DataArrive ToldOfEnd NearestFound
CHECK_DEADLOCK FALSE
