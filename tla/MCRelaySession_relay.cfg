SPECIFICATION FairSpec
CONSTANTS
    Kinds <- BothKinds
    Prompt <- Either
    Aliases <- Either
    MaxConns = 6
    MaxOrders = 2
    MaxFails = 2
    MaxRefusals = 1
INVARIANTS OneConnection EntriesLive StatusTruthful
PROPERTIES PromptRecovers
CHECK_DEADLOCK FALSE
