SPECIFICATION AutonomySpec
CONSTANTS
    c1 = c1
    c2 = c2
    Call <- TwoCalls
    Cost <- Prices
    MaxCost <- Limits
    SessionBudget = 3
    SingleRequestMax = 3
    BlockSecond = FALSE
    Tier1 = 2
    Tier2 = 3
    Reserve = 1
    InitialBalance = 4
    OwnRelay = TRUE
    MaxFaults = 1
CHECK_DEADLOCK FALSE
INVARIANTS
    
    SpendIsReal
    OverrunNeedsARace
