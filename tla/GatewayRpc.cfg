SPECIFICATION GatewaySpec
CONSTANTS
    h1 = h1
    h2 = h2
    Handler <- TwoHandlers
    Price = 2
    InitialBalance = 4
    MaxConcurrent = 1
    DailyLimit = 1
    MaxFaults = 1
    MaxCrashes = 1
CHECK_DEADLOCK FALSE
INVARIANTS
    GatewayInv
    HoldEndsWithHandler
    PaidMeansAnswered
