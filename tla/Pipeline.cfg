SPECIFICATION PipelineSpec
CONSTANTS
    t1 = t1
    t2 = t2
    t3 = t3
    Task <- ThreeTasks
    Unknown = Unknown
    Templates <- ChainAndFork
    Offer <- Offers
    Fee = 1
    MaxBudget = 5
    Available = 6
CHECK_DEADLOCK FALSE
INVARIANTS
    PipelineInv
    ValidatorIsExact
    OverrunByDearerAgents
