SPECIFICATION FairSessionSpec
CONSTANTS
    renter = renter
    host = host
    s1 = s1
    s2 = s2
    None = None
    Owner <- Owners
    AgentId = {}
    Session <- TwoSessions
    Budget = {3}
    MessageRate = 2
    FlatRate = 2
    MaxMessages = 3
    MaxSessions = 1
    MaxRestarts = 1
CHECK_DEADLOCK FALSE
INVARIANTS
    MeterMatchesEscrow
    PaidWhenCharged
    RunningIsTracked
    LimitHolds
PROPERTIES
    SessionKeepsPromise
    EverySessionEnds
