SPECIFICATION FairRelaySpec
CONSTANTS
    provider = provider
    requester = requester
    k1 = k1
    s1 = s1
    s2 = s2
    r1 = r1
    r2 = r2
    None = None
    Owner <- Owners
    Ephemeral = {requester}
    AgentKey <- OneKey
    Socket <- TwoSockets
    Request <- OneRequest
    RateMax = 1
    MaxRestarts = 1
CHECK_DEADLOCK FALSE
INVARIANTS
    RoutesLead
PROPERTIES
    EveryRequestEnds
    EveryHoldEnds
