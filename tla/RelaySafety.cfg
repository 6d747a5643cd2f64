SPECIFICATION RelaySpec
CONSTANTS
    provider = provider
    requester = requester
    k1 = k1
    s1 = s1
    s2 = s2
    r1 = r1
    r2 = r2
    None = None
    Owner <- Owners
    Ephemeral = {}
    AgentKey <- NoKeys
    Socket <- TwoSockets
    Request <- TwoRequests
    RateMax = 1
    MaxRestarts = 1
SYMMETRY Interchangeable
CHECK_DEADLOCK FALSE
INVARIANTS
    RelayInv
    PaidForResults
    AnsweredAtMostOnce
PROPERTIES
    RelayKeepsPromise
