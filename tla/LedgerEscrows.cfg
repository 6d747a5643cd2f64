SPECIFICATION Spec
CONSTANTS
    a1 = a1
    a2 = a2
    l1 = l1
    e1 = e1
    e2 = e2
    e3 = e3
    n1 = n1
    AgentId <- TwoAgents
    LegacyName <- NoNames
    EscrowId <- ThreeEscrows
    Nonce <- OneNonce
    Treasury = Treasury
    None = None
    HoldAmount = {20}
    EarnAmount = {20}
    Grant = 22
    VoucherGrant = 22
    FullBonusSlots = 1
    HalfBonusSlots = 2
    MaxVouchers = 1
    MaxMinted = 44
SYMMETRY Interchangeable
INVARIANTS
    NoOverdraft
    ProviderNumbersUnique
    HiresAreSettlements
PROPERTIES
    LifecycleMovesForward
