SPECIFICATION Spec
CONSTANTS
    a1 = a1
    a2 = a2
    l1 = l1
    e1 = e1
    e2 = e2
    e3 = e3
    n1 = n1
    AgentId <- TwoAgents
    LegacyName <- OneName
    EscrowId <- OneEscrow
    Nonce <- OneNonce
    Treasury = Treasury
    None = None
    HoldAmount = {3, 20}
    EarnAmount = {5}
    Grant = 21
    VoucherGrant = 21
    FullBonusSlots = 1
    HalfBonusSlots = 2
    MaxVouchers = 2
    MaxMinted = 42
INVARIANTS
    BalanceMatchesJournal
    CreditsConserved
PROPERTIES
    KeepsPromise
