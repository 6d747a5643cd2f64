SPECIFICATION BatchSpec
CONSTANTS
    Items = 3
    Prices = {1, 2}
    Caps = {1, 2}
    TotalBudget = 4
    InitialBalance = 5
    MaxFaults = 1
CHECK_DEADLOCK FALSE
INVARIANTS
    BatchInv
    ReportsWhatItPaid
    OwnHoldsInBudget
