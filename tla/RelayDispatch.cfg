SPECIFICATION DispatchSpec
CONSTANTS
    MaxClients = 2
    MaxSockets = 2
    MaxRequests = 2
    MaxProgress = 1
    MaxAttempts = 2
CHECK_DEADLOCK FALSE
INVARIANTS
    DispatchInv
    NeverStranded
    PaidOnce
PROPERTIES
    RequestsEnd
