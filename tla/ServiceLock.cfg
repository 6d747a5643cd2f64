SPECIFICATION LockSpec
CONSTANTS
    p1 = p1
    p2 = p2
    NoProc = NoProc
    Proc <- TwoProcs
    MaxStarts = 2
    MaxDisruptions = 2
CHECK_DEADLOCK FALSE
INVARIANTS
    LockInv
    ExclusiveUnlessRaced
    CleanExitLeavesNoLock
PROPERTIES
    SomeoneServes
