SPECIFICATION FairSpec
CONSTANTS
    Slots = {s1}
    Capacity = 1
    Sales = {o1}
    Calls = {c1, c2}
    MaxTasks = 2
    MaxUpsets = 1
INVARIANTS
    AppliedOnce
    AcceptedIsApplied
    BlockedIsNotSold
    LedgerSums
PROPERTIES
    UploadsEnd
CHECK_DEADLOCK FALSE
