SPECIFICATION FairSpec
CONSTANTS
    Lines = {l1, l2}
    Refunds = {r1}
    NoRefund = NoRefund
    PartialRefunds = TRUE
    HookKinds = {"processing", "succeeded", "failed"}
    MaxAttempts = 1
    MaxJobs = 2
    Operators = TRUE
INVARIANTS
    RowIsBacked
PROPERTY OpenSettles
CHECK_DEADLOCK FALSE
