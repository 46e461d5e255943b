SPECIFICATION Spec
CONSTANTS
    Lines = {l1}
    Refunds = {r1, r2}
    NoRefund = NoRefund
    PartialRefunds = TRUE
    HookKinds = {"processing", "succeeded", "failed"}
    MaxAttempts = 1
    MaxJobs = 1
    Operators = TRUE
SYMMETRY Symmetry
INVARIANTS
    MoneyIsBacked
    OneRefundPerReason
CHECK_DEADLOCK FALSE
