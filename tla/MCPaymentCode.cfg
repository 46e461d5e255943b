SPECIFICATION PCFairSpec
CONSTANTS
    MaxScans = 2
    Claimants = {w1, w2}
    Nobody = Nobody
    Gone = Gone
    MaxAttempts = 4
    NotFound = "unknown"
    MaxUpsets = 1
INVARIANTS
    ChargedOnce
    CapturedIsKept
    ClosedIsNotCharged
PROPERTIES
    StaleWritesNothing
    KeepsPaymentContract
    SubmittedEnds
CHECK_DEADLOCK FALSE
