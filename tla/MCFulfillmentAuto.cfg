SPECIFICATION FairSpec
CONSTANTS
    Lines = {l1, l2}
    Refunds = {r1, r2}
    NoRefund = NoRefund
    PartialRefunds = TRUE
    Stock = 1
    MaxConfirming = 2
    OperatorActs = {}
INVARIANTS
    OutcomeIsMachines
    UnitOrMoney
    FailedIsRefunded
PROPERTY CommandEnds
CHECK_DEADLOCK FALSE
