SPECIFICATION Spec
CONSTANTS
    Lines = {l1, l2}
    Refunds = {r1, r2}
    NoRefund = NoRefund
    PartialRefunds = TRUE
    Stock = 1
    MaxConfirming = 0
    OperatorActs = {"confirm_not_dispensed", "compensation_dispense"}
SYMMETRY Symmetry
INVARIANT RefundOrCompensation
CHECK_DEADLOCK FALSE
