SPECIFICATION Spec
CONSTANTS
    Lines = {l1}
    Refunds = {r1, r2}
    NoRefund = NoRefund
    PartialRefunds = TRUE
    Stock = 1
    MaxConfirming = 1
    OperatorActs = {"confirm_dispensed", "confirm_not_dispensed", "request_refund",
                    "compensation_dispense", "resolve", "refund"}
SYMMETRY Symmetry
INVARIANTS
    StockFollowsCommands
    OneLiveCommand
    LineIsCoherent
PROPERTY EndsAreFinal
CHECK_DEADLOCK FALSE
