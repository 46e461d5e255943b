SPECIFICATION FairSpec
CONSTANTS
    Orders = {o1}
    Stock = 1
    MaxTasks = 2
INVARIANTS
    StockAccounting
    PaidHasCommand
PROPERTIES
    SettledOnce
    KeepsPaymentContract
    OverdueSettles
