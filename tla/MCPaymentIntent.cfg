SPECIFICATION FairSpec
CONSTANTS
    Workers = {w1, w2}
    LeaseTicks = 2
    MaxFence = 4
CHECK_DEADLOCK FALSE
INVARIANTS
    ShownIsDurable
    GivenUpIsNotPayable
PROPERTIES
    SupersededWritesNothing
    CreatedMovesOn
