SPECIFICATION Spec
CONSTANTS
    Callers = {c1, c2}
    Keys = {k1, k2}
    NoKey = NoKey
    MaxFlights = 2
    MaxPlans = 2
    MaxCrashes = 1
INVARIANTS
    OneCreator
    SpansNoSwitch
SYMMETRY Symmetry
CHECK_DEADLOCK FALSE
