SPECIFICATION Spec
CONSTANTS
    MaxCalls = 2
    MaxLine = 2
    Repeats = 2
INVARIANTS
    SuccessIsOwn
    FailureHasCause
CHECK_DEADLOCK FALSE
