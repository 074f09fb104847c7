CONSTANTS
    MemorySize = 5
    Sizes = {1, 2}
    MaxCuts = 1

SPECIFICATION Spec

INVARIANT NoUnitLost

CHECK_DEADLOCK FALSE
