\* Seven units: enough for three holes, with blocks of one to three between them.
CONSTANTS
    MemorySize = 7
    Sizes = {1, 2, 3}
    MaxCuts = 3

SPECIFICATION Spec

INVARIANTS
    TypeOK
    NoUnitTwice
    ListIsExact

\* A program need not allocate again, and the bound on cuts may be reached.
CHECK_DEADLOCK FALSE
