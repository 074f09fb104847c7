CONSTANTS
    p1 = p1  p2 = p2  p3 = p3  p4 = p4 p5 = p5
    root_name = root_name  a = a  b = b
    NULL = NULL
    NUM_BLOCKS = 3
    Ptr <- MCPtr
    Names <- MCNames
    RootName = root_name
    Sizes <- MCSizes
    MaxInodeIds = 5
    ReallocFaults = TRUE
    CallersFind = TRUE

SPECIFICATION Spec

SYMMETRY Symmetry

INVARIANTS
    TypeOK
    BatMatchesTree
    UniqueNames
    InodesFormTree
    IdsUnique
    FilesAreComplete

PROPERTIES
    DeletesGivenNode
    ImplementsFileSystem

\* A program need not make another call, and the ids of the model run out.
CHECK_DEADLOCK FALSE
