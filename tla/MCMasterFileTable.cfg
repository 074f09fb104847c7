CONSTANTS
    p1 = p1  p2 = p2  p3 = p3
    root_name = root_name  a = a  b = b
    NULL = NULL
    NUM_BLOCKS = 2
    Ptr <- MCPtr
    Names <- MCNames
    RootName = root_name
    Sizes <- MCSizes
    MaxInodeIds = 3
    ReallocFaults = TRUE
    CallersFind = TRUE
    FormatFaults = TRUE

SPECIFICATION DiskSpec

SYMMETRY Symmetry

INVARIANTS
    BatMatchesTree
    DiskAgrees
    CleanRunsKeepDisk
    LoadRestoresTree
