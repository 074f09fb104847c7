\* A program creates inodes after it has loaded a disk from which one was deleted.
CONSTANTS
    p1 = p1  p2 = p2  p3 = p3
    root_name = root_name  a = a  b = b
    NULL = NULL
    NUM_BLOCKS = 1
    Ptr <- MCPtr
    Names <- MCNames
    RootName = root_name
    Sizes = {4096}
    MaxInodeIds = 3
    ReallocFaults = FALSE
    CallersFind = TRUE
    FormatFaults = FALSE

SPECIFICATION DiskSpec

INVARIANT NoIdReuse
