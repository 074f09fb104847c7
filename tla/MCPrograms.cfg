\* With a quarter of their sizes the files of create_fs_2 fill the disk.  Of the
\* two names of Leftover del_fs looks for one.
CONSTANTS
    NULL = NULL
    NUM_BLOCKS = 17
    Scale = 4
    Leftover = {"kernel", "ls"}
    Ptr = {1, 2, 3, 4, 5, 6, 7, 8, 9, 10, 11, 12, 13, 14}
    Names = {"/", "kernel", "etc", "hosts", "usr", "bin", "local", "ls", "ps", "nvcc",
             "gcc", "share", "man", "var", "log", "message", "warn", "fail", "read.2",
             "write.2", "root", "home", "guest", "user", "Download", "print", "bashrc",
             "profile", "oblig2"}
    RootName = "/"
    Sizes = {25, 50, 75, 100, 3155, 3450, 3580, 5000, 7000, 12500, 40758}
    MaxInodeIds = 14
    ReallocFaults = FALSE
    CallersFind = TRUE
    FormatFaults = FALSE

SPECIFICATION ProgramsSpec

INVARIANTS
    NoUseAfterFree
    RerunRepairs
    DeletesExactly

PROPERTIES
    LostStaysLost
    ProgramEnds
