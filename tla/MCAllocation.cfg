\* A disk of four blocks on which every call of the file system may fail.
CONSTANTS
    NUM_BLOCKS = 4
    WriteFaults = {"open_fails", "short_write", "unlink_fails"}
    ReadFaults = TRUE
    MaxHolders = 3

SPECIFICATION Spec

INVARIANTS
    TypeOK
    SingleHolder
    TableTellsHolders
