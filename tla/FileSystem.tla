------------------------------ MODULE FileSystem ------------------------------
(*****************************************************************************)
(* What inode.h promises of the tree of inodes, without the block allocation *)
(* table and without the steps of a call: creating a file takes exactly the  *)
(* blocks its bytes need from the unused ones, and deleting it returns them, *)
(* all at once; a call that cannot do this leaves everything as it was.      *)
(* Inode is shown to implement it.                                           *)
(*****************************************************************************)
EXTENDS Integers, FiniteSets

CONSTANTS
    Ptr, NULL,   \* handles of the inodes
    Names, RootName,
    Sizes,       \* file sizes in bytes
    Disk,        \* the blocks of the disk
    BlockSize,   \* bytes in a block
    MayLeak      \* whether running out of memory may cost blocks

VARIABLES
    nodes,       \* the inodes in the tree
    unused       \* the blocks no file has

Init == nodes = [p \in {} |-> NULL] /\ unused = Disk

Siblings(dir) == {p \in DOMAIN nodes : nodes[p].dir = dir}

NameIsFree(dir, name) ==
    /\ nodes[dir].name # name
    /\ \A p \in Siblings(dir) : nodes[p].name # name

\* Enough blocks for the bytes, and not one more.
Fits(taken, size) ==
    /\ Cardinality(taken) * BlockSize >= size
    /\ (Cardinality(taken) - 1) * BlockSize < size

Enter(dir, name, is_directory, size, taken) ==
    \E new \in Ptr \ DOMAIN nodes :
       nodes' = [p \in DOMAIN nodes \cup {new} |->
                    IF p = new THEN [dir |-> dir, name |-> name, is_directory |-> is_directory,
                                     size |-> size, blocks |-> taken]
                    ELSE nodes[p]]

CreateRoot ==
    /\ DOMAIN nodes = {}
    /\ Enter(NULL, RootName, TRUE, 0, {})
    /\ UNCHANGED unused

CreateDir(dir, name) ==
    /\ nodes[dir].is_directory
    /\ NameIsFree(dir, name)
    /\ Enter(dir, name, TRUE, 0, {})
    /\ UNCHANGED unused

CreateFile(dir, name, size) ==
    /\ nodes[dir].is_directory
    /\ NameIsFree(dir, name)
    /\ \E taken \in SUBSET unused :
          /\ Fits(taken, size)
          /\ Enter(dir, name, FALSE, size, taken)
          /\ unused' = unused \ taken

Delete(n) ==
    /\ nodes[n].dir # NULL
    /\ Siblings(n) = {}
    /\ nodes' = [p \in DOMAIN nodes \ {n} |-> nodes[p]]
    /\ unused' = unused \cup nodes[n].blocks

Leak ==
    /\ MayLeak
    /\ unused' \in SUBSET unused
    /\ UNCHANGED nodes

Next ==
    \/ CreateRoot
    \/ \E dir \in DOMAIN nodes, name \in Names :
          CreateDir(dir, name) \/ \E size \in Sizes : CreateFile(dir, name, size)
    \/ \E n \in DOMAIN nodes : Delete(n)
    \/ Leak

Spec == Init /\ [][Next]_<<nodes, unused>>

===============================================================================
