-------------------------------- MODULE Inode ---------------------------------
(*****************************************************************************)
(* inode.c: the tree of inodes a program builds in memory, and the blocks of *)
(* the simulated disk its files reserve.  The tree is private to the         *)
(* process; every allocate_block and every free_block changes the block      *)
(* allocation table on disk at once.  So create_file and delete_file are     *)
(* several steps here, one for each block, with the call's local variables   *)
(* in between; create_dir changes memory only and is one step.               *)
(*                                                                           *)
(* Simplifications: a file of the table that can be read does not fail       *)
(* (Allocation models that); malloc and strdup succeed, and a realloc that   *)
(* shrinks; the realloc that makes room for a child may fail; a parent is a  *)
(* directory, as inode.h demands; a call that returns NULL or -1 at once     *)
(* changes nothing and is no step.                                           *)
(*                                                                           *)
(* A definition named Mutant... is a plausible bug: what the definition that *)
(* follows it would be if the code were wrong.                               *)
(*****************************************************************************)
EXTENDS BlockTable, Sequences

CONSTANTS
    Ptr,           \* addresses malloc returns for an inode
    NULL,
    Names,         \* names of files and directories
    RootName,      \* "/"
    Sizes,         \* file sizes in bytes
    MaxInodeIds,   \* bound on num_inode_ids
    ReallocFaults, \* whether realloc in add_inode_to_parent may fail
    CallersFind    \* whether the node a caller deletes is one it has found by
                   \* name in the parent, as del_fs.c does

ASSUME InodeAssumption ==
    /\ NULL \notin Ptr
    /\ RootName \in Names
    /\ Sizes \subseteq Nat
    /\ MaxInodeIds \in Nat \ {0}
    /\ ReallocFaults \in BOOLEAN
    /\ CallersFind \in BOOLEAN

VARIABLES
    bat,            \* the block allocation table on disk
    inode,          \* the inodes on the heap, a function on the pointers in use
    root,           \* the program's root inode
    num_inode_ids,  \* "the lowest unused node ID"
    pc,             \* the loop the running call is in, "idle" between calls
    parent, node,   \* arguments of that call
    child,          \* the inode it creates or has picked to delete
    freed,          \* how many of the child's blocks it has freed
    suspect         \* history: blocks on which table and inodes may differ

vars == <<bat, inode, root, num_inode_ids, pc, parent, node, child, freed, suspect>>

-------------------------------------------------------------------------------
(* The data *)

BLOCKSIZE == 4096

\* The rounding is lost: the last, partial block is not counted.
MutantBlocksNeeded(bytes) == bytes \div BLOCKSIZE

BlocksNeeded(bytes) ==
    bytes \div BLOCKSIZE + (IF bytes % BLOCKSIZE # 0 THEN 1 ELSE 0)

InodeRecord ==
    [id : Nat, name : Names, is_directory : BOOLEAN, children : Seq(Ptr),
     filesize : Sizes \cup {0}, blocks : Seq(Blocks)]

NewDirectory(id, name) ==
    [id |-> id, name |-> name, is_directory |-> TRUE, children |-> <<>>,
     filesize |-> 0, blocks |-> <<>>]

NewFile(id, name, size) ==
    [id |-> id, name |-> name, is_directory |-> FALSE, children |-> <<>>,
     filesize |-> size, blocks |-> <<>>]

With(p, record) == [q \in DOMAIN inode \cup {p} |->
                        IF q = p THEN record ELSE inode[q]]

Without(p) == [q \in DOMAIN inode \ {p} |-> inode[q]]

Directories == {p \in DOMAIN inode : inode[p].is_directory}

ChildrenOf(p) == {inode[p].children[i] : i \in DOMAIN inode[p].children}

\* The inodes the caller can reach: an inode being created is not among them.
Linked == {q \in DOMAIN inode : q = root \/ \E p \in DOMAIN inode : q \in ChildrenOf(p)}

\* q is the first child of p with the name.
FirstNamed(p, name, q) ==
    \E i \in DOMAIN inode[p].children :
       /\ q = inode[p].children[i]
       /\ inode[q].name = name
       /\ \A j \in 1 .. i - 1 : inode[inode[p].children[j]].name # name

\* The children are not looked at.
MutantFindInodeByName(p, name, found) ==
    found = IF inode[p].name = name THEN p ELSE NULL

\* The call returns found.  When the parent itself has the name that is looked
\* for, it is the parent that is returned.
FindInodeByName(p, name, found) ==
    \/ inode[p].name = name /\ found = p
    \/ inode[p].name # name /\ inode[p].is_directory /\ FirstNamed(p, name, found)
    \/ /\ inode[p].name # name
       /\ inode[p].is_directory => \A q \in ChildrenOf(p) : inode[q].name # name
       /\ found = NULL

Init ==
    /\ bat = FormattedTable
    /\ inode = [p \in {} |-> NULL]
    /\ root = NULL
    /\ num_inode_ids = 0
    /\ pc = "idle"
    /\ parent = NULL /\ node = NULL /\ child = NULL
    /\ freed = 0
    /\ suspect = {}

-------------------------------------------------------------------------------
(* create_dir *)

\* The first inode, created with parent NULL.
CreateRoot ==
    /\ pc = "idle" /\ root = NULL
    /\ num_inode_ids < MaxInodeIds
    /\ \E new \in Ptr \ DOMAIN inode :
          /\ inode' = With(new, NewDirectory(num_inode_ids, RootName))
          /\ root' = new
    /\ num_inode_ids' = num_inode_ids + 1
    /\ UNCHANGED <<bat, pc, parent, node, child, freed, suspect>>

AddInodeToParent(p, new, record) ==
    inode' = [With(new, record) EXCEPT ![p].children = Append(@, new)]

\* If realloc fails the inode is released and its id returned: no change.
CreateDir(p, name) ==
    /\ pc = "idle"
    /\ FindInodeByName(p, name, NULL)
    /\ num_inode_ids < MaxInodeIds
    /\ \E new \in Ptr \ DOMAIN inode :
          AddInodeToParent(p, new, NewDirectory(num_inode_ids, name))
    /\ num_inode_ids' = num_inode_ids + 1
    /\ UNCHANGED <<bat, root, pc, parent, node, child, freed, suspect>>

-------------------------------------------------------------------------------
(* create_file *)

Return ==
    /\ pc' = "idle"
    /\ parent' = NULL /\ node' = NULL /\ child' = NULL
    /\ freed' = 0

\* The call up to the loop over the blocks.
CreateFile(p, name, size) ==
    /\ pc = "idle"
    /\ FindInodeByName(p, name, NULL)
    /\ num_inode_ids < MaxInodeIds
    /\ \E new \in Ptr \ DOMAIN inode :
          /\ inode' = With(new, NewFile(num_inode_ids, name, size))
          /\ child' = new
    /\ num_inode_ids' = num_inode_ids + 1
    /\ pc' = "allocating"
    /\ parent' = p
    /\ UNCHANGED <<bat, root, node, freed, suspect>>

\* The loop that frees stops one block early.
MutantBlocksToFree == freed + 1 < Len(inode[child].blocks)

BlocksToFree == freed < Len(inode[child].blocks)

\* The loop over the blocks starts at 1.
MutantBlocksMissing == Len(inode[child].blocks) + 1 < BlocksNeeded(inode[child].filesize)

BlocksMissing == Len(inode[child].blocks) < BlocksNeeded(inode[child].filesize)

AllocateBlock ==
    /\ pc = "allocating" /\ BlocksMissing
    /\ \E b \in Blocks :
          /\ IsFirstUnused(bat, b)
          /\ bat' = Marked(bat, b)
          /\ inode' = [inode EXCEPT ![child].blocks = Append(@, b)]
    /\ UNCHANGED <<root, num_inode_ids, pc, parent, node, child, freed, suspect>>

\* allocate_block returned -1: the blocks taken so far are freed.
AllocateFails ==
    /\ pc = "allocating" /\ BlocksMissing
    /\ Full(bat)
    /\ pc' = "rolling_back"
    /\ UNCHANGED <<bat, inode, root, num_inode_ids, parent, node, child, freed, suspect>>

\* The id is given back here and, again, where the inode is released.
MutantRollBackDone ==
    /\ pc = "rolling_back"
    /\ ~BlocksToFree
    /\ inode' = Without(child)
    /\ num_inode_ids' = num_inode_ids - 2
    /\ Return
    /\ UNCHANGED <<bat, root, suspect>>

RollBackDone ==
    /\ pc = "rolling_back"
    /\ ~BlocksToFree
    /\ inode' = Without(child)
    /\ num_inode_ids' = num_inode_ids - 1
    /\ Return
    /\ UNCHANGED <<bat, root, suspect>>

LinkFile ==
    /\ pc = "allocating" /\ ~BlocksMissing
    /\ AddInodeToParent(parent, child, inode[child])
    /\ Return
    /\ UNCHANGED <<bat, root, num_inode_ids, suspect>>

BlocksOf(p) == {inode[p].blocks[i] : i \in DOMAIN inode[p].blocks}

\* realloc failed: the inode is released, its blocks stay marked on disk.
LinkFails ==
    /\ ReallocFaults
    /\ pc = "allocating" /\ ~BlocksMissing
    /\ inode' = Without(child)
    /\ num_inode_ids' = num_inode_ids - 1
    /\ suspect' = suspect \cup BlocksOf(child)
    /\ Return
    /\ UNCHANGED <<bat, root>>

-------------------------------------------------------------------------------
(* delete_file and delete_dir *)

\* The test of the name is left out: the first child goes.
MutantPickToDelete(p, n) ==
    /\ inode[n].children = <<>>
    /\ inode[p].children # <<>> /\ child' = inode[p].children[1]
    /\ pc' = "freeing"
    /\ parent' = p
    /\ node' = n
    /\ UNCHANGED <<bat, inode, root, num_inode_ids, freed, suspect>>

\* The loop takes the first child with the name of the inode it was given.
PickToDelete(p, n) ==
    /\ inode[n].children = <<>>
    /\ \E q \in ChildrenOf(p) : FirstNamed(p, inode[n].name, q) /\ child' = q
    /\ pc' = "freeing"
    /\ parent' = p
    /\ node' = n
    /\ UNCHANGED <<bat, inode, root, num_inode_ids, freed, suspect>>

DeleteFile(p, n) == pc = "idle" /\ ~inode[n].is_directory /\ PickToDelete(p, n)

\* delete_dir without the test for children.
MutantDeleteDir(p, n) ==
    /\ pc = "idle" /\ inode[n].is_directory
    /\ n \in ChildrenOf(p)
    /\ pc' = "freeing" /\ parent' = p /\ node' = n /\ child' = n
    /\ UNCHANGED <<bat, inode, root, num_inode_ids, freed, suspect>>

\* A directory has no blocks: what is left to do is to unlink it.
DeleteDir(p, n) == pc = "idle" /\ inode[n].is_directory /\ PickToDelete(p, n)

\* The loop does not advance.
MutantFreeBlock ==
    /\ pc \in {"rolling_back", "freeing"}
    /\ BlocksToFree
    /\ bat' = Cleared(bat, inode[child].blocks[freed + 1])
    /\ UNCHANGED <<inode, root, num_inode_ids, pc, parent, node, child, freed, suspect>>

\* One free_block, of create_file's roll back or of delete_file.  Its result
\* is not looked at: on a block that is not marked it changes nothing.
FreeBlock ==
    /\ pc \in {"rolling_back", "freeing"}
    /\ BlocksToFree
    /\ bat' = Cleared(bat, inode[child].blocks[freed + 1])
    /\ freed' = freed + 1
    /\ UNCHANGED <<inode, root, num_inode_ids, pc, parent, node, child, suspect>>

\* The pointers behind the deleted child move up by one.
Unlinked(children, i) ==
    [j \in 1 .. Len(children) - 1 |-> IF j < i THEN children[j] ELSE children[j + 1]]

Unlink ==
    /\ pc = "freeing" /\ ~BlocksToFree
    /\ \E i \in DOMAIN inode[parent].children :
          /\ inode[parent].children[i] = child
          /\ inode' = [Without(child) EXCEPT ![parent].children = Unlinked(@, i)]
    /\ Return
    /\ UNCHANGED <<bat, root, num_inode_ids, suspect>>

-------------------------------------------------------------------------------
\* The inode a caller passes to delete: what it found by some name in the
\* parent, or any inode of the tree.
Deletable(p) ==
    {q \in Linked : CallersFind => \E name \in Names : FindInodeByName(p, name, q)}

Internal == AllocateBlock \/ AllocateFails \/ FreeBlock \/ RollBackDone
            \/ LinkFile \/ LinkFails \/ Unlink

Create ==
    \/ CreateRoot
    \/ \E p \in Directories, name \in Names : CreateDir(p, name)
    \/ \E p \in Directories, name \in Names, size \in Sizes : CreateFile(p, name, size)

Delete ==
    \E p \in Directories : \E n \in Deletable(p) : DeleteFile(p, n) \/ DeleteDir(p, n)

Next == Create \/ Delete \/ Internal

Spec == Init /\ [][Next]_vars

-------------------------------------------------------------------------------
(* Properties *)

\* The type invariant: no pointer dangles, and the variables of a call are
\* those of the loop it is in.  (The table is lost only in MasterFileTable.)
TypeOK ==
    /\ bat \in Table \cup {EmptyFile}
    /\ DOMAIN inode \subseteq Ptr
    /\ inode \in [DOMAIN inode -> InodeRecord]
    /\ root \in DOMAIN inode \cup {NULL}
    /\ num_inode_ids \in 0 .. MaxInodeIds
    /\ pc \in {"idle", "allocating", "rolling_back", "freeing"}
    /\ IF pc = "idle" THEN parent = NULL /\ child = NULL
       ELSE parent \in Directories /\ child \in DOMAIN inode /\ child # parent
    /\ IF pc = "freeing" THEN node \in DOMAIN inode ELSE node = NULL
    /\ freed \in Nat
    /\ pc \in {"idle", "allocating"} => freed = 0
    /\ suspect \subseteq Blocks

\* The entries of p's array of blocks that have not been freed.
Unfreed(p) ==
    {i \in DOMAIN inode[p].blocks :
        p = child /\ pc \in {"rolling_back", "freeing"} => i > freed}

\* p's file has block b, as entry i of its array.
Holds(p, i, b) == i \in Unfreed(p) /\ inode[p].blocks[i] = b

HeldBlocksAreMarked ==
    \A p \in DOMAIN inode : \A i \in Unfreed(p) :
        inode[p].blocks[i] \in suspect \/ bat[inode[p].blocks[i]] = 1

NoBlockHeldTwice ==
    \A p, q \in DOMAIN inode : \A i \in Unfreed(p), j \in Unfreed(q) :
        inode[p].blocks[i] = inode[q].blocks[j]
            => inode[p].blocks[i] \in suspect \/ (p = q /\ i = j)

MarkedBlocksAreHeld ==
    \A b \in Blocks \ suspect :
        bat[b] = 1 => \E p \in DOMAIN inode : \E i \in Unfreed(p) : inode[p].blocks[i] = b

\* The table on disk and the inodes in memory agree at every step of every
\* call, also in the middle of a roll back or a delete: a block is marked if
\* and only if exactly one file has it, once.  Only the blocks of a file
\* whose directory could not be grown are excepted.
BatMatchesTree == HeldBlocksAreMarked /\ NoBlockHeldTwice /\ MarkedBlocksAreHeld

\* find_inode_by_name and delete go by name: no two inodes of a directory
\* have the same one, and none has the name of the directory itself, which
\* would hide it.
UniqueNames ==
    \A p \in DOMAIN inode : \A i \in DOMAIN inode[p].children :
        LET nm(k) == inode[inode[p].children[k]].name IN
        /\ nm(i) # inode[p].name
        /\ \A j \in DOMAIN inode[p].children : nm(i) = nm(j) => i = j

Creating(p) == pc \in {"allocating", "rolling_back"} /\ p = child

\* The inodes form one tree below root, which is what lets save_inodes and
\* fs_shutdown reach each of them once: every inode but the root and the one
\* being created is in exactly one place of one directory, and ids grow on
\* the way down, so there is no cycle.
InodesFormTree ==
    /\ \A p \in DOMAIN inode : ChildrenOf(p) \subseteq DOMAIN inode \ {root}
    /\ \A q \in DOMAIN inode \ {root} :
          \/ Creating(q)
          \/ \E p \in DOMAIN inode : q \in ChildrenOf(p)
    /\ \A p, q \in DOMAIN inode :
          \A i \in DOMAIN inode[p].children, j \in DOMAIN inode[q].children :
             inode[p].children[i] = inode[q].children[j] => p = q /\ i = j
    /\ \A p \in DOMAIN inode : \A q \in ChildrenOf(p) : inode[p].id < inode[q].id

\* inode.c:34-38: ids are not used again.  Every id is below num_inode_ids,
\* and no two inodes have the same one.
IdsUnique ==
    /\ \A p \in DOMAIN inode : inode[p].id < num_inode_ids
    /\ \A p, q \in DOMAIN inode : inode[p].id = inode[q].id => p = q

\* A file that is in the tree has all the blocks its size needs: a create_file
\* that ran out of blocks half way leaves no file behind.
FilesAreComplete ==
    \A p \in Linked \ {child} :
        ~inode[p].is_directory => Len(inode[p].blocks) = BlocksNeeded(inode[p].filesize)

\* inode.h:64 and 72: delete removes the inode it is given and no other one,
\* although the code looks it up again by its name.
DeletesGivenNode == [][\A p \in Linked \ Linked' : p = node]_vars

\* The steps of a call amount to one step of FileSystem: a file appears when
\* it is linked, and is gone as soon as delete has picked it.
Visible == IF pc = "freeing" THEN Linked \ {child} ELSE Linked

ParentOf(q) ==
    IF q = root THEN NULL ELSE CHOOSE p \in DOMAIN inode : q \in ChildrenOf(p)

InProgress == IF child = NULL THEN {} ELSE {inode[child].blocks[i] : i \in Unfreed(child)}

FS == INSTANCE FileSystem WITH
        Disk <- Blocks, BlockSize <- BLOCKSIZE, MayLeak <- ReallocFaults,
        nodes <- [p \in Visible |->
                    [dir |-> ParentOf(p), name |-> inode[p].name,
                     is_directory |-> inode[p].is_directory,
                     size |-> inode[p].filesize, blocks |-> BlocksOf(p)]],
        unused <- {b \in Blocks : bat[b] = 0} \cup InProgress

\* inode.c implements the atomic file system of FileSystem.
ImplementsFileSystem == FS!Spec

===============================================================================
