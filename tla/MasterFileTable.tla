--------------------------- MODULE MasterFileTable ----------------------------
(*****************************************************************************)
(* The simulated disk across program runs: save_inodes and load_inodes of    *)
(* inode.c composed with the calls of Inode, and the life of the programs    *)
(* that use them (create_fs formats, builds, saves and shuts down; load_fs   *)
(* and del_fs load, may change, save and shut down).  The disk is two files: *)
(* the block allocation table, written by format_disk and by every           *)
(* allocate_block and free_block, and the master file table, written only by *)
(* save_inodes.  A program may be killed anywhere, also when fopen "w" has   *)
(* emptied either file and nothing is written to it yet.                     *)
(*                                                                           *)
(* Simplifications: each file fits the buffer of its stream, so that it is   *)
(* empty from fopen "w" to fclose.  Only format_disk fails by itself; after  *)
(* a save_inodes whose fopen is refused the files are as after a kill before *)
(* it.  The ids of the children in a directory's record are left out: they   *)
(* are written, and read over.                                               *)
(*****************************************************************************)
EXTENDS Inode

CONSTANT FormatFaults   \* whether format_disk may fail, which create_fs ignores

ASSUME FormatAssumption == FormatFaults \in BOOLEAN

VARIABLES
    mft,      \* the records in the master file table on disk
    exists,   \* there is such a file, if only an empty one
    phase,    \* "down" while no program runs, else what the program does
    stream,   \* the records written to the stream, or not yet read from it
    todo,     \* the pending calls of save_inode, or the places that
              \* create_inode has yet to fill: the directory, NULL for root
    dirty,    \* the program has changed the tree or the disk since it saved
    unsaved,  \* history: the blocks on which the two files may differ
    killed,   \* history: a program was killed, or lost blocks, since the format
    saved     \* history: the inodes and the root as last saved

disk == <<mft, exists, unsaved, saved>>
memory == <<inode, root, num_inode_ids, pc, parent, node, child, freed>>
allVars == <<vars, mft, exists, phase, stream, todo, dirty, unsaved, killed, saved>>

NoInodes == [p \in {} |-> NULL]

NoProcess ==
    /\ inode = NoInodes
    /\ root = NULL
    /\ num_inode_ids = 0
    /\ pc = "idle"
    /\ parent = NULL /\ node = NULL /\ child = NULL
    /\ freed = 0
    /\ suspect = Blocks
    /\ phase = "down"
    /\ stream = <<>>
    /\ todo = <<>>
    /\ dirty = FALSE

\* There is no disk yet.
DiskInit ==
    /\ bat = EmptyFile
    /\ mft = <<>> /\ exists = FALSE
    /\ unsaved = {}
    /\ killed = FALSE
    /\ saved = [inode |-> NoInodes, root |-> NULL]
    /\ NoProcess

-------------------------------------------------------------------------------
(* Programs *)

RecordedBlocks ==
    UNION {{mft[k].blocks[i] : i \in DOMAIN mft[k].blocks} : k \in DOMAIN mft}

\* create_fs formats the disk first: the old table is unlinked, and the new one
\* empty until it is flushed.  The old master file table stays until the new one
\* is saved.
StartCreate ==
    /\ phase = "down"
    /\ phase' = "formatting"
    /\ bat' = EmptyFile
    /\ unsaved' = Blocks
    /\ UNCHANGED <<suspect, memory, stream, todo, mft, exists, dirty, killed, saved>>

Format ==
    /\ phase = "formatting"
    /\ phase' = "running"
    /\ dirty' = TRUE
    /\ bat' = FormattedTable
    /\ suspect' = {}
    /\ unsaved' = RecordedBlocks
    /\ killed' = FALSE
    /\ UNCHANGED <<memory, stream, todo, mft, exists, saved>>

\* write_table fails: what there is now is no table.
FormatFails ==
    /\ FormatFaults
    /\ phase = "formatting"
    /\ phase' = "running"
    /\ dirty' = TRUE
    /\ killed' = TRUE
    /\ UNCHANGED <<bat, suspect, memory, stream, todo, disk>>

\* unlink fails: the program goes on with the old table, whose marks are lost.
FormatRefused ==
    /\ FormatFaults
    /\ phase = "down"
    /\ phase' = "running"
    /\ dirty' = TRUE
    /\ suspect' = {b \in Blocks : bat[b] = 1}
    /\ killed' = TRUE
    /\ UNCHANGED <<bat, memory, stream, todo, disk>>

\* A step of the running program that changes the tree or the table.
Perform(step) ==
    /\ phase = "running"
    /\ step
    /\ dirty' = TRUE
    /\ unsaved' = unsaved \cup {b \in Blocks : bat'[b] # bat[b]}
    /\ killed' = (killed \/ suspect' # suspect)
    /\ UNCHANGED <<mft, exists, phase, stream, todo, saved>>

\* A step of a call to create_file, create_dir, delete_file or delete_dir.
Call == Perform(Next)

\* The memory of the process is gone, whatever it was doing.
Exit ==
    /\ inode' = NoInodes
    /\ root' = NULL
    /\ num_inode_ids' = 0
    /\ pc' = "idle"
    /\ parent' = NULL /\ node' = NULL /\ child' = NULL
    /\ freed' = 0
    /\ suspect' = Blocks
    /\ phase' = "down"
    /\ stream' = <<>>
    /\ todo' = <<>>
    /\ dirty' = FALSE

\* fs_shutdown, and the end of the program.
Quit ==
    /\ phase = "running" /\ pc = "idle"
    /\ Exit
    /\ UNCHANGED <<bat, disk, killed>>

\* After save_inodes, or with nothing to save.
Shutdown == ~dirty /\ Quit

Kill ==
    /\ phase # "down"
    /\ Exit
    /\ killed' = TRUE
    /\ UNCHANGED <<bat, disk>>

\* A write_table has begun: allocate_block has found a block, or free_block one
\* that is marked.
WritesTable ==
    \/ pc = "allocating" /\ BlocksMissing /\ ~Full(bat)
    \/ /\ pc \in {"rolling_back", "freeing"} /\ BlocksToFree
       /\ bat[inode[child].blocks[freed + 1]] = 1

\* Between its fopen "w" and the flush of its fclose the table is empty.
KillInWrite ==
    /\ phase = "running" /\ WritesTable
    /\ Exit
    /\ bat' = EmptyFile
    /\ unsaved' = Blocks
    /\ killed' = TRUE
    /\ UNCHANGED <<mft, exists, saved>>

-------------------------------------------------------------------------------
(* save_inodes *)

\* One block too few is written.
MutantRecord(p) ==
    [id |-> inode[p].id, name |-> inode[p].name,
     is_directory |-> inode[p].is_directory, num_children |-> Len(inode[p].children),
     filesize |-> inode[p].filesize,
     blocks |-> SubSeq(inode[p].blocks, 1, Len(inode[p].blocks) - 1)]

Record(p) ==
    [id |-> inode[p].id, name |-> inode[p].name,
     is_directory |-> inode[p].is_directory, num_children |-> Len(inode[p].children),
     filesize |-> inode[p].filesize, blocks |-> inode[p].blocks]

\* fopen with "w" empties the file.
SaveOpen ==
    /\ phase = "running" /\ pc = "idle" /\ root # NULL
    /\ phase' = "saving"
    /\ mft' = <<>> /\ exists' = TRUE
    /\ stream' = <<>>
    /\ todo' = <<root>>
    /\ unsaved' = {b \in Blocks : bat[b] = 1}
    /\ UNCHANGED <<bat, suspect, memory, dirty, killed, saved>>

\* The recursion goes through the children from the last to the first.
MutantPending(p) ==
    (IF inode[p].is_directory
        THEN [i \in DOMAIN inode[p].children |->
                 inode[p].children[Len(inode[p].children) + 1 - i]]
        ELSE <<>>) \o Tail(todo)

\* A directory's children are written right behind it.
Pending(p) ==
    (IF inode[p].is_directory THEN inode[p].children ELSE <<>>) \o Tail(todo)

SaveInode ==
    /\ phase = "saving" /\ todo # <<>>
    /\ stream' = Append(stream, Record(Head(todo)))
    /\ todo' = Pending(Head(todo))
    /\ UNCHANGED <<bat, suspect, memory, disk, phase, dirty, killed>>

SaveClose ==
    /\ phase = "saving" /\ todo = <<>>
    /\ phase' = "running"
    /\ mft' = stream
    /\ stream' = <<>>
    /\ dirty' = FALSE
    /\ unsaved' = suspect
    /\ saved' = [inode |-> inode, root |-> root]
    /\ UNCHANGED <<bat, suspect, memory, exists, todo, killed>>

-------------------------------------------------------------------------------
(* load_inodes *)

LoadOpen ==
    /\ phase = "down" /\ mft # <<>>
    /\ phase' = "loading"
    /\ stream' = mft
    /\ todo' = <<NULL>>
    /\ UNCHANGED <<bat, suspect, memory, disk, dirty, killed>>

\* The array of blocks is allocated and not read.
MutantLoaded(r) ==
    [id |-> r.id, name |-> r.name, is_directory |-> r.is_directory,
     children |-> <<>>, filesize |-> r.filesize, blocks |-> <<>>]

Loaded(r) ==
    [id |-> r.id, name |-> r.name, is_directory |-> r.is_directory,
     children |-> <<>>, filesize |-> r.filesize, blocks |-> r.blocks]

\* create_inode reads one record.  num_inode_ids counts the records: it is
\* not set past the ids they have.
LoadInode ==
    /\ phase = "loading" /\ todo # <<>>
    /\ \E new \in Ptr \ DOMAIN inode :
          /\ IF Head(todo) = NULL
             THEN root' = new /\ inode' = With(new, Loaded(Head(stream)))
             ELSE root' = root /\ AddInodeToParent(Head(todo), new, Loaded(Head(stream)))
          /\ todo' = [i \in 1 .. Head(stream).num_children |-> new] \o Tail(todo)
    /\ num_inode_ids' = num_inode_ids + 1
    /\ stream' = Tail(stream)
    /\ UNCHANGED <<bat, suspect, pc, parent, node, child, freed, disk, phase, dirty, killed>>

\* The flag of the inode is not initialised either (malloc for calloc).
MutantUnread(name) == NewDirectory(0, name)

\* What create_inode makes of an empty file, when the length of the name, which
\* is not initialised, is 0: a file, with whatever name is in memory.
Unread(name) == NewFile(0, name, 0)

\* In all other cases it gives up, when num_inode_ids has been counted up.  If
\* there is no file load_inodes gives up before that.
LoadEmpty ==
    /\ phase = "down" /\ mft = <<>>
    /\ phase' = "running"
    /\ \/ UNCHANGED <<inode, root>>
       \/ /\ exists
          /\ \E new \in Ptr, name \in Names : inode' = With(new, Unread(name)) /\ root' = new
    /\ num_inode_ids' = IF exists THEN 1 ELSE 0
    /\ suspect' = unsaved
    /\ UNCHANGED <<bat, pc, parent, node, child, freed, stream, todo, disk, dirty, killed>>

\* What the two files differ on is now what the table and the tree differ on.
LoadClose ==
    /\ phase = "loading" /\ todo = <<>>
    /\ phase' = "running"
    /\ suspect' = unsaved
    /\ stream' = <<>>
    /\ UNCHANGED <<bat, memory, todo, disk, dirty, killed>>

-------------------------------------------------------------------------------
ProgramStep == SaveInode \/ SaveClose \/ LoadInode \/ LoadClose

DiskNext ==
    \/ StartCreate \/ Format \/ FormatFails \/ FormatRefused
    \/ Shutdown \/ Kill \/ KillInWrite
    \/ Call
    \/ SaveOpen \/ LoadOpen \/ LoadEmpty \/ ProgramStep

DiskSpec == DiskInit /\ [][DiskNext]_allVars

-------------------------------------------------------------------------------
(* Properties *)

\* A marked block is one entry of one record, any other block is none.
AgreesOn(b) ==
    IF bat[b] = 1
    THEN \E k \in DOMAIN mft : \E i \in DOMAIN mft[k].blocks :
            \A l \in DOMAIN mft : \A j \in DOMAIN mft[l].blocks :
               mft[l].blocks[j] = b <=> l = k /\ j = i
    ELSE b \notin RecordedBlocks

\* The two files are written at different times.  Whenever the program is
\* killed they differ at most on blocks allocated or freed since the last
\* save, or, in the middle of a save, on blocks that are marked: all other
\* marked blocks are in exactly one record, and unmarked blocks in none.  Only
\* a kill in the middle of a write of the table makes them differ on any block.
DiskAgrees == \A b \in Blocks \ unsaved : AgreesOn(b)

\* If every program since the format ended by itself, the two files agree on
\* all blocks between programs.
CleanRunsKeepDisk == phase = "down" /\ ~killed => \A b \in Blocks : AgreesOn(b)

\* m maps the saved inodes one to one onto those in memory.
IsCopy(m) ==
    /\ m[saved.root] = root
    /\ \A p \in DOMAIN saved.inode :
          LET old == saved.inode[p]  new == inode[m[p]] IN
          /\ new.id = old.id /\ new.name = old.name /\ new.is_directory = old.is_directory
          /\ new.filesize = old.filesize /\ new.blocks = old.blocks
          /\ new.children = [i \in DOMAIN old.children |-> m[old.children[i]]]

Bijections(S, T) ==
    {m \in [S -> T] : \A t \in T : \E s \in S : m[s] = t /\ \A u \in S \ {s} : m[u] # t}

\* inode.h:85-88: "Set the pointers between inodes correctly".  The tree that
\* load_inodes builds is the tree that was last saved, child by child, unless
\* the file is empty.
LoadRestoresTree ==
    phase = "running" /\ ~dirty /\ mft # <<>> =>
        \E m \in Bijections(DOMAIN saved.inode, DOMAIN inode) : IsCopy(m)

\* inode.c:34-38: next_inode_id avoids the reuse of ids, num_inode_ids being
\* "the lowest unused inode ID" also when a disk has been loaded.  Even if no
\* program is killed it is not, once an inode has been deleted.
NoIdReuse ==
    ~killed => \A p, q \in DOMAIN inode : inode[p].id = inode[q].id => p = q

===============================================================================
