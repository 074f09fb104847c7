# IN2140 in TLA+

The repository holds the work of a course on operating systems and data communication: a simulated
disk (`oblig/`), a transport and a lookup protocol over UDP (`eksam/`), and exercises (`plenum/`,
`CBra/`, `gruppetimer/`, `oppgaver/`). This directory models the parts with a state of their own,
checks them with TLC on small instances, and proves with TLAPS what matters most for all instances.
Paths are relative to `src/`.

## 1. The system

### The simulated disk: `oblig/`

A disk is two files, one for each of two components.

| component | state | operations | works through |
|---|---|---|---|
| block allocation table, `allocation.c` | a file with one byte for each of `NUM_BLOCKS` blocks | `format_disk`, `allocate_block`, `free_block`, each of which reads the whole file and writes it back | stdio |
| inode tree, `inode.c` | `struct inode` on the heap, the root, `num_inode_ids` | `create_file`, `create_dir`, `find_inode_by_name`, `delete_file`, `delete_dir` | `allocate_block`, `free_block`, once for each block |
| master file table, `inode.c` | a file with one record for each inode | `save_inodes`, `load_inodes`, `fs_shutdown` | stdio; reads and builds the inode tree |
| programs `create_fs*.c`, `load_fs.c`, `del_fs.c` | which call they are in | format, build, save; load, print; load, delete, save | all of the above |

There are no threads; the programs run one after the other on the same two files. What is hard here:

- a call is several steps that reach the disk one by one, and can fail, or be killed, between two of
  them: `create_file` takes its blocks before it knows that there are enough;
- the two files are written at different times, the table by every block and the master file table
  by `save_inodes` only; each write begins by emptying the file;
- the results of `write_table` are ignored;
- an inode is looked up again by its name before it is deleted, and `del_fs.c` keeps pointers across
  deletions;
- a program that is killed leaves files that the next one loads, an empty one among them;
- the tree is saved and loaded by a recursion whose shape is in the data.

It is correct if no block has two holders and none is lost; if table and tree agree at every step of
every call; if names, ids and links make one tree; if the files differ only where a program that was
killed can explain it; if loading gives back the tree that was saved; and if the programs, run in any
order and killed anywhere, use no pointer after its release and delete what they list, no more.
A program that is killed inside `write_table` leaves no table at all; nothing repairs that but a
new format, and it must at least do no further harm.

### D1 and D2: `eksam/handout/`

| component | state | operations | works through |
|---|---|---|---|
| D1, `d1_udp.c` | `D1Peer`: socket, address, `next_seqno` | `d1_send_data`, `d1_wait_ack`, `d1_recv_data`, `d1_send_ack` | UDP |
| its client `d1_test_client.c` | the place in its script | connect, ping and pong, disconnect | D1 |
| D2, `d2_lookup.c` | `LocalTreeStore`: the number of nodes, the array | `d2_send_request`, `d2_recv_response_size`, `d2_recv_response`, `d2_add_to_local_tree`, `d2_print_tree` | D1 |
| its client `d2_test_client.c` | loop, index of the next node | request, receive, print | D2 |
| the two servers, `servers/` | binaries | | external |

Client and server are two processes; a packet may be lost, damaged, sent twice, or late. D1 is stop
and wait with a one-bit sequence number. It is correct if a payload is accepted once and in order,
if no answer is dropped before it was received, and if both ends agree on the next sequence number.
D2 is correct if the array holds node *i* at index *i*, which the recursion of `print_node` takes
for granted, if the tree is printed depth first, and if a request ends.

### Exercises

| component | state | what it does |
|---|---|---|
| free list and first-fit allocator, `plenum/uke8/` | list of free blocks, blocks held | allocation cuts a block, `first_fit_free` puts one back and merges its neighbours |
| test of the list, `plenum/uke8/test_list.c` | a list | elements appended, or inserted in order, and deleted |
| routing table, `plenum/uke11/cidr.c` | table of prefixes | filled, sorted by address, searched by prefix |
| ARP table, `plenum/uke11/arpjob.c` | table of addresses and ages | filled; the oldest entry replaced again and again; sorted, searched |
| disk scheduling, `plenum/uke9/uke9.c` | position of the head | serves tracks by one of four algorithms |
| warehouse, `CBra/uke9/finnsvinn.c` | list of goods | three logs are added up, what is missing is printed |
| pipe, `CBra/uke12/pipfork.c` | two processes and a stream | lines until a "q" |
| chat, `CBra/uke18/msn.c` | two peers, a socket and a keyboard each | `select` over both; lines until a "q", or a timeout |
| demos, C exercises | none that lasts | see `PROJECT.json`, "components" |

The free list is correct if no unit of memory is handed out twice, none disappears, and the list is
sorted with no two blocks that touch. A search in a sorted table is correct if it finds what is there.
The processes are correct if they end, and for the reason they were meant to.

`PROJECT.json` lists under "hazards" the places, line by line, where a test would hardly reach what
can go wrong, and the properties that look there.

## 2. The modules

```
BlockTable                      the table as a value: what a call computes from it
  Allocation                    allocation.c, every call of the file system may fail
    Allocation_proofs
  Inode                         inode.c: the tree, one step for each block
    Inode_proofs                types, links, the table against the tree; names, ids, shape of the
                                tree, and the refinement of FileSystem
    MCInode
    MasterFileTable             Inode + the two files + the lives of programs
      MasterFileTable_proofs    (EXTENDS Inode_proofs too)
      MCMasterFileTable
      Programs                  the text of the programs of oblig/, one after the other on one disk
        Programs_proofs         (EXTENDS MasterFileTable_proofs too)
FileSystem                      abstract: what inode.h promises; Inode implements it
D1Udp                           d1_udp.c + the program of d1_test_client.c; server and network external
  D1Udp_proofs
  MCD1Udp
D1Service                       abstract: what D1 promises; D1Udp implements it
D2Lookup                        d2_lookup.c + the program of d2_test_client.c over an abstract D1
  D2Lookup_proofs
FreeList                        sl_list.c + first_fit.c
  FreeList_proofs
MCExercises                     one of the small programs in a behaviour:
  RoutingTable                  cidr.c
  ArpTable                      arpjob.c
  DiskScheduling                uke9.c
  Warehouse                     finnsvinn.c
  TestList                      test_list.c, with list_append and list_insert
  Pipe                          pipfork.c, two processes
  Chat                          msn.c, two peers
Bits                            powers of two, for the two tables of addresses
Sorting                         what qsort does to an array, for ArpTable and DiskScheduling
Exercises_proofs                about all of these
```

A module below another EXTENDS it; `MCExercises` EXTENDS the seven below it. `Inode` refers to
`FileSystem`, and `D1Udp` to `D1Service`, with INSTANCE and a refinement mapping. Definitions have
the names of the source where they stand for one function or variable; "map" in `PROJECT.json` gives
the lines of each. A definition `MutantX` in front of `X` is a plausible bug: it shows that a
property can fail.

**Allocation.** `table` and `intact` are the file; `intact` is false when `fread` would come up short.
`WriteTable` has the three ends of `write_table`: written, cut short (`fopen "w"` has already emptied
the file), refused by `fopen`. `held` and `stale` are history: who holds a block, and which blocks
a refused write was about.

**Inode.** `inode` is the heap, a function on the pointers in use. `create_file` is `CreateFile`, then
`AllocateBlock` for each block, then `LinkFile` (or `LinkFails` when `realloc` fails), or
`AllocateFails` and the loop that rolls back; `delete_file` is `DeleteFile`, then `FreeBlock` for each
block, then `Unlink`. `pc`, `parent`, `node`, `child` and `freed` are the local variables of the
running call. `create_dir` and `delete_dir` touch memory only and are one step each. `suspect` is
history: the blocks of a file that could not be linked, which the code does not give back. With
`CallersFind` a program deletes a node it has found by name, as `del_fs.c` does.

**MasterFileTable.** `bat` and `mft` are the two files. `Call` is any step of `Inode`; `SaveOpen`,
`SaveInode`, `SaveClose` and `LoadOpen`, `LoadInode`, `LoadClose` are `save_inodes` and `load_inodes`,
with `todo` for their recursion; `Kill` may come between any two steps. A file is empty from its
`fopen "w"` to its `fclose`: in `save_inodes` that is the phase "saving"; in `format_disk`, the phase
"formatting"; in the `write_table` of a block, which is otherwise one step of `Inode`, it is
`KillInWrite`. `bat` is then `EmptyFile`, of which every `allocate_block` and `free_block` fails.
`FormatFails` and `FormatRefused` are what `create_fs` does not look at, with `FormatFaults`.
`unsaved`, `killed` and `saved` are history. `LoadEmpty` is a load of a master file table that is empty
or missing. If it is missing (`exists` is false) `load_inodes` gives up at once. If it is empty,
because `save_inodes` was killed behind its `fopen "w"`, `create_inode` counts an inode and reads the
length of the name from uninitialised memory: too long and `malloc` fails, the root is NULL; 0 and
the root is a file, with whatever name the memory holds.

**Programs.** `Text` has the programs as sequences of calls, with the pointers `local` that their
variables hold and a place to go on at when a name is not found. A program runs on what the ones
before it have left; `Killed` may come between any two steps of any call, and inside a write of
either file. `FormatDisk` is the format before the first call. `DebugDisk` is the one thing of what
is printed that matters: every program prints the table before its first call (create_fs when it has
formatted the disk, load_fs and del_fs when they have loaded it), and `debug_disk` uses the NULL that
`read_table` returns when there is no table, so that the process dies. `malloc` returns the lowest
free address, so that one that was released is soon in use again and a stale pointer would meet it.
`made` is history, the paths on the disk when a program had made it.

**FileSystem.** Creating and deleting in one step each, with no table: `nodes` and `unused` only. A
file appears when `Inode` links it and is gone when `delete_file` has picked it; a call that fails
half way is a stutter. `Leak` stands for the blocks that a failed `realloc` costs.

**D1Udp.** One step of the client handles or sends one packet. `d1_wait_ack` and `d1_recv_data` block
without a timeout, and call themselves or `d1_send_data` again, which is the client staying where it
is. The server keeps the rules of `d1_udp.h` for both ends. A `Fault` is spent on each thing that
goes wrong, up to `MaxFaults`; `Faults` says which kinds may.

**D1Service.** A send returns when the payload was accepted, a receive returns its answer.

**D2Lookup.** `inbox` holds what `d1_recv_data` will return, in order; `Repeat` is a message that D1
delivers twice, `RequestLost` a request that `d1_send_data` only takes for sent. Trees are all trees
up to `MaxNodes` nodes with ids in depth-first order, as the
server numbers them. `todo` is the recursion of `print_node`.

**FreeList.** The linked list is a sequence, `held` the bag of elements callers have. `Rest` has the
arithmetic of `find_first` as it is in the source, the wrong element included; `cuts` counts how often
it was used behind the first element.

**TestList.** `ListInsert` is the loop of `list_insert`, with the place where it stops; if there is
none the element is not linked.

**RoutingTable.** `table` is a function on the indices that were written, below 0 too. `bsearch` is
the usual bisection, external; `Sort` puts equal addresses in any order, as `qsort` may.

**ArpTable.** Addresses of `ArpWidth` bits; `Lt` is their difference as a signed number of that width.
Where it is no order, `qsort` may leave the table in any order. `bsearch` is in steps here too, each
of which halves the entries from `low` to `high - 1`.

**DiskScheduling.** `Requests` is what `main` makes of its arguments, from one place too early;
the algorithm gives the `route`, `Move` is one round of its loop. `Ascending` is what `qsort` leaves, `Below` the index at which the
loop of `look` stops.

**Warehouse.** One step for each record of a log. A log may end behind any record, and a file may be
missing.

**Pipe.** `fgets`, `write` and `read` are steps of two processes. The pipe is a sequence of
characters; `Chunk` is what one `read` takes of it. A write succeeds until the child has closed its
end (`CloseRead`), which is a step after it has left its loop; a parent that writes then is killed by
the signal.

**Chat.** A round of the loop is `Select`, then `ReadNet`, then `ReadKeyboard`, each if `select` has
found something, with everything of the friend and of the users in between. Both reads fill the same
`buf`, which is tested at the end of the round. Datagrams are lost at any time. `missed` is history.

## 3. What TLC checks

Twelve runs. Sizes are those of a machine with two workers.

| run | instance | what it shows |
|---|---|---|
| `allocation` | 4 blocks, all faults | `SingleHolder`: no block has two holders, except one whose own write was refused. `TableTellsHolders`: a table that can be read is right on all other blocks. |
| `inode_ops` | 3 blocks, 5 inodes, sizes 0, 4096, 4097 | `BatMatchesTree`, `UniqueNames`, `InodesFormTree`, `IdsUnique`, `FilesAreComplete` at every step of every call; `DeletesGivenNode` for each deletion; `ImplementsFileSystem`. |
| `disk` | 2 blocks, 3 inodes | `DiskAgrees`: table and master file table differ only on blocks changed since the last save, unless a write of the table was killed. `CleanRunsKeepDisk`: not at all if nothing was killed. `LoadRestoresTree`, and `BatMatchesTree` on the loaded tree. |
| `programs` | the programs of `oblig/` on 17 blocks, in any order, killed anywhere | `NoUseAfterFree`: on no disk they leave behind does `del_fs.c` use a pointer whose inode is released. `RerunRepairs`: a `del_fs` that ends makes the two files agree again, however many were killed before; after one that was killed inside `write_table` none ends. `DeletesExactly`: it has removed what is on its list and nothing with a like name. `LostStaysLost`: after a save that was killed nothing frees or takes a block until a disk is made anew. `ProgramEnds`. |
| `id_reuse` | 1 block, 3 inodes | violation of `NoIdReuse`, section 5. |
| `d1_transfer` | connect, two pings, disconnect; 12 damaged packets | `ImplementsD1Service`, with its liveness, `SeqnosAgree`. |
| `d1_loss` | the same; 5 packets lost, duplicated, damaged in data, sequence number or size, retransmitted early, or sockets failing | `AcceptedOnceInOrder` always; `NoAnswerLost` unless a packet was damaged. |
| `d1_false_success` | the same; 2 lost or late | violation of `SuccessMeansAccepted`. |
| `d2_lookup` | trees of up to 7 nodes, 5 in a packet; 2 faults, a lost request among them | `IndexIsId`, `PrintsTree`, `RequestEnds`. |
| `first_fit` | 7 units, blocks of 1 to 3, 3 wrong cuts | `NoUnitTwice` always, `ListIsExact` until the first wrong cut. |
| `first_fit_loses` | 5 units, blocks of 1 and 2, 1 wrong cut | violation of `NoUnitLost`. |
| `exercises` | see below | `cidr`: `MissIsNested`, a search fails only because of nested prefixes. `arpjob`: `MissGoesRound`, one fails only if addresses of the table go round; `KeepsLatest`, the oldest entry is the one replaced. `uke9`: `LookIsShortest`, look serves what it serves on the shortest way. `finnsvinn`: `SvinnIsRight`, whichever log names a ware first. `test_list`: `InsertKeepsOrder`, `list_insert` leaves the list sorted and without gaps. `pipfork`: `EarlyEnd`, when the child leaves before its parent; `ChildEnds`, when it ends at all. `msn`: `EndsForAReason`, when a peer is left to its timeout; `PeersEnd`. |

Each property has a mutant that breaks it. Type invariants are checked where a proof builds on them
(`allocation`, `inode_ops`, `first_fit`); the programs of `exercises` have no type invariant of their own.

### The bounds

- *Blocks and inodes.* Three blocks and files of two let `create_file` run out of blocks with one in
  hand, and beside another file; 4097 bytes are the smallest size with a partial block. Five inodes
  are a root, a directory in a directory and siblings in both. The disk runs need fewer: two blocks
  let the files differ on one and agree on the other, three inodes are a chain or two siblings, which
  tell the orders of the recursion apart. `FormatFaults` is on in `disk`; off in `id_reuse`, where
  nothing need fail, and in `programs`, whose proofs need a `format_disk` that works. `MaxInodeIds` and
  `MaxHolders` bound counters.
- *Programs.* Programs of at most fourteen inodes, so `Ptr` has fourteen addresses, and none runs out.
  File sizes are a quarter of those in the source (`Scale`): the files of `create_fs_2.c` then fill
  the 17 blocks, each file still has at least one, and files of one block and of several occur. Of
  the names an uninitialised root may get, `Leftover` has one that `del_fs.c` looks for and one that
  it does not.
- *D1.* Two rounds use both values of the sequence number in both directions. Five faults are enough
  for a loss, a repeat and a late answer in one round and again in the next.
- *D2.* The limits of the source: five children, five nodes in a packet. Seven nodes make one full
  packet with a rest; ids 999, 1000 and 1001 lie around the two tests of the id.
- *FreeList.* Three holes with blocks between them are all that merging looks at (left, right, both,
  neither), and seven units have room for them. A wrong cut may leave a block of negative size in
  the list, which makes it longer than the memory: `MaxCuts` bounds that. The proofs of section 4
  have no such bound.
- *Exercises.* Four entries let an address have a short prefix and a longer one in it on either side
  of the middle; prefixes of 1, 2 and 3 bits with three entries gave the same verdicts. Three ARP
  addresses of three bits are the fewest that can go round without one being opposite to another.
  Four tracks of a disk of four are all orders and repeats that sorting can tell apart. Two goods and
  two records a log: each can come first in any log, and twice. A buffer of four takes lines of three
  characters, and the lines typed are as long, longer, and shorter. Two lines for each peer, so that
  a "q" can meet a line in the other direction. Five elements in `test_list`, as in the test, in every
  order.

### Fairness

- `ProgramsSpec`: weak fairness of the program that runs: a process that is started takes its next
  step. `Killed` ends it. Nobody has to start one.
- `PipeFairness` and `ChatFairness`: weak fairness of what a process can do without its user, each
  process on its own. Users type or do not, datagrams may all be lost.
- `D1Udp!FairSpec`: weak fairness of the client and of the server, each of which is one process that
  handles what has arrived. Nothing is assumed of the network: with the fault `damage` a packet
  arrives, and damage is bounded by `MaxFaults`. With loss no liveness is claimed: the client has no
  timeout.
- `D2Lookup!FairSpec`: weak fairness of the program. `RequestEnds` begins when the request has reached
  the server and the answers are there.

## 4. What TLAPS proves

| theorem | for all | property |
|---|---|---|
| `Allocation_proofs!TypeCorrect` | numbers of blocks, sets of faults | `TypeOK` |
| `Allocation_proofs!SingleHolderHolds` | as above | `SingleHolder` |
| `Allocation_proofs!TableTellsHoldersHolds` | as above | `TableTellsHolders` |
| `Inode_proofs!TypeCorrect` | heaps, disks, names, sizes | `TypeOK` |
| `Inode_proofs!TableMatchesTree` | as above | `BatMatchesTree` |
| `Inode_proofs!UniqueNamesHolds` | as above | `UniqueNames` |
| `Inode_proofs!IdsUniqueHolds` | as above | `IdsUnique` |
| `Inode_proofs!FilesAreCompleteHolds` | as above | `FilesAreComplete` |
| `Inode_proofs!InodesFormTreeHolds` | as above, `CallersFind` | `InodesFormTree` |
| `Inode_proofs!DeletesGivenNodeHolds` | as above, `CallersFind` | `DeletesGivenNode` (an action property) |
| `Inode_proofs!FileSystemImplemented` | as above, `CallersFind` | `ImplementsFileSystem` (a refinement) |
| `MasterFileTable_proofs!DiskAgreesHolds` | heaps, disks, sequences of programs, kills; `CallersFind` | `DiskAgrees` |
| `MasterFileTable_proofs!CleanRunsKeepDiskHolds` | as above | `CleanRunsKeepDisk` |
| `MasterFileTable_proofs!LoadRestoresTreeHolds` | as above | `LoadRestoresTree` |
| `MasterFileTable_proofs!TableMatchesLoadedTree` | as above | `BatMatchesTree`, of `DiskSpec` |
| `Programs_proofs!ProgramsUseTheDisk` | heaps, disks, names, scales of the files | `DiskSpec` (a refinement) |
| `Programs_proofs!NoUseAfterFreeHolds` | as above | `NoUseAfterFree` |
| `Programs_proofs!LostStaysLostHolds` | as above | `LostStaysLost` (an action property) |
| `Programs_proofs!RerunRepairsHolds` | as above | `RerunRepairs` |
| `D1Udp_proofs!AcceptedOnceInOrderHolds` | scripts, kinds and numbers of faults | `AcceptedOnceInOrder` |
| `D1Udp_proofs!NoAnswerLostHolds` | as above | `NoAnswerLost` |
| `D1Udp_proofs!SeqnosAgreeHolds` | scripts, numbers of damaged packets | `SeqnosAgree` |
| `D1Udp_proofs!ServiceImplemented` | as above | the safety half of `ImplementsD1Service` (a refinement) |
| `D2Lookup_proofs!IndexIsIdHolds` | trees, lengths of packets, faults but `repeat_nodes` | `IndexIsId` |
| `D2Lookup_proofs!PrintsTreeHolds` | as above | `PrintsTree` |
| `FreeList_proofs!TypeCorrect` | memories, sizes, numbers of wrong cuts | `TypeOK` |
| `FreeList_proofs!NoUnitTwiceHolds` | as above | `NoUnitTwice` |
| `FreeList_proofs!ListIsExactHolds` | as above | `ListIsExact` |
| `Exercises_proofs!InsertKeepsOrderHolds` | elements, in any order | `InsertKeepsOrder` |
| `Exercises_proofs!EarlyEndHolds` | lines, sizes of the buffer | `EarlyEnd` |
| `Exercises_proofs!EndsForAReasonHolds` | numbers of lines | `EndsForAReason` |
| `Exercises_proofs!KeepsLatestHolds` | sizes of the table, widths of the addresses | `KeepsLatest` |
| `Exercises_proofs!MissGoesRoundHolds` | as above | `MissGoesRound` |
| `Exercises_proofs!MissIsNestedHolds` | sizes of the table, widths, lengths of prefixes | `MissIsNested` |
| `Exercises_proofs!SvinnIsRightHolds` | goods, amounts, lengths of the logs | `SvinnIsRight` |
| `Exercises_proofs!LookIsShortestHolds` | disks, numbers of tracks | `LookIsShortest` |

They rest on the assumptions next to the constants (`NumBlocksAssumption`, `FaultsAssumption`,
`MaxHoldersAssumption`, `InodeAssumption`, `FormatAssumption`, `ScaleAssumption`, `ProgramsAssumption`, `D1Assumption`, `D2Assumption`, `FreeListAssumption`,
`TestListAssumption`, `PipeAssumption`, `ChatAssumption`, `ArpAssumption`, `RoutingAssumption`,
`WarehouseAssumption`, `DiskAssumption`), which TLC evaluates on its runs, and on three hypotheses that are written in the theorems:

- `CallersFind`: a program deletes nodes it has found in the parent by their name. `inode.h:64` and
  `72` promise nothing for a node that is not a child of the parent, and `delete_file` then unlinks
  another one, or none. `del_fs.c`, the only caller, finds what it deletes. All runs of the disk have
  it; what holds for any caller (`BatMatchesTree`, `UniqueNames`, `IdsUnique`, `FilesAreComplete`) is
  proved without it.
- `Faults \subseteq {"damage"}` for `SeqnosAgree` and the refinement of `D1Service`, as in the run
  `d1_transfer`: with loss a call does not return, or returns without having been accepted
  (section 5), and the two ends need not agree.
- `"repeat_nodes" \notin Faults` for `IndexIsId` and `PrintsTree`: a packet stored twice does break them (section 5).

**Allocation.** `SingleHolder` alone is not inductive: a block is handed out when the table says it
is unused, so what keeps its holder alone is that the table is right. The invariant adds that; when
the file was cut short nothing is handed out until the disk is formatted, which clears `held`.

**Inode.** The invariant is `TypeOK /\ LinksOK /\ NewestId /\ BatMatchesTree`. `LinksOK` says that
no inode is in two places and that the inode being created or freed is in none, or one, of them:
without it `Unlink` could leave a pointer to an inode it has released, or release the root.
`NewestId` keeps `num_inode_ids` from going below zero when `create_file` rolls back. The lemmas say
what each way of changing the heap does to the links, and that a step which changes no array of
blocks cannot disturb `BatMatchesTree`.

**The tree.** `TreeInv` adds what relates the inodes to each other: names differ within a directory
and from the directory's own, ids grow on the way down (so that no directory is below itself, which
is what makes the links a tree), every inode but the root and the one being created has a directory,
a directory has no blocks and a file no children. `CreatedOK` and `DeletedOK` are what the two calls
in progress know of their inode: without them nothing says that the file which `LinkFile` puts into
the directory has a name that is still new there, or that what `Unlink` removes is empty.
`LeakedForGood` says of the blocks that a failed `realloc` costs that nobody finds them again, which
the abstract file system needs to count them. Every step is then a step of `FileSystem` or a stutter:
one lemma for each action.

**The disk.** The theorems are about all programs run one after the other, killed at any step, so
the invariant `DiskInv` must carry a tree of any shape through two recursions and a file.

- *The running tree* (`RunTree`): links, names and kinds as above. The one fact that is not about a
  bounded number of inodes is `TreeReach`: a set that has the root and, with a directory, its
  children, is the whole heap. After a load ids need not grow on the way down (section 5), so that
  it cannot be derived from them as in `Inode_proofs`: it is part of the invariant, kept by every
  leaf that is added or cut, and given back by `load_inodes`.
- *save_inodes* (`Walk`, `StackOK`): `todo` is the stack of the recursion. What has been written and
  what is on the stack is closed under children; so when the stack is empty all inodes have been
  written, by `TreeReach`, each once, and the children of a directory in their order (`Written`).
- *load_inodes*: the records are read in the order of the same walk. A map from the records read to
  the new inodes (`Copied`, `PlacesKnown`) says that each is a copy of its record, in the directory
  that the recursion has reached.
- *Between programs* the file carries the tree (`Complete`), or what a kill left of it, and then
  nothing is promised. `DiskAgrees` follows with what `unsaved` remembers: the blocks the running
  program has taken or freed since the last save.
- *A lost table*: `bat` is `EmptyFile` or a table. A kill inside `write_table` makes `unsaved` all
  of `Blocks`, so that `DiskAgrees` promises nothing, and sets `killed`. A program of `DiskSpec` may
  go on without a table; its calls fail in `read_table`, so that it saves the blocks it has loaded, and
  those on which the files differed stay in `suspect`. Only a format gets out of this.

**Programs.** Here the invariant follows a text: `ProgramsInv` is `DiskInv` and, for each program and
each place in it, what its pointers point to. The texts are constants, so what the proof needs of
them is read off call by call (`WellMade` for the programs that create, `Looks` for load_fs,
`Deletes` for del_fs), and the rest of the argument is about any place.

- *Creating* (`CreatorInv`): each variable that is set has a directory, so every `create_dir` and
  `create_file` has a parent (`PlacesMade`).
- *del_fs* (`DelFacts`): main has found its inodes by name, each in a directory, and it uses some of
  them again after it has deleted others (`del_fs.c:92` and `99`). What it deletes in between has
  another name, or is refused: that is what keeps `var`, `log`, `dir`, `http`, `udir` and `dl` good
  (`Rest`, `Spared`). The one place where names do not help is the first attempt at /var/log, with
  the pointer that main goes on with. It is refused because the directory is not empty, which is a
  fact about *other* programs: create_fs_2 puts `message` into it before the disk can be full
  (`LogMade`, where the blocks in use are counted), and only del_fs, past that place, takes anything
  out of it (`LogsKept`); saving and loading keep it (`LogsFull`, `SavedOK`), by the map of
  `MasterFileTable_proofs`.
- *An empty master file table.* What `load_inodes` then makes is no inode or a lone file with any
  name. find may return it under any name, but it has no children and is in no directory, so every
  attempt to delete is refused (`LoneFile`). The same argument gives `LostStaysLost`.

- *A lost table* (`TableInv`). No call is made without a table: a program that meets none is still in
  front of its first call, and all it can do is `DebugDisk`, which ends the process with both files
  as they are.

With that each step of a program is a step that `MasterFileTable` allows (`StepIsDiskStep`), so
`CallersFind`, a hypothesis there, is for these programs a result: del_fs deletes from a directory
only what it has found in it. `ProgramsAssumption` says that the texts use names and sizes there are
and that the disk has room for kernel and message, 18 of the 50 blocks of the source, that memory does
not run out and that `format_disk` works. On a smaller
disk `NoUseAfterFree` is false: create_fs_2 does not look at what `create_file` returns, would save
/var/log empty, and del_fs would delete it and then search it.

What a killed del_fs leaves is another matter. It has freed blocks in the table whose inodes are
still on disk, and `RerunRepairs` says that the next one to end has put that right. `ProgramsInv`
does not tell: it knows of names and parents, not of the way from the root. `RepairInv` does:

- A path is a sequence of names, and `Leads` says which inode is at it. It is a chain of children and
  needs no recursion; how it changes when a child is found, a leaf is taken out, or a tree is copied
  are the lemmas `LeadsOn`, `LeadsWithout` and `LeadsToCopy`.
- At each place of its text del_fs has in its variables what is at certain paths (`Knows`,
  `Knowing`), and the files it has tried to delete, or passed over because a directory above them was
  missing, are gone (`Tried`, `Clearing`). That is read off its text, call by call (`DelFsSteps`,
  `DelFsRemoves`, `DelFsPasses`).
- So a block it frees is one of a file on its list, in memory and on disk (`Partial`), and since
  the two files agreed on it no other inode on disk has it (`FreedIsListed`). When the process is
  killed then, the blocks on which the two files differ are unmarked and held only by such files
  (`MadeInv`); the next process loads a copy of the same tree and knows that of its own
  (`LoadCloseRerun`), and when it has come to the end of its text these files are gone
  (`NobodyHolds`), in what it saves too (`Repaired`).

**D1.** Two invariants. `OrderInv` holds with every fault: data packets that arrive whole arrive in
the order in which they were sent, whatever was lost or copied in between, and a repeat has the
sequence number of the first; so what the server takes grows (`AcceptedOnceInOrder`). `AnswerInv`
adds, while no data was damaged, that the acknowledgements on the way up and the answers on the way
down are one stream, of which only the last part carries the number of the answer that is out: an
acknowledgement with that number therefore means that this answer was received, and the server may
drop it (`NoAnswerLost`). With damage this fails, as section 5 says. `SessionInv`, for `Faults
\subseteq {"damage"}`, says what is on its way at each place of the client: one packet, or an
acknowledgement in front of the next payload. There `SeqnosAgree` holds, and every step is a step of
`D1Service`: a send ends when the payload was taken, a receive when its answer was.

**D2.** An inbox loses messages, and repeats them, at its head only; so a message is told by the
number of messages *behind* it: the last `Packets(t)` are the packets in order, all others are the
message with the size (`InOrder`). The client's index is then a function of the number of messages
left (`Received`), a packet's first node is the one whose index comes next, and the packet that says
it is the last is the one that fills the array. What remains is rounding: `RoundedUp` says that the
packets hold all nodes and without the last one not all of them.

For `PrintsTree` the invariant says which calls of `print_node` are pending: those for the nodes whose
parents are printed and that are not printed themselves, in the order of their ids (`Waiting`,
`AreFor`). The first of them is the node with the next id, since ids are in depth-first order, and
its children come before all that wait. Its `Ancestors` are its parent and those of the parent, so
the depth that is passed on is the right one. `Ascending` puts a set of ids in order by rank: the
number of ids below.

**FreeList.** To `NoUnitTwice` the invariant adds `Disjoint`: no two elements of the list share a
unit, those of negative size having none. The argument goes through every step, also on a list that
`find_first` has spoilt and that is no longer sorted: what an element becomes in a wrong cut is a
part of the *element in front*, but only when that one was too small, so it has no units at all;
and merging two elements that touch gives at most the units of both. `ListIsExact` says something of
neighbours only; the invariant `ExactInv` has every two blocks in order with a gap between them, and
every unit of the memory in a block or in somebody's hands, until the first wrong cut.

**Exercises.** *TestList*: the loop stops at the first element that starts higher than the new one;
that there is a first one is the lemma `Least`, from the well-foundedness of the natural numbers. If
there is none, all elements start lower, the first one inserted among them, which stays the last of
the list: what is in the list is just what starts no higher than that one (`UpToFirst`), hence in
order and without gaps. *Pipe*: the invariant `LoneQuit` says that a pipe with nothing but a "q" in it has that
from the parent's last line, or from a read that filled its buffer; a write adds a whole line to
what is there, and a read that does not fill the buffer empties the pipe. *Chat*: the invariant
follows the "q" of a peer that has quit: it is in the other's socket, or in its buffer with a line
still to be read over it, or `missed`. *ArpTable*: a rearrangement of a finite table is onto, so
`qsort` keeps the set of ages even where `lt` is no order (`SortKeepsAges`); the one entry that all
others are younger than has the least age, and the new age follows the greatest. For the search:
where no addresses go round, `Before` (by address, then by index) is an order of the entries, and an
entry's place in it, one more than the number of entries before it, puts them in order; so a sorted
arrangement exists and `qsort` has left one (`CanBeSorted`, `SortedUnlessRound`). Bisection then
keeps the entry that is looked up between `low` and `high` (`Searching`).

*RoutingTable*: a prefix stands for a block of addresses, `Pow2[Width - len]` of them. Two blocks are
apart or one lies inside the other (`BlocksNest`). Bisection goes the wrong way for an entry only at
an entry whose block lies inside the block of the first, and without the address: what `MissIsNested`
says. The invariant is that every entry with the address is still between `l` and `u`, or has such a
block inside it. *Warehouse*: what is printed of a ware is the invariant for the records read so far,
whichever log they are from. *DiskScheduling*: what is served and what is still to be served make up
the plan of look, which is ascending from where it starts, and its way is as far as the track it is
on; no way over the same tracks is shorter than to the highest of them (`WayOverEffect`).
That there is an ascending arrangement is `CanBePutInOrder`, for any order of an array's indices,
by which the table of *ArpTable* can be sorted too.

Induction over data is in the proofs where it was needed, in first-order form: a set of numbers that
is not empty has a least element (`Least`), so a set with 0 and with each number the next is all of
them (`Induction`), and a recursive function exists because otherwise there is a least length
up to which it does not (`UnfoldingExists`, `Recursion`). By that `Pow2` has the laws of powers, and
`Total`, the sum over a log, grows with every record by its amount.

### Only model-checked

- Liveness: `ProgramEnds`, `RequestEnds`, `ChildEnds`, `PeersEnd` and the liveness of
  `ImplementsD1Service`. The prover has no ENABLED and so no fairness.
- `DeletesExactly`, of `Programs`. It is about all that is on the disk after a whole run of del_fs:
  `PathsFrom` is recursive over a tree of any shape, and that it computes the paths of `Leads` is an
  induction over that shape, to be followed through every step and every load.
  Nor does `ProgramsAssumption` suffice for it: with `Scale` 100 and 2 blocks TLC finds it violated
  after a completed create_fs_3. Both blocks are gone before its `bashrc` in home/user, del_fs takes
  Download and with it the last entry of home/user, and it has no second look at home/user, which
  `Left` counts as gone. The 50 blocks of the code and the 17 of the run hold that file, so a proof
  would need room for the five small files of create_fs_3 as a further assumption, and a count of the
  blocks taken.
- That the models are those of the code: section 2 and "map" in `PROJECT.json` are for a reader.

## 5. What does not hold

| run | code | disagrees with |
|---|---|---|
| `id_reuse` | `inode.c:352` counts inodes on loading; after a deletion the count is not above the ids in use | `inode.c:34-38`, the lowest unused id |
| `d1_false_success` | `d1_udp.c:389` takes the -1 of `d1_wait_ack` for success | `d1_udp.h:49-53`, block until the correct ACK |
| `first_fit_loses` | `sl_list.c:181` cuts with the fields of the wrong element | `sl_list.c:151-155` |

Six more are in the models. Two of them a property describes as they are:

- The ACK that refuses a damaged packet is the opposite of the packet's own sequence number
  (`d1_udp.c:233`). If that bit was damaged, it acknowledges the packet; and the refusal of an old
  answer may acknowledge the next one. So `NoAnswerLost` holds only of transfers without damage.
- In `pipfork.c` and `msn.c` a "q" may be missed: `ChildEnds` and `EndsForAReason` say when.

Four are in no property:

- `uke9.c:70` reads its arguments from one place too early: the first track is the name of the
  algorithm, which is 0, and the last one is left out. So `fcfs` serves the track it was to start
  from, and not the last one, against `uke9.c:12-14`, "start from 7 to 2, no change of order";
  and `lookdown` serves none. `LookIsShortest` says only what look makes of the tracks it is given.
- `list_insert` ends its loop at the last element without linking the new one (`sl_list.c:96`), against
  `sl_list.c:68-69`, "insert after that element": what belongs behind all others is dropped.
  `InsertKeepsOrder` allows for that and calls it no gap.
- `d1_wait_ack` has no timeout (`d1_udp.c:291`): one lost packet and the call never returns. The
  runs with loss ask only for safety.
- A packet with nodes that D1 delivers twice is stored twice (`d2_lookup.c:239`). Add
  `"repeat_nodes"` to `Faults` and `IndexIsId` fails.

And id 1000 is refused by `d2_send_request` with -1, which the client takes for success, so that it
waits for ever; so it does when `d1_send_data` takes a lost request for sent (`d1_udp.c:389`).
`RequestEnds` is about requests that reached the server.

## 6. What is not modelled

- Printing (`debug_fs`, `list_draw`, and `debug_disk`, except that it ends a process when there is no
  table), and a master file table that is cut short in the middle: the records that are missing are
  read as any memory, which makes any tree.
- Failing I/O while a program of `Programs` runs, beyond files that are missing or empty.
  `Allocation` has it for single calls of the table, `MasterFileTable` for `format_disk`; `Inode` has
  only the `realloc` of `add_inode_to_parent`. A `save_inodes` whose `fopen` is refused leaves the
  files as a kill before the save does, with the program still running. A `realloc` that shrinks the
  list of children (`inode.c:231` and `265`) is taken to succeed.
- A table that is shorter than its file, as `fwrite` may leave it: in `MasterFileTable` a file of the
  table is whole or empty, in `Allocation` it may also be cut short (`intact`).
- In `D2Lookup` an answer that is acknowledged away by damage (`d1_udp.c:233`): the run is about a
  net that damages nothing.
- The checksum of D1, which finds every damage to a data packet in the model; that of ACKs, which the
  code does not compare. Reordering on the network.
- The servers, which are binaries: their rules are the least the clients rely on.
- `scheduler.c` (does not compile), `interfaces.c`, `lenkeliste.c`, the demos of UDP and TCP, the C
  exercises: input and output, or a fixed sequence of statements, with no state that could go wrong.

## 7. Plan

The order is by importance: the disk first, then the protocols, then the exercises. Done are the
modules of section 2. To come:

1. *Proofs.* Of the safety properties that a run checks, `DeletesExactly` is left: section 4 says
   why under "Only model-checked".
2. *Modules.* None is left that the code would bear: what section 6 lists stays out.
