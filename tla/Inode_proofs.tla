----------------------------- MODULE Inode_proofs -----------------------------
(*****************************************************************************)
(* Proofs about Inode for disks, trees and files of any size.  The first     *)
(* part is about types and the block allocation table, the second about the  *)
(* tree that inode.c keeps in memory: the names in a directory differ, ids   *)
(* are not used again, the inodes form one tree, delete removes the inode it *)
(* is given, and all calls together implement the file system of FileSystem. *)
(*                                                                           *)
(* The inductive invariant of the first part, IInv, is TypeOK,               *)
(* BatMatchesTree and two facts they need of each other: LinksOK, the part   *)
(* of the shape of the tree without which unlinking an inode could leave a   *)
(* dangling pointer or free the root, and NewestId, which keeps              *)
(* num_inode_ids from going below zero in a roll back.                       *)
(*                                                                           *)
(* The inductive invariant of the second part, TreeInv, adds to it what the  *)
(* calls in progress know of their inode (CreatedOK, DeletedOK), and that    *)
(* blocks which are lost are not found again (LeakedForGood).  Three of the  *)
(* theorems assume CallersFind: inode.h:64 and 72 promise nothing for an     *)
(* inode that is not a child of the parent, and a program that finds what it *)
(* deletes by its name, as del_fs.c does, can pass no other one.             *)
(*****************************************************************************)
EXTENDS Inode, FiniteSetTheorems, TLAPS

\* Every child is an inode in use, not the directory itself, not the root and
\* not the inode that is being created; it is in one place; and no call
\* creates or deletes the root.
LinksOK ==
    /\ \A p \in DOMAIN inode : \A i \in DOMAIN inode[p].children :
          /\ inode[p].children[i] \in DOMAIN inode \ {root}
          /\ inode[p].children[i] # p
          /\ ~Creating(inode[p].children[i])
    /\ \A p, q \in DOMAIN inode :
          \A i \in DOMAIN inode[p].children, j \in DOMAIN inode[q].children :
             inode[p].children[i] = inode[q].children[j] => p = q /\ i = j
    /\ pc # "idle" => child # root

NewestId == \A p \in DOMAIN inode : Creating(p) => num_inode_ids > 0

IInv == TypeOK /\ LinksOK /\ NewestId /\ BatMatchesTree

-------------------------------------------------------------------------------
(* The operators on the table and on the heap *)

\* A byte that is marked was 0, so there is a table, and no other byte changes.
LEMMA MarkedTable ==
    ASSUME NEW t \in Table \cup {EmptyFile}, NEW b \in Blocks, t[b] = 0
    PROVE  /\ Marked(t, b) \in Table
           /\ \A c \in Blocks : Marked(t, b)[c] = IF c = b THEN 1 ELSE t[c]
<1>1. t \in Table
  BY DEF EmptyFile, NoByte
<1>2. QED
  BY <1>1 DEF Marked, Table

\* A byte that is cleared was 1, or nothing changes, not even in an empty file.
LEMMA ClearedTable ==
    ASSUME NEW t \in Table \cup {EmptyFile}, NEW b \in Blocks
    PROVE  /\ Cleared(t, b) \in Table \cup {EmptyFile}
           /\ \A c \in Blocks : Cleared(t, b)[c] = IF c = b /\ t[b] = 1 THEN 0 ELSE t[c]
<1>1. CASE t \in Table
  BY <1>1 DEF Cleared, Table
<1>2. CASE t = EmptyFile
  <2>1. t[b] = 2 /\ Cleared(t, b) = t
    BY <1>2 DEF Cleared, EmptyFile, NoByte
  <2>2. QED
    BY <1>2, <2>1
<1>3. QED
  BY <1>1, <1>2

\* Appending keeps what a sequence has and puts one element behind it.
LEMMA AppendEffect ==
    ASSUME NEW S, NEW s \in Seq(S), NEW e \in S
    PROVE  /\ Append(s, e) \in Seq(S)
           /\ Len(Append(s, e)) = Len(s) + 1
           /\ DOMAIN Append(s, e) = DOMAIN s \cup {Len(s) + 1}
           /\ \A i \in DOMAIN s : Append(s, e)[i] = s[i]
           /\ Append(s, e)[Len(s) + 1] = e
           /\ Len(s) + 1 \notin DOMAIN s
OBVIOUS

\* Unlinking entry i keeps the order of the others and leaves no gap.
LEMMA UnlinkedEffect ==
    ASSUME NEW s \in Seq(Ptr), NEW i \in DOMAIN s
    PROVE  /\ Unlinked(s, i) \in Seq(Ptr)
           /\ DOMAIN Unlinked(s, i) = 1 .. Len(s) - 1
           /\ \A j \in 1 .. Len(s) - 1 :
                Unlinked(s, i)[j] = s[IF j < i THEN j ELSE j + 1]
<1>1. Len(s) \in Nat /\ DOMAIN s = 1 .. Len(s) /\ i \in 1 .. Len(s)
  OBVIOUS
<1>2. Unlinked(s, i) \in [1 .. Len(s) - 1 -> Ptr]
  BY <1>1 DEF Unlinked
<1>3. Len(s) - 1 \in Nat
  BY <1>1
<1>4. Unlinked(s, i) \in Seq(Ptr)
  BY <1>2, <1>3
<1>5. QED
  BY <1>1, <1>4 DEF Unlinked

-------------------------------------------------------------------------------
(* What most steps leave alone *)

\* A step that changes no block table keeps the agreement if the inodes it
\* adds or drops hold no block, and the others hold what they held.
LEMMA SameHolders ==
    ASSUME BatMatchesTree, UNCHANGED <<bat, suspect>>,
           \A p \in DOMAIN inode' :
              \/ Unfreed(p)' = {}
              \/ p \in DOMAIN inode /\ Unfreed(p)' = Unfreed(p)
                                    /\ inode'[p].blocks = inode[p].blocks,
           \A p \in DOMAIN inode :
              \/ Unfreed(p) = {}
              \/ p \in DOMAIN inode' /\ Unfreed(p)' = Unfreed(p)
                                     /\ inode'[p].blocks = inode[p].blocks
    PROVE  BatMatchesTree'
<1> USE DEF BatMatchesTree
<1>1. HeldBlocksAreMarked'
  BY DEF HeldBlocksAreMarked
<1>2. NoBlockHeldTwice'
  BY DEF NoBlockHeldTwice
<1>3. MarkedBlocksAreHeld'
  BY DEF MarkedBlocksAreHeld
<1>4. QED
  BY <1>1, <1>2, <1>3

\* A step keeps the shape of the tree if inodes it adds have no children, the
\* others keep theirs, and what it drops or works on is in no directory.
LEMMA SameLinks ==
    ASSUME LinksOK,
           \A p \in DOMAIN inode' :
              \/ DOMAIN inode'[p].children = {}
              \/ p \in DOMAIN inode /\ inode'[p].children = inode[p].children,
           \A p \in DOMAIN inode : \A i \in DOMAIN inode[p].children :
              /\ inode[p].children[i] \in DOMAIN inode' \ {root'}
              /\ pc' \in {"allocating", "rolling_back"} =>
                    inode[p].children[i] # child',
           (pc # "idle" => child # root)'
    PROVE  LinksOK'
<1>1. \A p \in DOMAIN inode' : \A i \in DOMAIN inode'[p].children :
          /\ p \in DOMAIN inode /\ i \in DOMAIN inode[p].children
          /\ inode'[p].children[i] = inode[p].children[i]
  OBVIOUS
<1>2. QED
  BY <1>1 DEF LinksOK, Creating

\* So does adding one inode to one directory, if it was in none before.
LEMMA AddedLinks ==
    ASSUME LinksOK, NEW p \in DOMAIN inode, NEW new \in Ptr, new # p, new # root,
           DOMAIN inode' = DOMAIN inode \cup {new}, root' = root,
           inode[p].children \in Seq(Ptr),
           inode'[p].children = Append(inode[p].children, new),
           \A q \in DOMAIN inode' : q # p =>
              \/ DOMAIN inode'[q].children = {}
              \/ q \in DOMAIN inode /\ inode'[q].children = inode[q].children,
           \A q \in DOMAIN inode : \A i \in DOMAIN inode[q].children :
              inode[q].children[i] # new,
           pc' = "idle"
    PROVE  LinksOK'
<1> DEFINE len == Len(inode[p].children)
<1>1. /\ DOMAIN inode'[p].children = DOMAIN inode[p].children \cup {len + 1}
      /\ \A i \in DOMAIN inode[p].children :
            inode'[p].children[i] = inode[p].children[i]
      /\ inode'[p].children[len + 1] = new
      /\ len + 1 \notin DOMAIN inode[p].children
  BY AppendEffect
<1> HIDE DEF len
<1>2. \A q \in DOMAIN inode' : \A i \in DOMAIN inode'[q].children :
          \/ q = p /\ i = len + 1 /\ inode'[q].children[i] = new
          \/ /\ q \in DOMAIN inode /\ i \in DOMAIN inode[q].children
             /\ inode'[q].children[i] = inode[q].children[i]
             /\ inode'[q].children[i] # new
  <2> SUFFICES ASSUME NEW q \in DOMAIN inode', NEW i \in DOMAIN inode'[q].children
               PROVE  \/ q = p /\ i = len + 1 /\ inode'[q].children[i] = new
                      \/ /\ q \in DOMAIN inode /\ i \in DOMAIN inode[q].children
                         /\ inode'[q].children[i] = inode[q].children[i]
                         /\ inode'[q].children[i] # new
      OBVIOUS
  <2>1. CASE q = p
    BY <2>1, <1>1
  <2>2. CASE q # p
    BY <2>2
  <2>3. QED
    BY <2>1, <2>2
<1>3. \A q \in DOMAIN inode' : \A i \in DOMAIN inode'[q].children :
          inode'[q].children[i] \in DOMAIN inode' \ {root'} /\ inode'[q].children[i] # q
  BY <1>2 DEF LinksOK
<1>4. \A q, r \in DOMAIN inode' :
          \A i \in DOMAIN inode'[q].children, j \in DOMAIN inode'[r].children :
             inode'[q].children[i] = inode'[r].children[j] => q = r /\ i = j
  BY <1>2 DEF LinksOK
<1>5. QED
  BY <1>3, <1>4 DEF LinksOK, Creating

\* Releasing an inode whose blocks have all been freed keeps the agreement.
LEMMA DropChildHolders ==
    ASSUME TypeOK, BatMatchesTree, UNCHANGED <<bat, suspect>>,
           pc \in {"rolling_back", "freeing"}, ~BlocksToFree, child \in DOMAIN inode,
           DOMAIN inode' = DOMAIN inode \ {child},
           \A q \in DOMAIN inode' : inode'[q].blocks = inode[q].blocks,
           pc' = "idle"
    PROVE  BatMatchesTree'
<1>1. Unfreed(child) = {}
  <2>1. inode[child].blocks \in Seq(Blocks) /\ freed \in Nat
    BY DEF TypeOK, InodeRecord
  <2>2. QED
    BY <2>1 DEF Unfreed, BlocksToFree
<1>2. \A q \in DOMAIN inode' : q # child /\ Unfreed(q)' = Unfreed(q)
  BY DEF Unfreed
<1>3. QED
  BY <1>1, <1>2, SameHolders

\* A new inode, of either kind, is a record of the right type without links.
LEMMA NewRecords ==
    ASSUME NEW id \in Nat, NEW name \in Names
    PROVE  /\ NewDirectory(id, name) \in InodeRecord
           /\ DOMAIN NewDirectory(id, name).children = {}
           /\ DOMAIN NewDirectory(id, name).blocks = {}
           /\ NewDirectory(id, name).is_directory
           /\ \A size \in Sizes :
                /\ NewFile(id, name, size) \in InodeRecord
                /\ DOMAIN NewFile(id, name, size).children = {}
                /\ DOMAIN NewFile(id, name, size).blocks = {}
BY DEF NewDirectory, NewFile, InodeRecord

\* With adds or replaces one inode, Without drops one.
LEMMA HeapEffect ==
    ASSUME TypeOK, NEW p \in Ptr, NEW record \in InodeRecord
    PROVE  /\ DOMAIN With(p, record) = DOMAIN inode \cup {p}
           /\ With(p, record)[p] = record
           /\ \A q \in DOMAIN inode : q # p => With(p, record)[q] = inode[q]
           /\ With(p, record) \in [DOMAIN inode \cup {p} -> InodeRecord]
           /\ DOMAIN Without(p) = DOMAIN inode \ {p}
           /\ \A q \in DOMAIN inode : q # p => Without(p)[q] = inode[q]
           /\ Without(p) \in [DOMAIN inode \ {p} -> InodeRecord]
BY DEF With, Without, TypeOK

\* Adding an inode to a parent appends it there and changes no other inode.
LEMMA AddEffect ==
    ASSUME TypeOK, NEW p \in DOMAIN inode, NEW new \in Ptr \ {p},
           NEW record \in InodeRecord, AddInodeToParent(p, new, record)
    PROVE  /\ DOMAIN inode' = DOMAIN inode \cup {new}
           /\ inode' \in [DOMAIN inode' -> InodeRecord]
           /\ inode'[new] = record
           /\ \A q \in DOMAIN inode : q # p /\ q # new => inode'[q] = inode[q]
           /\ inode'[p] = [inode[p] EXCEPT !.children = Append(@, new)]
           /\ inode[p].children \in Seq(Ptr)
<1>1. p \in Ptr /\ inode[p] \in InodeRecord /\ inode[p].children \in Seq(Ptr)
  BY DEF TypeOK, InodeRecord
<1> DEFINE longer == Append(inode[p].children, new)
<1>2. longer \in Seq(Ptr)
  BY <1>1
<1>3. [inode[p] EXCEPT !.children = longer] \in InodeRecord
  BY <1>1, <1>2 DEF InodeRecord
<1>4. /\ DOMAIN With(new, record) = DOMAIN inode \cup {new}
      /\ With(new, record)[new] = record
      /\ \A q \in DOMAIN inode : q # new => With(new, record)[q] = inode[q]
      /\ With(new, record) \in [DOMAIN inode \cup {new} -> InodeRecord]
  BY HeapEffect
<1>5. inode' = [With(new, record) EXCEPT ![p] = [inode[p] EXCEPT !.children = longer]]
  BY <1>4 DEF AddInodeToParent
<1>6. QED
  BY <1>1, <1>3, <1>4, <1>5

-------------------------------------------------------------------------------
(* The invariant holds initially *)

\* A formatted disk and no inodes agree.
LEMMA InitIInv == Init => IInv
<1> SUFFICES ASSUME Init PROVE IInv
    OBVIOUS
<1>1. TypeOK
  BY NumBlocksAssumption, InodeAssumption
     DEF Init, TypeOK, Table, FormattedTable, Blocks
<1>2. LinksOK /\ NewestId
  BY DEF Init, LinksOK, NewestId
<1>3. BatMatchesTree
  BY DEF Init, BatMatchesTree, HeldBlocksAreMarked, NoBlockHeldTwice,
         MarkedBlocksAreHeld, FormattedTable
<1>4. QED
  BY <1>1, <1>2, <1>3 DEF IInv

-------------------------------------------------------------------------------
(* create_dir and create_file keep it *)

LEMMA CreateRootInv == IInv /\ CreateRoot => IInv'
<1> SUFFICES ASSUME IInv, CreateRoot PROVE IInv'
    OBVIOUS
<1> USE DEF IInv
<1>1. PICK new \in Ptr \ DOMAIN inode :
          /\ inode' = With(new, NewDirectory(num_inode_ids, RootName))
          /\ root' = new
  BY DEF CreateRoot
<1>2. /\ pc = "idle" /\ root = NULL /\ num_inode_ids < MaxInodeIds
      /\ num_inode_ids' = num_inode_ids + 1
      /\ UNCHANGED <<bat, pc, parent, node, child, freed, suspect>>
  BY DEF CreateRoot
<1>3. num_inode_ids \in Nat /\ RootName \in Names
  BY InodeAssumption DEF TypeOK
<1> DEFINE record == NewDirectory(num_inode_ids, RootName)
<1>a. /\ record \in InodeRecord
      /\ DOMAIN record.children = {} /\ DOMAIN record.blocks = {}
      /\ inode' = With(new, record)
  BY <1>1, <1>3, NewRecords
<1> HIDE DEF record
<1>4. /\ DOMAIN inode' = DOMAIN inode \cup {new}
      /\ \A q \in DOMAIN inode : q # new => inode'[q] = inode[q]
      /\ inode' \in [DOMAIN inode' -> InodeRecord]
      /\ DOMAIN inode'[new].children = {} /\ DOMAIN inode'[new].blocks = {}
  BY <1>a DEF With, TypeOK
<1>5. TypeOK'
  BY <1>1, <1>2, <1>4, InodeAssumption DEF TypeOK
<1>6. LinksOK'
  <2>1. \A p \in DOMAIN inode' :
            \/ DOMAIN inode'[p].children = {}
            \/ p \in DOMAIN inode /\ inode'[p].children = inode[p].children
    BY <1>4
  <2>2. \A p \in DOMAIN inode : \A i \in DOMAIN inode[p].children :
            /\ inode[p].children[i] \in DOMAIN inode' \ {root'}
            /\ pc' \in {"allocating", "rolling_back"} =>
                  inode[p].children[i] # child'
    BY <1>1, <1>2, <1>4 DEF LinksOK
  <2>3. QED
    BY <1>2, <2>1, <2>2, SameLinks
<1>7. NewestId'
  BY <1>2 DEF NewestId, Creating
<1>8. BatMatchesTree'
  <2>1. Unfreed(new)' = {}
    BY <1>4 DEF Unfreed
  <2>2. \A p \in DOMAIN inode : Unfreed(p)' = Unfreed(p)
    BY <1>2, <1>4 DEF Unfreed
  <2>3. QED
    BY <1>2, <1>4, <2>1, <2>2, SameHolders
<1>9. QED
  BY <1>5, <1>6, <1>7, <1>8

LEMMA CreateDirInv ==
    ASSUME IInv, NEW p \in Directories, NEW name \in Names, CreateDir(p, name)
    PROVE  IInv'
<1> USE DEF IInv
<1>1. PICK new \in Ptr \ DOMAIN inode :
          AddInodeToParent(p, new, NewDirectory(num_inode_ids, name))
  BY DEF CreateDir
<1>2. /\ pc = "idle" /\ num_inode_ids < MaxInodeIds
      /\ num_inode_ids' = num_inode_ids + 1
      /\ UNCHANGED <<bat, root, pc, parent, node, child, freed, suspect>>
  BY DEF CreateDir
<1>3. num_inode_ids \in Nat /\ p \in DOMAIN inode /\ p # new
  BY DEF TypeOK, Directories
<1> DEFINE record == NewDirectory(num_inode_ids, name)
<1>4. /\ record \in InodeRecord
      /\ DOMAIN record.children = {} /\ DOMAIN record.blocks = {}
      /\ AddInodeToParent(p, new, record)
  BY <1>1, <1>3, NewRecords
<1> HIDE DEF record
<1>5. /\ DOMAIN inode' = DOMAIN inode \cup {new}
      /\ inode' \in [DOMAIN inode' -> InodeRecord]
  BY <1>3, <1>4, AddEffect
<1>6. /\ inode'[new] = record
      /\ \A q \in DOMAIN inode : q # p /\ q # new => inode'[q] = inode[q]
  BY <1>3, <1>4, AddEffect
<1>b. /\ inode[p].children \in Seq(Ptr)
      /\ inode'[p].blocks = inode[p].blocks
      /\ inode'[p].children = Append(inode[p].children, new)
  <2>1. /\ inode'[p] = [inode[p] EXCEPT !.children = Append(@, new)]
        /\ inode[p].children \in Seq(Ptr)
    BY <1>3, <1>4, AddEffect
  <2>2. QED
    BY <1>3, <2>1 DEF TypeOK, InodeRecord
<1>7. TypeOK'
  BY <1>2, <1>5, InodeAssumption DEF TypeOK
<1>8. LinksOK'
  <2>1. new \notin DOMAIN inode /\ new # root /\ new \in Ptr /\ p # new
    BY <1>3, InodeAssumption DEF TypeOK
  <2>2. \A q \in DOMAIN inode' : q # p =>
              \/ DOMAIN inode'[q].children = {}
              \/ q \in DOMAIN inode /\ inode'[q].children = inode[q].children
    BY <1>4, <1>5, <1>6
  <2>3. \A q \in DOMAIN inode : \A i \in DOMAIN inode[q].children :
              inode[q].children[i] # new
    BY <2>1 DEF LinksOK
  <2>4. QED
    BY <1>2, <1>3, <1>5, <1>6, <1>b, <2>1, <2>2, <2>3, AddedLinks
<1>9. NewestId'
  BY <1>2 DEF NewestId, Creating
<1>10. BatMatchesTree'
  <2>1. Unfreed(new)' = {}
    BY <1>4, <1>6 DEF Unfreed
  <2>2. \A q \in DOMAIN inode : inode'[q].blocks = inode[q].blocks
    BY <1>6, <1>b
  <2>3. \A q \in DOMAIN inode : Unfreed(q)' = Unfreed(q)
    BY <1>2, <2>2 DEF Unfreed
  <2>4. QED
    BY <1>2, <1>5, <2>1, <2>2, <2>3, SameHolders
<1>11. QED
  BY <1>7, <1>8, <1>9, <1>10

LEMMA CreateFileInv ==
    ASSUME IInv, NEW p \in Directories, NEW name \in Names, NEW size \in Sizes,
           CreateFile(p, name, size)
    PROVE  IInv'
<1> USE DEF IInv
<1>1. PICK new \in Ptr \ DOMAIN inode :
          /\ inode' = With(new, NewFile(num_inode_ids, name, size))
          /\ child' = new
  BY DEF CreateFile
<1>2. /\ pc = "idle" /\ num_inode_ids < MaxInodeIds
      /\ num_inode_ids' = num_inode_ids + 1
      /\ pc' = "allocating" /\ parent' = p
      /\ UNCHANGED <<bat, root, node, freed, suspect>>
  BY DEF CreateFile
<1>3. num_inode_ids \in Nat /\ p \in DOMAIN inode /\ p # new /\ inode[p].is_directory
  BY DEF TypeOK, Directories
<1> DEFINE record == NewFile(num_inode_ids, name, size)
<1>4. /\ record \in InodeRecord
      /\ DOMAIN record.children = {} /\ DOMAIN record.blocks = {}
      /\ inode' = With(new, record)
  BY <1>1, <1>3, NewRecords
<1> HIDE DEF record
<1>5. /\ DOMAIN inode' = DOMAIN inode \cup {new}
      /\ \A q \in DOMAIN inode : q # new => inode'[q] = inode[q]
      /\ inode' \in [DOMAIN inode' -> InodeRecord]
      /\ DOMAIN inode'[new].children = {} /\ DOMAIN inode'[new].blocks = {}
  BY <1>4 DEF With, TypeOK
<1>6. new # root
  BY InodeAssumption DEF TypeOK
<1>7. TypeOK'
  <2>1. p \in Directories'
    BY <1>3, <1>5 DEF Directories
  <2>2. QED
    BY <1>1, <1>2, <1>3, <1>5, <2>1, InodeAssumption DEF TypeOK
<1>8. LinksOK'
  <2>1. \A q \in DOMAIN inode' :
            \/ DOMAIN inode'[q].children = {}
            \/ q \in DOMAIN inode /\ inode'[q].children = inode[q].children
    BY <1>5
  <2>2. \A q \in DOMAIN inode : \A i \in DOMAIN inode[q].children :
            /\ inode[q].children[i] \in DOMAIN inode' \ {root'}
            /\ pc' \in {"allocating", "rolling_back"} =>
                  inode[q].children[i] # child'
    BY <1>1, <1>2, <1>5 DEF LinksOK
  <2>3. QED
    BY <1>1, <1>2, <1>6, <2>1, <2>2, SameLinks
<1>9. NewestId'
  BY <1>2, <1>3 DEF NewestId
<1>10. BatMatchesTree'
  <2>1. Unfreed(new)' = {}
    BY <1>5 DEF Unfreed
  <2>2. \A q \in DOMAIN inode : Unfreed(q)' = Unfreed(q)
    BY <1>2, <1>5 DEF Unfreed
  <2>3. QED
    BY <1>2, <1>5, <2>1, <2>2, SameHolders
<1>11. QED
  BY <1>7, <1>8, <1>9, <1>10

\* The step that hands a block to the file: only an unmarked block is taken,
\* and by the invariant nobody has it.
LEMMA AllocateBlockInv == IInv /\ AllocateBlock => IInv'
<1> SUFFICES ASSUME IInv, AllocateBlock PROVE IInv'
    OBVIOUS
<1> USE DEF IInv
<1>1. PICK b \in Blocks :
          /\ bat[b] = 0
          /\ bat' = [bat EXCEPT ![b] = 1]
          /\ inode' = [inode EXCEPT ![child].blocks = Append(@, b)]
  BY DEF AllocateBlock, IsFirstUnused, Marked
<1>2. /\ pc = "allocating"
      /\ UNCHANGED <<root, num_inode_ids, pc, parent, node, child, freed, suspect>>
  BY DEF AllocateBlock
<1>3. /\ child \in DOMAIN inode /\ inode[child] \in InodeRecord
      /\ inode[child].blocks \in Seq(Blocks)
  BY <1>2 DEF TypeOK, InodeRecord
<1> DEFINE longer == Append(inode[child].blocks, b)
           len == Len(inode[child].blocks)
<1>4. /\ longer \in Seq(Blocks)
      /\ DOMAIN longer = DOMAIN inode[child].blocks \cup {len + 1}
      /\ \A i \in DOMAIN inode[child].blocks : longer[i] = inode[child].blocks[i]
      /\ longer[len + 1] = b
      /\ len + 1 \notin DOMAIN inode[child].blocks
  BY <1>3, AppendEffect
<1>5. [inode[child] EXCEPT !.blocks = longer] \in InodeRecord
  BY <1>3, <1>4 DEF InodeRecord
<1>6. inode' = [inode EXCEPT ![child] = [inode[child] EXCEPT !.blocks = longer]]
  BY <1>1
<1>7. /\ DOMAIN inode' = DOMAIN inode
      /\ inode' \in [DOMAIN inode' -> InodeRecord]
      /\ inode'[child].blocks = longer
      /\ inode'[child].children = inode[child].children
      /\ inode'[child].is_directory = inode[child].is_directory
      /\ \A q \in DOMAIN inode : q # child => inode'[q] = inode[q]
  BY <1>3, <1>5, <1>6 DEF TypeOK, InodeRecord
<1> HIDE DEF longer, len
<1>8. TypeOK'
  <2>1. Directories' = Directories
    BY <1>7 DEF Directories
  <2>2. bat' \in Table
    BY <1>1, MarkedTable DEF TypeOK, Marked
  <2>3. QED
    BY <1>2, <1>7, <2>1, <2>2 DEF TypeOK
<1>9. LinksOK'
  <2>1. \A q \in DOMAIN inode' : q \in DOMAIN inode /\ inode'[q].children = inode[q].children
    BY <1>7
  <2>2. QED
    BY <1>2, <1>7, <2>1 DEF LinksOK, Creating
<1>10. NewestId'
  BY <1>2, <1>7 DEF NewestId, Creating
<1>11. BatMatchesTree'
  <2>1. \A q \in DOMAIN inode : Unfreed(q) = DOMAIN inode[q].blocks
    BY <1>2 DEF Unfreed
  <2>2. \A q \in DOMAIN inode' : Unfreed(q)' = DOMAIN inode'[q].blocks
    BY <1>2 DEF Unfreed
  <2>3. \A q \in DOMAIN inode' : \A i \in Unfreed(q)' :
            \/ q = child /\ i = len + 1 /\ inode'[q].blocks[i] = b
            \/ i \in Unfreed(q) /\ inode'[q].blocks[i] = inode[q].blocks[i]
    BY <1>4, <1>7, <2>1, <2>2
  <2>4. \A q \in DOMAIN inode : \A i \in Unfreed(q) :
            i \in Unfreed(q)' /\ inode'[q].blocks[i] = inode[q].blocks[i]
    BY <1>4, <1>7, <2>1, <2>2
  <2>5. len + 1 \in Unfreed(child)' /\ inode'[child].blocks[len + 1] = b
    BY <1>2, <1>3, <1>4, <1>7, <2>2
  <2>6. \A q \in DOMAIN inode : \A i \in Unfreed(q) :
            inode[q].blocks[i] = b => b \in suspect
    BY <1>1 DEF BatMatchesTree, HeldBlocksAreMarked
  <2>7. \A c \in Blocks : bat'[c] = IF c = b THEN 1 ELSE bat[c]
    <3>1. bat' = Marked(bat, b)
      BY <1>1 DEF Marked
    <3>2. \A c \in Blocks : Marked(bat, b)[c] = IF c = b THEN 1 ELSE bat[c]
      BY ONLY <1>1, TypeOK, b \in Blocks, MarkedTable DEF TypeOK
    <3>3. QED
      BY <3>1, <3>2
  <2>8. \A q \in DOMAIN inode : \A i \in Unfreed(q) : inode[q].blocks[i] \in Blocks
    <3> SUFFICES ASSUME NEW q \in DOMAIN inode, NEW i \in Unfreed(q)
                 PROVE  inode[q].blocks[i] \in Blocks
        OBVIOUS
    <3>1. inode[q].blocks \in Seq(Blocks)
      BY DEF TypeOK, InodeRecord
    <3>2. i \in DOMAIN inode[q].blocks
      BY <2>1
    <3>3. QED
      BY <3>1, <3>2
  <2>9. HeldBlocksAreMarked'
    BY <1>2, <1>7, <2>3, <2>7, <2>8 DEF BatMatchesTree, HeldBlocksAreMarked
  <2>10. NoBlockHeldTwice'
    BY <1>2, <1>7, <2>3, <2>6 DEF BatMatchesTree, NoBlockHeldTwice
  <2>11. MarkedBlocksAreHeld'
    <3> SUFFICES ASSUME NEW c \in Blocks, c \notin suspect, bat'[c] = 1
                 PROVE  \E q \in DOMAIN inode' : \E i \in Unfreed(q)' : inode'[q].blocks[i] = c
        BY <1>2 DEF MarkedBlocksAreHeld, Blocks
    <3>1. CASE c = b
      BY <3>1, <1>2, <1>3, <1>7, <2>5
    <3>2. CASE c # b
      <4>1. bat[c] = 1 /\ c \in Blocks \ suspect
        BY <3>2, <2>7
      <4>2. QED
        BY <4>1, <1>7, <2>4 DEF BatMatchesTree, MarkedBlocksAreHeld
    <3>3. QED
      BY <3>1, <3>2
  <2>12. QED
    BY <2>9, <2>10, <2>11 DEF BatMatchesTree
<1>12. QED
  BY <1>8, <1>9, <1>10, <1>11

LEMMA AllocateFailsInv == IInv /\ AllocateFails => IInv'
<1> SUFFICES ASSUME IInv, AllocateFails PROVE IInv'
    OBVIOUS
<1> USE DEF IInv
<1>1. /\ pc = "allocating" /\ pc' = "rolling_back"
      /\ UNCHANGED <<bat, inode, root, num_inode_ids, parent, node, child, freed, suspect>>
  BY DEF AllocateFails
<1>2. TypeOK'
  BY <1>1 DEF TypeOK, Directories
<1>3. LinksOK' /\ NewestId'
  BY <1>1 DEF LinksOK, NewestId, Creating
<1>4. BatMatchesTree'
  <2>1. \A p \in DOMAIN inode : \A i \in DOMAIN inode[p].blocks : i \in Nat /\ i > freed
    BY <1>1 DEF TypeOK, InodeRecord
  <2>2. \A p \in DOMAIN inode : Unfreed(p)' = Unfreed(p)
    BY <1>1, <2>1 DEF Unfreed
  <2>3. QED
    BY <1>1, <2>2, SameHolders
<1>5. QED
  BY <1>2, <1>3, <1>4

LEMMA RollBackDoneInv == IInv /\ RollBackDone => IInv'
<1> SUFFICES ASSUME IInv, RollBackDone PROVE IInv'
    OBVIOUS
<1> USE DEF IInv
<1>1. /\ pc = "rolling_back" /\ ~BlocksToFree
      /\ inode' = Without(child)
      /\ num_inode_ids' = num_inode_ids - 1
      /\ pc' = "idle" /\ parent' = NULL /\ node' = NULL /\ child' = NULL /\ freed' = 0
      /\ UNCHANGED <<bat, root, suspect>>
  BY DEF RollBackDone, Return
<1>2. child \in DOMAIN inode /\ num_inode_ids > 0 /\ child # root
  BY <1>1 DEF TypeOK, NewestId, Creating, LinksOK
<1>3. /\ DOMAIN inode' = DOMAIN inode \ {child}
      /\ inode' \in [DOMAIN inode' -> InodeRecord]
      /\ \A q \in DOMAIN inode' : inode'[q] = inode[q]
  BY <1>1 DEF Without, TypeOK
<1>4. TypeOK'
  BY <1>1, <1>2, <1>3, InodeAssumption DEF TypeOK
<1>5. LinksOK'
  BY <1>1, <1>2, <1>3 DEF LinksOK, Creating
<1>6. NewestId'
  BY <1>1 DEF NewestId, Creating
<1>7. BatMatchesTree'
  BY <1>1, <1>2, <1>3, DropChildHolders
<1>8. QED
  BY <1>4, <1>5, <1>6, <1>7

LEMMA LinkFileInv == IInv /\ LinkFile => IInv'
<1> SUFFICES ASSUME IInv, LinkFile PROVE IInv'
    OBVIOUS
<1> USE DEF IInv
<1>1. /\ pc = "allocating"
      /\ AddInodeToParent(parent, child, inode[child])
      /\ pc' = "idle" /\ parent' = NULL /\ node' = NULL /\ child' = NULL /\ freed' = 0
      /\ UNCHANGED <<bat, root, num_inode_ids, suspect>>
  BY DEF LinkFile, Return
<1>2. /\ parent \in DOMAIN inode /\ child \in DOMAIN inode /\ child # parent
      /\ child \in Ptr \ {parent} /\ child # root /\ inode[child] \in InodeRecord
  BY <1>1 DEF TypeOK, LinksOK, Directories
<1> DEFINE record == inode[child]
<1>3. TypeOK /\ record \in InodeRecord /\ AddInodeToParent(parent, child, record)
  BY <1>1, <1>2
<1>4. /\ DOMAIN inode' = DOMAIN inode
      /\ inode' \in [DOMAIN inode' -> InodeRecord]
      /\ \A q \in DOMAIN inode : q # parent => inode'[q] = inode[q]
  <2> HIDE DEF record
  <2>1. /\ DOMAIN inode' = DOMAIN inode \cup {child}
        /\ inode' \in [DOMAIN inode' -> InodeRecord]
    BY <1>2, <1>3, AddEffect
  <2>2. inode'[child] = record
    BY <1>2, <1>3, AddEffect
  <2>3. \A q \in DOMAIN inode : q # parent /\ q # child => inode'[q] = inode[q]
    BY <1>2, <1>3 DEF AddInodeToParent, With, TypeOK
  <2>4. QED
    BY <2>1, <2>2, <2>3, <1>2 DEF record
<1>5. /\ inode[parent].children \in Seq(Ptr)
      /\ inode'[parent].blocks = inode[parent].blocks
      /\ inode'[parent].children = Append(inode[parent].children, child)
  <2> HIDE DEF record
  <2>1. /\ inode'[parent] = [inode[parent] EXCEPT !.children = Append(@, child)]
        /\ inode[parent].children \in Seq(Ptr)
    BY <1>2, <1>3, AddEffect
  <2>2. QED
    BY <1>2, <2>1 DEF TypeOK, InodeRecord
<1> HIDE DEF record
<1>6. TypeOK'
  BY <1>1, <1>4 DEF TypeOK
<1>7. LinksOK'
  <2>1. \A q \in DOMAIN inode' : q # parent =>
              \/ DOMAIN inode'[q].children = {}
              \/ q \in DOMAIN inode /\ inode'[q].children = inode[q].children
    BY <1>4
  <2>2. \A q \in DOMAIN inode : \A i \in DOMAIN inode[q].children :
              inode[q].children[i] # child
    BY <1>1 DEF LinksOK, Creating
  <2>3. DOMAIN inode' = DOMAIN inode \cup {child}
    BY <1>2, <1>4
  <2>4. QED
    BY <1>1, <1>2, <1>5, <2>1, <2>2, <2>3, AddedLinks
<1>8. NewestId'
  BY <1>1 DEF NewestId, Creating
<1>9. BatMatchesTree'
  <2>1. \A q \in DOMAIN inode : inode'[q].blocks = inode[q].blocks
    BY <1>4, <1>5
  <2>2. \A q \in DOMAIN inode : Unfreed(q)' = Unfreed(q)
    BY <1>1, <2>1 DEF Unfreed
  <2>3. QED
    BY <1>1, <1>4, <2>1, <2>2, SameHolders
<1>10. QED
  BY <1>6, <1>7, <1>8, <1>9

\* The blocks of the inode that is released become suspect.
LEMMA LinkFailsInv == IInv /\ LinkFails => IInv'
<1> SUFFICES ASSUME IInv, LinkFails PROVE IInv'
    OBVIOUS
<1> USE DEF IInv
<1>1. /\ pc = "allocating"
      /\ inode' = Without(child)
      /\ num_inode_ids' = num_inode_ids - 1
      /\ suspect' = suspect \cup BlocksOf(child)
      /\ pc' = "idle" /\ parent' = NULL /\ node' = NULL /\ child' = NULL /\ freed' = 0
      /\ UNCHANGED <<bat, root>>
  BY DEF LinkFails, Return
<1>2. child \in DOMAIN inode /\ num_inode_ids > 0 /\ child # root
  BY <1>1 DEF TypeOK, NewestId, Creating, LinksOK
<1>3. /\ DOMAIN inode' = DOMAIN inode \ {child}
      /\ inode' \in [DOMAIN inode' -> InodeRecord]
      /\ \A q \in DOMAIN inode' : inode'[q] = inode[q]
  BY <1>1 DEF Without, TypeOK
<1>4. BlocksOf(child) \subseteq Blocks
  <2>1. inode[child].blocks \in Seq(Blocks)
    BY <1>2 DEF TypeOK, InodeRecord
  <2>2. QED
    BY <2>1 DEF BlocksOf
<1>5. TypeOK'
  BY <1>1, <1>2, <1>3, <1>4, InodeAssumption DEF TypeOK
<1>6. LinksOK'
  BY <1>1, <1>2, <1>3 DEF LinksOK, Creating
<1>7. NewestId'
  BY <1>1 DEF NewestId, Creating
<1>8. BatMatchesTree'
  <2>1. \A q \in DOMAIN inode' : Unfreed(q)' = Unfreed(q)
    BY <1>1, <1>3 DEF Unfreed
  <2>2. HeldBlocksAreMarked'
    BY <1>1, <1>3, <2>1 DEF BatMatchesTree, HeldBlocksAreMarked
  <2>3. NoBlockHeldTwice'
    BY <1>1, <1>3, <2>1 DEF BatMatchesTree, NoBlockHeldTwice
  <2>4. \A i \in Unfreed(child) : inode[child].blocks[i] \in suspect'
    BY <1>1 DEF Unfreed, BlocksOf
  <2>5. MarkedBlocksAreHeld'
    BY <1>1, <1>3, <2>1, <2>4 DEF BatMatchesTree, MarkedBlocksAreHeld
  <2>6. QED
    BY <2>2, <2>3, <2>5 DEF BatMatchesTree
<1>9. QED
  BY <1>5, <1>6, <1>7, <1>8

-------------------------------------------------------------------------------
(* delete_file, delete_dir and the loop that frees keep it *)

LEMMA PickToDeleteInv ==
    ASSUME IInv, pc = "idle", NEW p \in Directories, NEW n \in Linked, PickToDelete(p, n)
    PROVE  IInv'
<1> USE DEF IInv
<1>1. PICK i \in DOMAIN inode[p].children : child' = inode[p].children[i]
  BY DEF PickToDelete, FirstNamed
<1>2. /\ pc' = "freeing" /\ parent' = p /\ node' = n
      /\ UNCHANGED <<bat, inode, root, num_inode_ids, freed, suspect>>
  BY DEF PickToDelete
<1>3. child' \in DOMAIN inode /\ child' # p /\ child' # root
  BY <1>1 DEF LinksOK, Directories
<1>4. TypeOK'
  BY <1>2, <1>3 DEF TypeOK, Directories, Linked
<1>5. LinksOK' /\ NewestId'
  BY <1>2, <1>3 DEF LinksOK, NewestId, Creating
<1>6. BatMatchesTree'
  <2>1. \A q \in DOMAIN inode : \A j \in DOMAIN inode[q].blocks : j \in Nat /\ j > freed
    BY DEF TypeOK, InodeRecord
  <2>2. \A q \in DOMAIN inode : Unfreed(q)' = Unfreed(q)
    BY <1>2, <2>1 DEF Unfreed
  <2>3. QED
    BY <1>2, <2>2, SameHolders
<1>7. QED
  BY <1>4, <1>5, <1>6

\* The block that is freed was the child's alone, so clearing its bit takes
\* nothing from any other file.
LEMMA FreeBlockInv == IInv /\ FreeBlock => IInv'
<1> SUFFICES ASSUME IInv, FreeBlock PROVE IInv'
    OBVIOUS
<1> USE DEF IInv
<1> DEFINE k == freed + 1
           b == inode[child].blocks[k]
<1>1. /\ pc \in {"rolling_back", "freeing"} /\ BlocksToFree
      /\ bat' = Cleared(bat, b) /\ freed' = k
      /\ UNCHANGED <<inode, root, num_inode_ids, pc, parent, node, child, suspect>>
  BY DEF FreeBlock
<1>2. /\ child \in DOMAIN inode /\ inode[child].blocks \in Seq(Blocks) /\ freed \in Nat
  BY <1>1 DEF TypeOK, InodeRecord
<1>3. k \in DOMAIN inode[child].blocks /\ k > freed /\ k \in Nat /\ b \in Blocks
  BY <1>1, <1>2 DEF BlocksToFree
<1>4. /\ bat' \in Table \cup {EmptyFile}
      /\ \A c \in Blocks : bat'[c] = IF c = b /\ bat[b] = 1 THEN 0 ELSE bat[c]
  BY <1>1, <1>3, ClearedTable DEF TypeOK
<1>5. TypeOK'
  BY <1>1, <1>2, <1>3, <1>4 DEF TypeOK, Directories
<1>6. LinksOK' /\ NewestId'
  BY <1>1 DEF LinksOK, NewestId, Creating
<1>7. \A p \in DOMAIN inode :
          Unfreed(p)' = IF p = child THEN Unfreed(p) \ {k} ELSE Unfreed(p)
  <2>1. \A i \in DOMAIN inode[child].blocks : i \in Nat /\ (i > k <=> i > freed /\ i # k)
    BY <1>2
  <2> HIDE DEF k
  <2>2. QED
    BY <1>1, <2>1 DEF Unfreed
<1>8. k \in Unfreed(child)
  BY <1>3 DEF Unfreed
<1>9. \A p \in DOMAIN inode : \A i \in Unfreed(p) : inode[p].blocks[i] \in Blocks
  <2> SUFFICES ASSUME NEW p \in DOMAIN inode, NEW i \in Unfreed(p)
               PROVE  inode[p].blocks[i] \in Blocks
      OBVIOUS
  <2>1. inode[p].blocks \in Seq(Blocks) /\ i \in DOMAIN inode[p].blocks
    BY DEF TypeOK, InodeRecord, Unfreed
  <2>2. QED
    BY <2>1
<1> HIDE DEF k
<1>10. HeldBlocksAreMarked'
  <2> SUFFICES ASSUME NEW p \in DOMAIN inode, NEW i \in Unfreed(p)', 
                      inode[p].blocks[i] \notin suspect
               PROVE  bat'[inode[p].blocks[i]] = 1
      BY <1>1 DEF HeldBlocksAreMarked
  <2>1. i \in Unfreed(p) /\ ~(p = child /\ i = k)
    BY <1>7
  <2>2. inode[p].blocks[i] # b
    BY <1>2, <1>8, <2>1 DEF BatMatchesTree, NoBlockHeldTwice
  <2>3. bat[inode[p].blocks[i]] = 1 /\ inode[p].blocks[i] \in Blocks
    BY <1>9, <2>1 DEF BatMatchesTree, HeldBlocksAreMarked
  <2>4. QED
    BY <1>4, <2>2, <2>3
<1>11. NoBlockHeldTwice'
  <2>1. \A p \in DOMAIN inode : Unfreed(p)' \subseteq Unfreed(p)
    BY <1>7
  <2>2. QED
    BY <1>1, <2>1 DEF BatMatchesTree, NoBlockHeldTwice
<1>12. MarkedBlocksAreHeld'
  <2> SUFFICES ASSUME NEW c \in Blocks, c \notin suspect, bat'[c] = 1
               PROVE  \E p \in DOMAIN inode : \E i \in Unfreed(p)' : inode[p].blocks[i] = c
      BY <1>1 DEF MarkedBlocksAreHeld, Blocks
  <2>1. c # b /\ bat[c] = 1
    BY <1>4
  <2>2. PICK p \in DOMAIN inode : \E i \in Unfreed(p) : inode[p].blocks[i] = c
    BY <2>1 DEF BatMatchesTree, MarkedBlocksAreHeld
  <2>3. PICK i \in Unfreed(p) : inode[p].blocks[i] = c
    BY <2>2
  <2>4. i \in Unfreed(p)'
    BY <1>7, <2>1, <2>3
  <2>5. QED
    BY <2>3, <2>4
<1>13. QED
  BY <1>5, <1>6, <1>10, <1>11, <1>12 DEF BatMatchesTree

LEMMA UnlinkInv == IInv /\ Unlink => IInv'
<1> SUFFICES ASSUME IInv, Unlink PROVE IInv'
    OBVIOUS
<1> USE DEF IInv
<1>1. /\ pc = "freeing" /\ ~BlocksToFree
      /\ pc' = "idle" /\ parent' = NULL /\ node' = NULL /\ child' = NULL /\ freed' = 0
      /\ UNCHANGED <<bat, root, num_inode_ids, suspect>>
  BY DEF Unlink, Return
<1>2. PICK i \in DOMAIN inode[parent].children :
          /\ inode[parent].children[i] = child
          /\ inode' = [Without(child) EXCEPT ![parent].children = Unlinked(@, i)]
  BY DEF Unlink
<1>3. /\ parent \in DOMAIN inode /\ child \in DOMAIN inode /\ child # parent
      /\ child # root
  BY <1>1 DEF TypeOK, LinksOK, Directories
<1>4. inode[parent] \in InodeRecord /\ inode[parent].children \in Seq(Ptr)
  BY <1>3 DEF TypeOK, InodeRecord
<1> DEFINE old == inode[parent].children
           shorter == Unlinked(old, i)
<1>5. /\ shorter \in Seq(Ptr)
      /\ DOMAIN shorter = 1 .. Len(old) - 1
      /\ \A j \in 1 .. Len(old) - 1 : shorter[j] = old[IF j < i THEN j ELSE j + 1]
  BY <1>4, UnlinkedEffect
<1>6. /\ DOMAIN Without(child) = DOMAIN inode \ {child}
      /\ \A q \in DOMAIN inode : q # child => Without(child)[q] = inode[q]
  BY DEF Without
<1>7. [inode[parent] EXCEPT !.children = shorter] \in InodeRecord
  BY <1>4, <1>5 DEF InodeRecord
<1>8. inode' = [Without(child) EXCEPT ![parent] = [inode[parent] EXCEPT !.children = shorter]]
  BY <1>2, <1>3, <1>6
<1> HIDE DEF shorter
<1>9. /\ DOMAIN inode' = DOMAIN inode \ {child}
      /\ inode' \in [DOMAIN inode' -> InodeRecord]
      /\ \A q \in DOMAIN inode' : q # parent => inode'[q] = inode[q]
  BY <1>3, <1>6, <1>7, <1>8 DEF TypeOK
<1>10. inode'[parent].children = shorter /\ inode'[parent].blocks = inode[parent].blocks
  BY <1>3, <1>4, <1>6, <1>8 DEF InodeRecord
<1>11. TypeOK'
  BY <1>1, <1>3, <1>9, InodeAssumption DEF TypeOK
<1>12. LinksOK'
  <2> DEFINE place(j) == IF j < i THEN j ELSE j + 1
  <2>1. \A j \in DOMAIN shorter :
            /\ j \in Nat /\ place(j) \in DOMAIN old /\ place(j) # i
            /\ shorter[j] = old[place(j)]
    BY <1>4, <1>5
  <2>2. \A j, k \in DOMAIN shorter : place(j) = place(k) => j = k
    BY <2>1, <1>4
  <2> HIDE DEF place
  <2>3. \A q \in DOMAIN inode : \A j \in DOMAIN inode[q].children :
            inode[q].children[j] = child => q = parent /\ j = i
    BY <1>2, <1>3 DEF LinksOK
  <2>4. \A q \in DOMAIN inode' : \A j \in DOMAIN inode'[q].children :
            \/ q = parent /\ j \in DOMAIN shorter /\ inode'[q].children[j] = old[place(j)]
            \/ /\ q # parent /\ q \in DOMAIN inode /\ j \in DOMAIN inode[q].children
               /\ inode'[q].children[j] = inode[q].children[j]
    BY <1>9, <1>10, <2>1
  <2>5. \A q \in DOMAIN inode' : \A j \in DOMAIN inode'[q].children :
            /\ inode'[q].children[j] \in DOMAIN inode \ {root}
            /\ inode'[q].children[j] # q
            /\ inode'[q].children[j] # child
    BY <1>3, <2>1, <2>3, <2>4 DEF LinksOK
  <2>6. \A q, r \in DOMAIN inode' :
            \A j \in DOMAIN inode'[q].children, k \in DOMAIN inode'[r].children :
               inode'[q].children[j] = inode'[r].children[k] => q = r /\ j = k
    <3> SUFFICES ASSUME NEW q \in DOMAIN inode', NEW r \in DOMAIN inode',
                        NEW j \in DOMAIN inode'[q].children,
                        NEW k \in DOMAIN inode'[r].children,
                        inode'[q].children[j] = inode'[r].children[k]
                 PROVE  q = r /\ j = k
        OBVIOUS
    <3>1. CASE q = parent /\ r = parent
      BY <3>1, <1>3, <2>1, <2>2, <2>4 DEF LinksOK
    <3>2. CASE q = parent /\ r # parent
      BY <3>2, <1>3, <2>1, <2>4 DEF LinksOK
    <3>3. CASE q # parent /\ r = parent
      BY <3>3, <1>3, <2>1, <2>4 DEF LinksOK
    <3>4. CASE q # parent /\ r # parent
      BY <3>4, <2>4 DEF LinksOK
    <3>5. QED
      BY <3>1, <3>2, <3>3, <3>4
  <2>7. QED
    BY <1>1, <1>9, <2>5, <2>6 DEF LinksOK, Creating
<1>13. NewestId'
  BY <1>1 DEF NewestId, Creating
<1>14. BatMatchesTree'
  <2>1. \A q \in DOMAIN inode' : inode'[q].blocks = inode[q].blocks
    BY <1>9, <1>10
  <2>2. QED
    BY <1>1, <1>3, <1>9, <2>1, DropChildHolders
<1>15. QED
  BY <1>11, <1>12, <1>13, <1>14

-------------------------------------------------------------------------------
(* The theorems *)

LEMMA NextIInv == IInv /\ [Next]_vars => IInv'
<1> SUFFICES ASSUME IInv, [Next]_vars PROVE IInv'
    OBVIOUS
<1>1. CASE CreateRoot
  BY <1>1, CreateRootInv
<1>2. ASSUME NEW p \in Directories, NEW name \in Names, CreateDir(p, name) PROVE IInv'
  BY <1>2, CreateDirInv
<1>3. ASSUME NEW p \in Directories, NEW name \in Names, NEW size \in Sizes,
             CreateFile(p, name, size)
      PROVE  IInv'
  BY <1>3, CreateFileInv
<1>4. ASSUME NEW p \in Directories, NEW n \in Deletable(p),
             DeleteFile(p, n) \/ DeleteDir(p, n)
      PROVE  IInv'
  <2>1. n \in Linked /\ pc = "idle" /\ PickToDelete(p, n)
    BY <1>4 DEF DeleteFile, DeleteDir, Deletable
  <2>2. QED
    BY <2>1, PickToDeleteInv
<1>5. CASE Internal
  BY <1>5, AllocateBlockInv, AllocateFailsInv, FreeBlockInv, RollBackDoneInv,
     LinkFileInv, LinkFailsInv, UnlinkInv DEF Internal
<1>6. CASE UNCHANGED vars
  BY <1>6 DEF vars, IInv, TypeOK, LinksOK, NewestId, BatMatchesTree, HeldBlocksAreMarked,
              NoBlockHeldTwice, MarkedBlocksAreHeld, Unfreed, Creating, Directories
<1>7. QED
  BY <1>1, <1>2, <1>3, <1>4, <1>5, <1>6 DEF Next, Create, Delete

LEMMA SpecIInv == Spec => []IInv
BY InitIInv, NextIInv, PTL DEF Spec

\* inode.c never leaves a pointer to an inode it has released: every child in
\* a directory, the root and the inodes a call works on are on the heap, and
\* num_inode_ids never drops below zero, for disks and trees of any size.
THEOREM TypeCorrect == Spec => []TypeOK
BY SpecIInv, PTL DEF IInv

\* Between any two steps of create_file and delete_file, through roll backs
\* and for any number of files, a block is marked in the table on disk if and
\* only if exactly one file has it: no file loses or shares a block.
THEOREM TableMatchesTree == Spec => []BatMatchesTree
BY SpecIInv, PTL DEF IInv

-------------------------------------------------------------------------------
(* The shape of the tree *)

\* UniqueNames, said of the set of children instead of the array.
NamesDiffer ==
    \A p \in DOMAIN inode : \A q \in ChildrenOf(p) :
        /\ inode[q].name # inode[p].name
        /\ \A r \in ChildrenOf(p) : inode[q].name = inode[r].name => q = r

\* Ids grow on the way down, so no directory is below itself.
IdsGrow == \A p \in DOMAIN inode : \A q \in ChildrenOf(p) : inode[p].id < inode[q].id

\* There is no inode before the root.
RootFirst == root = NULL => DOMAIN inode = {}

\* Every inode but the root and the one being created is in a directory.
NoOrphans ==
    CallersFind =>
        \A q \in DOMAIN inode \ {root} : Creating(q) \/ \E p \in DOMAIN inode : q \in ChildrenOf(p)

\* A directory has no blocks.  A file has no children, and once it is in the
\* tree it has the blocks its size needs.
KindsOK ==
    \A p \in DOMAIN inode :
        IF inode[p].is_directory THEN inode[p].blocks = <<>>
        ELSE /\ ChildrenOf(p) = {}
             /\ ~Creating(p) => Len(inode[p].blocks) = BlocksNeeded(inode[p].filesize)

\* What create_file knows of the inode it is working on: it is a file with the
\* newest id, no more blocks than it needs, and a name that is new in parent.
CreatedOK ==
    pc \in {"allocating", "rolling_back"} =>
        /\ inode[child].id = num_inode_ids - 1
        /\ ~inode[child].is_directory /\ inode[child].filesize \in Sizes
        /\ pc = "allocating" => Len(inode[child].blocks) <= BlocksNeeded(inode[child].filesize)
        /\ inode[child].name # inode[parent].name
        /\ \A q \in ChildrenOf(parent) : inode[q].name # inode[child].name

\* What delete knows of the child it has picked: it is a child of parent, and it
\* is the empty inode that was asked for.
DeletedOK ==
    pc = "freeing" =>
        /\ child \in ChildrenOf(parent)
        /\ CallersFind => child = node /\ ChildrenOf(child) = {}

\* The blocks of a file whose directory could not be grown stay marked, and no
\* other file gets them.
LeakedForGood ==
    \A b \in suspect :
        /\ bat[b] = 1
        /\ \A p \in DOMAIN inode : \A i \in Unfreed(p) : inode[p].blocks[i] # b

\* The inductive invariant.
TreeInv ==
    /\ IInv
    /\ IdsUnique /\ NamesDiffer /\ IdsGrow
    /\ RootFirst /\ NoOrphans
    /\ KindsOK /\ CreatedOK /\ DeletedOK
    /\ LeakedForGood

-------------------------------------------------------------------------------
(* Children *)

\* A child is on the heap, is not the root, and is not being created.
LEMMA ChildrenOnHeap ==
    ASSUME IInv
    PROVE  \A p \in DOMAIN inode : \A q \in ChildrenOf(p) :
              /\ q \in DOMAIN inode \ {root} /\ q # p /\ ~Creating(q)
              /\ \A r \in DOMAIN inode : q \in ChildrenOf(r) => r = p
BY DEF IInv, LinksOK, ChildrenOf

\* The set of children follows the array through every change a step makes.
LEMMA ChildrenChange ==
    ASSUME NEW p, inode[p].children \in Seq(Ptr)
    PROVE  /\ inode'[p].children = inode[p].children => ChildrenOf(p)' = ChildrenOf(p)
           /\ \A q \in Ptr : inode'[p].children = Append(inode[p].children, q)
                 => ChildrenOf(p)' = ChildrenOf(p) \cup {q}
           /\ inode[p].children = <<>> <=> ChildrenOf(p) = {}
<1>1. inode'[p].children = inode[p].children => ChildrenOf(p)' = ChildrenOf(p)
  BY DEF ChildrenOf
<1>2. ASSUME NEW q \in Ptr, inode'[p].children = Append(inode[p].children, q)
      PROVE  ChildrenOf(p)' = ChildrenOf(p) \cup {q}
  <2> DEFINE old == inode[p].children
  <2>1. /\ DOMAIN Append(old, q) = DOMAIN old \cup {Len(old) + 1}
        /\ \A i \in DOMAIN old : Append(old, q)[i] = old[i]
        /\ Append(old, q)[Len(old) + 1] = q
    BY AppendEffect
  <2>2. QED
    BY <1>2, <2>1 DEF ChildrenOf
<1>3. inode[p].children = <<>> <=> ChildrenOf(p) = {}
  <2>1. inode[p].children = <<>> => ChildrenOf(p) = {}
    BY DEF ChildrenOf
  <2>2. inode[p].children # <<>> => inode[p].children[1] \in ChildrenOf(p)
    BY DEF ChildrenOf
  <2>3. QED
    BY <2>1, <2>2
<1>4. QED
  BY <1>1, <1>2, <1>3

\* Taking entry i out of an array without repetitions takes out its child.
LEMMA ChildrenUnlinked ==
    ASSUME NEW p, inode[p].children \in Seq(Ptr), NEW i \in DOMAIN inode[p].children,
           \A j, k \in DOMAIN inode[p].children :
              inode[p].children[j] = inode[p].children[k] => j = k,
           inode'[p].children = Unlinked(inode[p].children, i)
    PROVE  ChildrenOf(p)' = ChildrenOf(p) \ {inode[p].children[i]}
<1> DEFINE old == inode[p].children
           shorter == Unlinked(old, i)
<1>1. /\ DOMAIN shorter = 1 .. Len(old) - 1
      /\ \A j \in 1 .. Len(old) - 1 : shorter[j] = old[IF j < i THEN j ELSE j + 1]
  BY UnlinkedEffect
<1>2. Len(old) \in Nat /\ DOMAIN old = 1 .. Len(old) /\ i \in 1 .. Len(old)
  OBVIOUS
<1> HIDE DEF shorter
<1>3. \A j \in DOMAIN shorter : \E k \in DOMAIN old \ {i} : shorter[j] = old[k]
  <2> SUFFICES ASSUME NEW j \in DOMAIN shorter
               PROVE  \E k \in DOMAIN old \ {i} : shorter[j] = old[k]
      OBVIOUS
  <2>1. (IF j < i THEN j ELSE j + 1) \in DOMAIN old \ {i}
    BY <1>1, <1>2
  <2>2. QED
    BY <1>1, <2>1
<1>4. \A k \in DOMAIN old \ {i} : \E j \in DOMAIN shorter : shorter[j] = old[k]
  <2> SUFFICES ASSUME NEW k \in DOMAIN old \ {i}
               PROVE  \E j \in DOMAIN shorter : shorter[j] = old[k]
      OBVIOUS
  <2>1. CASE k < i
    BY <2>1, <1>1, <1>2
  <2>2. CASE k > i
    <3>1. k - 1 \in DOMAIN shorter /\ ~(k - 1 < i) /\ (k - 1) + 1 = k
      BY <2>2, <1>1, <1>2
    <3>2. QED
      BY <3>1, <1>1
  <2>3. QED
    BY <2>1, <2>2, <1>2
<1>5. ChildrenOf(p)' = {shorter[j] : j \in DOMAIN shorter}
  BY DEF ChildrenOf, shorter
<1>6. ChildrenOf(p) = {old[k] : k \in DOMAIN old}
  BY DEF ChildrenOf
<1>7. QED
  BY <1>2, <1>3, <1>4, <1>5, <1>6

-------------------------------------------------------------------------------
(* Names and ids *)

\* A step that adds no child, name or id keeps them.
LEMMA ShrunkTree ==
    ASSUME NamesDiffer, IdsGrow,
           \A p \in DOMAIN inode' :
              /\ p \in DOMAIN inode
              /\ inode'[p].name = inode[p].name /\ inode'[p].id = inode[p].id
              /\ ChildrenOf(p)' \subseteq ChildrenOf(p),
           \A p \in DOMAIN inode' : \A q \in ChildrenOf(p)' : q \in DOMAIN inode'
    PROVE  NamesDiffer' /\ IdsGrow'
<1>1. NamesDiffer'
  BY DEF NamesDiffer
<1>2. IdsGrow'
  BY DEF IdsGrow
<1>3. QED
  BY <1>1, <1>2

\* So does one that puts an inode with a greater id and a free name into p.
LEMMA GrownTree ==
    ASSUME IInv, NamesDiffer, IdsGrow, NEW p \in DOMAIN inode, NEW new, new # p,
           \A q \in DOMAIN inode : new \notin ChildrenOf(q),
           DOMAIN inode' = DOMAIN inode \cup {new},
           \A q \in DOMAIN inode \ {new} :
              /\ inode'[q].name = inode[q].name /\ inode'[q].id = inode[q].id
              /\ q # p => ChildrenOf(q)' = ChildrenOf(q),
           ChildrenOf(p)' = ChildrenOf(p) \cup {new}, ChildrenOf(new)' = {},
           inode[p].id < inode'[new].id, inode'[new].name # inode[p].name,
           \A q \in ChildrenOf(p) : inode[q].name # inode'[new].name
    PROVE  NamesDiffer' /\ IdsGrow'
<1>1. \A q \in DOMAIN inode : \A r \in ChildrenOf(q) : r \in DOMAIN inode \ {new}
  BY ChildrenOnHeap
<1>2. \A q \in DOMAIN inode' : \A r \in ChildrenOf(q)' :
          \/ q = p /\ r = new
          \/ q \in DOMAIN inode \ {new} /\ r \in ChildrenOf(q)
  OBVIOUS
<1>3. NamesDiffer'
  BY <1>1, <1>2 DEF NamesDiffer
<1>4. IdsGrow'
  BY <1>1, <1>2 DEF IdsGrow
<1>5. QED
  BY <1>3, <1>4

-------------------------------------------------------------------------------
(* What a step does to the heap *)

\* All fields of q but its children stay the same.
Kept(q) ==
    /\ inode'[q].id = inode[q].id
    /\ inode'[q].name = inode[q].name
    /\ inode'[q].is_directory = inode[q].is_directory
    /\ inode'[q].filesize = inode[q].filesize
    /\ inode'[q].blocks = inode[q].blocks

\* q stays as it is.
Same(q) == Kept(q) /\ ChildrenOf(q)' = ChildrenOf(q)

\* An inode whose record does not change stays as it is.
LEMMA SameInode ==
    ASSUME NEW q, inode'[q] = inode[q]
    PROVE  Same(q)
BY DEF Same, Kept, ChildrenOf

\* The fields of an inode have their types.
LEMMA RecordFields ==
    ASSUME IInv, NEW q \in DOMAIN inode
    PROVE  /\ q \in Ptr /\ inode[q] \in InodeRecord
           /\ inode[q].children \in Seq(Ptr) /\ inode[q].blocks \in Seq(Blocks)
           /\ inode[q].id \in Nat /\ inode[q].name \in Names
           /\ inode[q].is_directory \in BOOLEAN
           /\ inode[q].filesize \in Nat
<1>1. q \in Ptr /\ inode[q] \in InodeRecord
  BY DEF IInv, TypeOK
<1>2. Sizes \cup {0} \subseteq Nat
  BY InodeAssumption
<1>3. QED
  BY <1>1, <1>2 DEF InodeRecord

\* create_dir for the root and create_file put an inode on the heap that is in
\* no directory.
LEMMA LeafEffect ==
    ASSUME IInv, NEW new \in Ptr \ DOMAIN inode, NEW record \in InodeRecord,
           record.children = <<>>, inode' = With(new, record)
    PROVE  /\ DOMAIN inode' = DOMAIN inode \cup {new}
           /\ inode'[new] = record /\ ChildrenOf(new)' = {}
           /\ \A q \in DOMAIN inode : q # new /\ Same(q) /\ new \notin ChildrenOf(q)
<1>1. /\ DOMAIN inode' = DOMAIN inode \cup {new}
      /\ inode'[new] = record
      /\ \A q \in DOMAIN inode : q # new => inode'[q] = inode[q]
  BY DEF With
<1>2. ChildrenOf(new)' = {}
  BY <1>1 DEF ChildrenOf
<1>3. \A q \in DOMAIN inode : q # new /\ Same(q) /\ new \notin ChildrenOf(q)
  BY <1>1, SameInode, ChildrenOnHeap
<1>4. QED
  BY <1>1, <1>2, <1>3

\* create_dir and the end of create_file put an inode into a directory p.
LEMMA ChildEffect ==
    ASSUME IInv, NEW p \in DOMAIN inode, NEW new \in Ptr \ {p},
           NEW record \in InodeRecord, record.children = <<>>,
           AddInodeToParent(p, new, record)
    PROVE  /\ DOMAIN inode' = DOMAIN inode \cup {new}
           /\ inode'[new] = record /\ ChildrenOf(new)' = {}
           /\ Kept(p) /\ ChildrenOf(p)' = ChildrenOf(p) \cup {new}
           /\ \A q \in DOMAIN inode \ {p, new} : Same(q)
<1>1. TypeOK
  BY DEF IInv
<1>2. /\ DOMAIN inode' = DOMAIN inode \cup {new}
      /\ inode'[new] = record
      /\ \A q \in DOMAIN inode : q # p /\ q # new => inode'[q] = inode[q]
      /\ inode'[p] = [inode[p] EXCEPT !.children = Append(@, new)]
      /\ inode[p].children \in Seq(Ptr)
  <2>1. DOMAIN inode' = DOMAIN inode \cup {new}
    BY <1>1, AddEffect
  <2>2. /\ inode'[new] = record
        /\ \A q \in DOMAIN inode : q # p /\ q # new => inode'[q] = inode[q]
    BY DEF AddInodeToParent, With
  <2>3. inode'[p] = [inode[p] EXCEPT !.children = Append(@, new)]
    BY <1>1, AddEffect
  <2>4. QED
    BY <2>1, <2>2, <2>3, RecordFields
<1>3. /\ inode'[p].children = Append(inode[p].children, new)
      /\ Kept(p)
  BY <1>2, RecordFields DEF InodeRecord, Kept
<1>4. ChildrenOf(p)' = ChildrenOf(p) \cup {new}
  BY <1>2, <1>3, ChildrenChange
<1>5. ChildrenOf(new)' = {}
  BY <1>2 DEF ChildrenOf
<1>6. QED
  BY <1>2, <1>3, <1>4, <1>5, SameInode

\* allocate_block in create_file: one block more, for the new inode only.
LEMMA BlockEffect ==
    ASSUME IInv, NEW c \in DOMAIN inode, NEW b \in Blocks,
           inode' = [inode EXCEPT ![c].blocks = Append(@, b)]
    PROVE  /\ DOMAIN inode' = DOMAIN inode
           /\ \A q \in DOMAIN inode \ {c} : Same(q)
           /\ inode'[c].id = inode[c].id /\ inode'[c].name = inode[c].name
           /\ inode'[c].is_directory = inode[c].is_directory
           /\ inode'[c].filesize = inode[c].filesize
           /\ inode'[c].children = inode[c].children /\ ChildrenOf(c)' = ChildrenOf(c)
           /\ inode'[c].blocks = Append(inode[c].blocks, b)
<1>1. inode[c] \in InodeRecord
  BY RecordFields
<1>2. inode' = [inode EXCEPT ![c] = [inode[c] EXCEPT !.blocks = Append(inode[c].blocks, b)]]
  OBVIOUS
<1>3. /\ DOMAIN inode' = DOMAIN inode
      /\ \A q \in DOMAIN inode \ {c} : inode'[q] = inode[q]
      /\ inode'[c] = [inode[c] EXCEPT !.blocks = Append(inode[c].blocks, b)]
  BY <1>2
<1>4. /\ inode'[c].id = inode[c].id /\ inode'[c].name = inode[c].name
      /\ inode'[c].is_directory = inode[c].is_directory
      /\ inode'[c].filesize = inode[c].filesize
      /\ inode'[c].children = inode[c].children
      /\ inode'[c].blocks = Append(inode[c].blocks, b)
  BY <1>1, <1>3 DEF InodeRecord
<1>5. ChildrenOf(c)' = ChildrenOf(c)
  BY <1>4 DEF ChildrenOf
<1>6. QED
  BY <1>3, <1>4, <1>5, SameInode

\* A create_file that fails takes its inode off the heap again.
LEMMA DropEffect ==
    ASSUME NEW c, inode' = Without(c)
    PROVE  /\ DOMAIN inode' = DOMAIN inode \ {c}
           /\ \A q \in DOMAIN inode' : Same(q)
<1>1. /\ DOMAIN inode' = DOMAIN inode \ {c}
      /\ \A q \in DOMAIN inode' : inode'[q] = inode[q]
  BY DEF Without
<1>2. QED
  BY <1>1, SameInode

\* The end of delete takes the child out of its directory and off the heap.
LEMMA UnlinkEffect ==
    ASSUME IInv, Unlink
    PROVE  /\ child \in DOMAIN inode /\ parent \in DOMAIN inode
           /\ DOMAIN inode' = DOMAIN inode \ {child}
           /\ \A q \in DOMAIN inode' : Kept(q) /\ ChildrenOf(q)' = ChildrenOf(q) \ {child}
<1>1. PICK i \in DOMAIN inode[parent].children :
          /\ inode[parent].children[i] = child
          /\ inode' = [Without(child) EXCEPT ![parent].children = Unlinked(@, i)]
  BY DEF Unlink
<1>2. /\ parent \in DOMAIN inode /\ child \in DOMAIN inode /\ child # parent
  BY DEF Unlink, IInv, TypeOK, Directories
<1>3. PICK p \in DOMAIN inode : p = parent
  BY <1>2
<1>4. inode[p] \in InodeRecord /\ inode[p].children \in Seq(Ptr)
  BY RecordFields
<1> DEFINE shorter == Unlinked(inode[p].children, i)
<1>5. /\ DOMAIN Without(child) = DOMAIN inode \ {child}
      /\ \A q \in DOMAIN inode : q # child => Without(child)[q] = inode[q]
  BY DEF Without
<1>6. inode' = [Without(child) EXCEPT ![p] = [inode[p] EXCEPT !.children = shorter]]
  BY <1>1, <1>2, <1>3, <1>5
<1> HIDE DEF shorter
<1>7. /\ DOMAIN inode' = DOMAIN inode \ {child}
      /\ \A q \in DOMAIN inode' : q # p => inode'[q] = inode[q]
      /\ inode'[p] = [inode[p] EXCEPT !.children = shorter]
  BY <1>2, <1>3, <1>5, <1>6
<1>8. Kept(p) /\ inode'[p].children = shorter
  BY <1>4, <1>7 DEF InodeRecord, Kept
<1>9. ChildrenOf(p)' = ChildrenOf(p) \ {child}
  <2>1. \A j, k \in DOMAIN inode[p].children :
            inode[p].children[j] = inode[p].children[k] => j = k
    BY DEF IInv, LinksOK
  <2>2. ChildrenOf(p)' = ChildrenOf(p) \ {inode[p].children[i]}
    BY <1>1, <1>3, <1>4, <1>8, <2>1, ChildrenUnlinked DEF shorter
  <2>3. QED
    BY <1>1, <1>3, <2>2
<1>10. \A q \in DOMAIN inode : child \in ChildrenOf(q) => q = p
  BY <1>1, <1>3, ChildrenOnHeap DEF ChildrenOf
<1>11. \A q \in DOMAIN inode' : Kept(q) /\ ChildrenOf(q)' = ChildrenOf(q) \ {child}
  BY <1>7, <1>8, <1>9, <1>10, SameInode DEF Same
<1>12. QED
  BY <1>2, <1>7, <1>11

-------------------------------------------------------------------------------
(* The invariant holds initially *)

\* A formatted disk and no inodes.
LEMMA InitTreeInv == Init => TreeInv
<1> SUFFICES ASSUME Init PROVE TreeInv
    OBVIOUS
<1>1. IInv
  BY InitIInv
<1>2. /\ IdsUnique /\ NamesDiffer /\ IdsGrow /\ RootFirst /\ NoOrphans
      /\ KindsOK /\ CreatedOK /\ DeletedOK /\ LeakedForGood
  BY DEF Init, IdsUnique, NamesDiffer, IdsGrow, RootFirst, NoOrphans, KindsOK, CreatedOK,
         DeletedOK, LeakedForGood
<1>3. QED
  BY <1>1, <1>2 DEF TreeInv

-------------------------------------------------------------------------------
(* create_dir and create_file keep it *)

\* A step that marks and frees no block, and adds no holder of one.
LEMMA SameLeaks ==
    ASSUME LeakedForGood, UNCHANGED <<bat, suspect>>,
           \A p \in DOMAIN inode' :
              \/ inode'[p].blocks = <<>>
              \/ /\ p \in DOMAIN inode /\ Unfreed(p)' \subseteq Unfreed(p)
                 /\ inode'[p].blocks = inode[p].blocks
    PROVE  LeakedForGood'
BY DEF LeakedForGood, Unfreed

\* The fields of a new directory and of a new file.
LEMMA NewFields ==
    ASSUME NEW id \in Nat, NEW name \in Names
    PROVE  /\ NewDirectory(id, name) \in InodeRecord
           /\ NewDirectory(id, name).id = id /\ NewDirectory(id, name).name = name
           /\ NewDirectory(id, name).is_directory
           /\ NewDirectory(id, name).filesize = 0
           /\ NewDirectory(id, name).children = <<>> /\ NewDirectory(id, name).blocks = <<>>
           /\ \A size \in Sizes :
                /\ NewFile(id, name, size) \in InodeRecord
                /\ NewFile(id, name, size).id = id /\ NewFile(id, name, size).name = name
                /\ ~NewFile(id, name, size).is_directory
                /\ NewFile(id, name, size).filesize = size
                /\ NewFile(id, name, size).children = <<>> /\ NewFile(id, name, size).blocks = <<>>
BY DEF NewDirectory, NewFile, InodeRecord

\* The root gets the first id, and is in no directory.
LEMMA CreateRootTree == TreeInv /\ CreateRoot => TreeInv'
<1> SUFFICES ASSUME TreeInv, CreateRoot PROVE TreeInv'
    OBVIOUS
<1>1. IInv /\ IInv' /\ DOMAIN inode = {} /\ LeakedForGood
  BY CreateRootInv DEF TreeInv, RootFirst, CreateRoot
<1>2. PICK new \in Ptr \ DOMAIN inode :
          /\ inode' = With(new, NewDirectory(num_inode_ids, RootName))
          /\ root' = new
  BY DEF CreateRoot
<1>3. /\ pc' = "idle" /\ num_inode_ids' = num_inode_ids + 1
      /\ UNCHANGED <<bat, freed, suspect>>
      /\ num_inode_ids \in Nat /\ RootName \in Names
  BY <1>1, InodeAssumption DEF CreateRoot, IInv, TypeOK
<1> DEFINE record == NewDirectory(num_inode_ids, RootName)
<1>4. /\ record \in InodeRecord /\ record.id = num_inode_ids /\ record.is_directory
      /\ record.children = <<>> /\ record.blocks = <<>>
      /\ inode' = With(new, record)
  <2>1. record \in InodeRecord /\ record.id = num_inode_ids
    BY <1>3, NewFields
  <2>2. record.is_directory /\ record.children = <<>> /\ record.blocks = <<>>
    BY <1>3, NewFields
  <2>3. QED
    BY <1>2, <2>1, <2>2
<1> HIDE DEF record
<1>5. /\ DOMAIN inode' = {new} /\ inode'[new] = record /\ ChildrenOf(new)' = {}
  BY <1>1, <1>4, LeafEffect
<1>6. IdsUnique' /\ NamesDiffer' /\ IdsGrow' /\ KindsOK'
  BY <1>3, <1>4, <1>5 DEF IdsUnique, NamesDiffer, IdsGrow, KindsOK
<1>7. RootFirst' /\ NoOrphans' /\ CreatedOK' /\ DeletedOK'
  BY <1>2, <1>3, <1>5, InodeAssumption DEF RootFirst, NoOrphans, CreatedOK, DeletedOK
<1>8. LeakedForGood'
  BY <1>1, <1>3, <1>4, <1>5, SameLeaks
<1>9. QED
  BY <1>1, <1>6, <1>7, <1>8 DEF TreeInv

\* The name is new in the directory when find_inode_by_name returns NULL.
LEMMA NameIsNew ==
    ASSUME IInv, NEW p \in Directories, NEW name \in Names, FindInodeByName(p, name, NULL)
    PROVE  /\ name # inode[p].name
           /\ \A q \in ChildrenOf(p) : inode[q].name # name
<1>1. NULL \notin ChildrenOf(p) /\ p # NULL /\ p \in DOMAIN inode /\ inode[p].is_directory
  BY InodeAssumption, ChildrenOnHeap DEF IInv, TypeOK, Directories
<1>2. ~FirstNamed(p, name, NULL)
  BY <1>1 DEF FirstNamed, ChildrenOf
<1>3. QED
  BY <1>1, <1>2 DEF FindInodeByName

\* A new directory has the greatest id and a name that is new in its parent.
LEMMA CreateDirTree ==
    ASSUME TreeInv, NEW p \in Directories, NEW name \in Names, CreateDir(p, name)
    PROVE  TreeInv'
<1>1. IInv /\ IInv' /\ pc = "idle"
  BY CreateDirInv DEF TreeInv, CreateDir
<1>2. PICK new \in Ptr \ DOMAIN inode :
          AddInodeToParent(p, new, NewDirectory(num_inode_ids, name))
  BY DEF CreateDir
<1>3. /\ pc' = "idle" /\ num_inode_ids' = num_inode_ids + 1
      /\ UNCHANGED <<bat, root, child, freed, suspect, pc>>
      /\ num_inode_ids \in Nat
  BY <1>1 DEF CreateDir, IInv, TypeOK
<1>4. p \in DOMAIN inode /\ new # p /\ new \in Ptr \ {p} /\ inode[p].is_directory
  BY DEF Directories
<1> DEFINE record == NewDirectory(num_inode_ids, name)
<1>5. /\ record \in InodeRecord /\ record.id = num_inode_ids /\ record.name = name
      /\ record.is_directory /\ record.children = <<>> /\ record.blocks = <<>>
      /\ AddInodeToParent(p, new, record)
  BY <1>2, <1>3, NewFields
<1> HIDE DEF record
<1>6. /\ DOMAIN inode' = DOMAIN inode \cup {new}
      /\ inode'[new] = record /\ ChildrenOf(new)' = {}
      /\ Kept(p) /\ ChildrenOf(p)' = ChildrenOf(p) \cup {new}
      /\ \A q \in DOMAIN inode \ {p, new} : Same(q)
  BY <1>1, <1>4, <1>5, ChildEffect
<1>7. \A q \in DOMAIN inode : Kept(q) /\ (q # p => ChildrenOf(q)' = ChildrenOf(q))
  BY <1>6 DEF Same
<1>8. \A q \in DOMAIN inode : inode[q].id \in Nat /\ inode[q].id < num_inode_ids
  BY <1>1, RecordFields DEF TreeInv, IdsUnique
<1>9. IdsUnique'
  BY <1>3, <1>5, <1>6, <1>7, <1>8 DEF IdsUnique, Kept, TreeInv
<1>10. NamesDiffer' /\ IdsGrow'
  <2>1. \A q \in DOMAIN inode : new \notin ChildrenOf(q)
    BY <1>1, ChildrenOnHeap
  <2>2. /\ name # inode[p].name
        /\ \A q \in ChildrenOf(p) : inode[q].name # name
    BY <1>1, NameIsNew DEF CreateDir
  <2>3. QED
    BY <1>1, <1>4, <1>5, <1>6, <1>7, <1>8, <2>1, <2>2, GrownTree DEF TreeInv, Kept
<1>11. RootFirst' /\ NoOrphans'
  <2>1. root # NULL
    BY <1>4 DEF TreeInv, RootFirst
  <2>2. \A q, r \in DOMAIN inode : q \in ChildrenOf(r) => q \in ChildrenOf(r)'
    BY <1>6, <1>7
  <2>3. CallersFind => \A q \in DOMAIN inode \ {root} : \E r \in DOMAIN inode : q \in ChildrenOf(r)
    BY <1>1 DEF TreeInv, NoOrphans, Creating
  <2>4. QED
    BY <1>3, <1>4, <1>6, <2>1, <2>2, <2>3 DEF RootFirst, NoOrphans
<1>12. KindsOK'
  BY <1>3, <1>4, <1>5, <1>6, <1>7 DEF TreeInv, KindsOK, Kept, Creating
<1>13. CreatedOK' /\ DeletedOK'
  BY <1>3 DEF CreatedOK, DeletedOK
<1>14. LeakedForGood'
  <2>1. \A q \in DOMAIN inode : Unfreed(q)' = Unfreed(q)
    BY <1>3, <1>7 DEF Unfreed, Kept
  <2>2. QED
    BY <1>3, <1>5, <1>6, <1>7, <2>1, SameLeaks DEF Kept, TreeInv
<1>15. QED
  BY <1>1, <1>9, <1>10, <1>11, <1>12, <1>13, <1>14 DEF TreeInv

\* A file that is being created is in no directory yet.
LEMMA CreateFileTree ==
    ASSUME TreeInv, NEW p \in Directories, NEW name \in Names, NEW size \in Sizes,
           CreateFile(p, name, size)
    PROVE  TreeInv'
<1>1. IInv /\ IInv' /\ pc = "idle"
  BY CreateFileInv DEF TreeInv, CreateFile
<1>2. PICK new \in Ptr \ DOMAIN inode :
          /\ inode' = With(new, NewFile(num_inode_ids, name, size))
          /\ child' = new
  BY DEF CreateFile
<1>3. /\ pc' = "allocating" /\ num_inode_ids' = num_inode_ids + 1 /\ parent' = p
      /\ UNCHANGED <<bat, root, freed, suspect>>
      /\ num_inode_ids \in Nat
  BY <1>1 DEF CreateFile, IInv, TypeOK
<1>4. p \in DOMAIN inode /\ inode[p].is_directory
  BY DEF Directories
<1> DEFINE record == NewFile(num_inode_ids, name, size)
<1>5. /\ record \in InodeRecord /\ record.id = num_inode_ids /\ record.name = name
      /\ ~record.is_directory /\ record.filesize = size
      /\ record.children = <<>> /\ record.blocks = <<>>
      /\ inode' = With(new, record)
  BY <1>2, <1>3, NewFields
<1> HIDE DEF record
<1>6. /\ DOMAIN inode' = DOMAIN inode \cup {new}
      /\ inode'[new] = record /\ ChildrenOf(new)' = {}
      /\ \A q \in DOMAIN inode : q # new /\ Same(q) /\ new \notin ChildrenOf(q)
  BY <1>1, <1>5, LeafEffect
<1>7. \A q \in DOMAIN inode : q # new /\ Kept(q) /\ ChildrenOf(q)' = ChildrenOf(q)
  BY <1>6 DEF Same
<1>8. \A q \in DOMAIN inode : inode[q].id \in Nat /\ inode[q].id < num_inode_ids
  BY <1>1, RecordFields DEF TreeInv, IdsUnique
<1>9. IdsUnique'
  BY <1>3, <1>5, <1>6, <1>7, <1>8 DEF IdsUnique, Kept, TreeInv
<1>10. NamesDiffer' /\ IdsGrow'
  <2>1. \A q \in DOMAIN inode : \A r \in ChildrenOf(q) : r \in DOMAIN inode
    BY <1>1, ChildrenOnHeap
  <2>2. NamesDiffer'
    BY <1>6, <1>7, <2>1 DEF TreeInv, NamesDiffer, Kept
  <2>3. IdsGrow'
    BY <1>6, <1>7, <2>1 DEF TreeInv, IdsGrow, Kept
  <2>4. QED
    BY <2>2, <2>3
<1>11. RootFirst' /\ NoOrphans'
  <2>1. root # NULL
    BY <1>4 DEF TreeInv, RootFirst
  <2>2. CallersFind => \A q \in DOMAIN inode \ {root} : \E r \in DOMAIN inode : q \in ChildrenOf(r)
    BY <1>1 DEF TreeInv, NoOrphans, Creating
  <2>3. QED
    BY <1>2, <1>3, <1>6, <1>7, <2>1, <2>2 DEF RootFirst, NoOrphans, Creating
<1>12. KindsOK'
  BY <1>1, <1>2, <1>3, <1>5, <1>6, <1>7 DEF TreeInv, KindsOK, Kept, Creating
<1>13. CreatedOK'
  <2>1. size \in Nat /\ 0 <= BlocksNeeded(size)
    BY InodeAssumption DEF BlocksNeeded, BLOCKSIZE
  <2>2. /\ name # inode[p].name
        /\ \A q \in ChildrenOf(p) : q \in DOMAIN inode /\ inode[q].name # name
    BY <1>1, <1>4, NameIsNew, ChildrenOnHeap DEF CreateFile
  <2>3. /\ inode'[new].name # inode'[p].name
        /\ \A q \in ChildrenOf(p)' : inode'[q].name # inode'[new].name
    BY <1>4, <1>5, <1>6, <1>7, <2>2 DEF Kept
  <2>4. /\ inode'[new].id = num_inode_ids' - 1 /\ ~inode'[new].is_directory
        /\ inode'[new].filesize \in Sizes
        /\ Len(inode'[new].blocks) <= BlocksNeeded(inode'[new].filesize)
    BY <1>3, <1>5, <1>6, <2>1
  <2>5. QED
    BY <1>2, <1>3, <2>3, <2>4 DEF CreatedOK, ChildrenOf
<1>14. DeletedOK'
  BY <1>3 DEF DeletedOK
<1>15. LeakedForGood'
  <2>1. \A q \in DOMAIN inode : Unfreed(q)' = Unfreed(q)
    BY <1>1, <1>2, <1>3, <1>7 DEF Unfreed, Kept
  <2>2. QED
    BY <1>3, <1>5, <1>6, <1>7, <2>1, SameLeaks DEF Kept, TreeInv
<1>16. QED
  BY <1>1, <1>9, <1>10, <1>11, <1>12, <1>13, <1>14, <1>15 DEF TreeInv

\* The steps of a call leave the links, names and kinds alone, or drop inodes.
LEMMA AllocateBlockTree == TreeInv /\ AllocateBlock => TreeInv'
<1> SUFFICES ASSUME TreeInv, AllocateBlock PROVE TreeInv'
    OBVIOUS
<1>1. IInv /\ IInv'
  BY AllocateBlockInv DEF TreeInv
<1>2. PICK b \in Blocks :
          /\ bat[b] = 0 /\ bat' = [bat EXCEPT ![b] = 1]
          /\ inode' = [inode EXCEPT ![child].blocks = Append(@, b)]
  BY DEF AllocateBlock, IsFirstUnused, Marked
<1>3. /\ pc = "allocating" /\ BlocksMissing
      /\ UNCHANGED <<root, num_inode_ids, pc, parent, node, child, freed, suspect>>
  BY DEF AllocateBlock
<1>4. PICK c \in DOMAIN inode : c = child
  BY <1>1, <1>3 DEF IInv, TypeOK
<1>5. /\ DOMAIN inode' = DOMAIN inode
      /\ \A q \in DOMAIN inode \ {c} : Same(q)
      /\ inode'[c].id = inode[c].id /\ inode'[c].name = inode[c].name
      /\ inode'[c].is_directory = inode[c].is_directory
      /\ inode'[c].filesize = inode[c].filesize
      /\ inode'[c].blocks = Append(inode[c].blocks, b)
  BY <1>1, <1>2, <1>4, BlockEffect
<1>0. ChildrenOf(c)' = ChildrenOf(c)
  BY <1>1, <1>2, <1>4, BlockEffect
<1>6. \A q \in DOMAIN inode :
          /\ inode'[q].id = inode[q].id /\ inode'[q].name = inode[q].name
          /\ inode'[q].is_directory = inode[q].is_directory
          /\ inode'[q].filesize = inode[q].filesize
          /\ ChildrenOf(q)' = ChildrenOf(q)
          /\ q # c => inode'[q].blocks = inode[q].blocks
  BY <1>5, <1>0 DEF Same, Kept
<1>7. IdsUnique'
  BY <1>3, <1>5, <1>6 DEF TreeInv, IdsUnique
<1>8. NamesDiffer' /\ IdsGrow'
  BY <1>1, <1>5, <1>6, ChildrenOnHeap, ShrunkTree DEF TreeInv
<1>9. RootFirst' /\ NoOrphans'
  BY <1>3, <1>5, <1>6 DEF TreeInv, RootFirst, NoOrphans, Creating
<1>10. KindsOK'
  BY <1>3, <1>4, <1>5, <1>6 DEF TreeInv, KindsOK, CreatedOK, Creating
<1>11. CreatedOK'
  <2>1. Len(inode'[c].blocks) = Len(inode[c].blocks) + 1 /\ Len(inode[c].blocks) \in Nat
    BY <1>1, <1>5, RecordFields
  <2>2. BlocksNeeded(inode[c].filesize) \in Int
    BY <1>1, RecordFields DEF BlocksNeeded, BLOCKSIZE
  <2>3. Len(inode'[c].blocks) <= BlocksNeeded(inode'[c].filesize)
    BY <1>3, <1>4, <1>6, <2>1, <2>2 DEF BlocksMissing
  <2>4. PICK p \in DOMAIN inode : p = parent
    BY <1>1, <1>3 DEF IInv, TypeOK, Directories
  <2>5. \A q \in ChildrenOf(p) : q \in DOMAIN inode
    BY <1>1, ChildrenOnHeap
  <2>6. /\ inode'[c].name # inode'[p].name
        /\ \A q \in ChildrenOf(p)' : inode'[q].name # inode'[c].name
    BY <1>3, <1>4, <1>6, <2>4, <2>5 DEF TreeInv, CreatedOK
  <2>7. /\ inode'[c].id = num_inode_ids' - 1 /\ ~inode'[c].is_directory
        /\ inode'[c].filesize \in Sizes
    BY <1>3, <1>4, <1>6 DEF TreeInv, CreatedOK
  <2>8. QED
    BY <1>3, <1>4, <2>3, <2>4, <2>6, <2>7 DEF CreatedOK, ChildrenOf
<1>12. DeletedOK'
  BY <1>3 DEF DeletedOK
<1>13. LeakedForGood'
  <2>1. b \notin suspect
    BY <1>2 DEF TreeInv, LeakedForGood
  <2>2. \A q \in DOMAIN inode : \A i \in Unfreed(q)' :
            (q = c /\ inode'[q].blocks[i] = b)
            \/ (i \in Unfreed(q) /\ inode'[q].blocks[i] = inode[q].blocks[i])
    <3> SUFFICES ASSUME NEW q \in DOMAIN inode, NEW i \in Unfreed(q)'
                 PROVE  (q = c /\ inode'[q].blocks[i] = b)
                        \/ (i \in Unfreed(q) /\ inode'[q].blocks[i] = inode[q].blocks[i])
        OBVIOUS
    <3>1. CASE q # c
      BY <3>1, <1>3, <1>4, <1>6 DEF Unfreed
    <3>2. CASE q = c
      <4>1. inode[c].blocks \in Seq(Blocks)
        BY <1>1, RecordFields
      <4>2. /\ DOMAIN inode'[c].blocks = DOMAIN inode[c].blocks \cup {Len(inode[c].blocks) + 1}
            /\ \A j \in DOMAIN inode[c].blocks : inode'[c].blocks[j] = inode[c].blocks[j]
            /\ inode'[c].blocks[Len(inode[c].blocks) + 1] = b
        BY <1>5, <4>1, AppendEffect
      <4>3. i \in DOMAIN inode'[c].blocks
        BY <3>2 DEF Unfreed
      <4>4. QED
        BY <3>2, <4>2, <4>3, <1>3 DEF Unfreed
    <3>3. QED
      BY <3>1, <3>2
  <2>3. \A d \in suspect : bat'[d] = 1
    BY <1>1, <1>2, <2>1 DEF TreeInv, LeakedForGood, IInv, TypeOK, Table
  <2>4. QED
    BY <1>3, <1>5, <2>1, <2>2, <2>3 DEF TreeInv, LeakedForGood
<1>14. QED
  BY <1>1, <1>7, <1>8, <1>9, <1>10, <1>11, <1>12, <1>13 DEF TreeInv

\* A full disk changes nothing yet.
LEMMA AllocateFailsTree == TreeInv /\ AllocateFails => TreeInv'
<1> SUFFICES ASSUME TreeInv, AllocateFails PROVE TreeInv'
    OBVIOUS
<1>1. IInv /\ IInv'
  BY AllocateFailsInv DEF TreeInv
<1>2. /\ pc = "allocating" /\ pc' = "rolling_back"
      /\ UNCHANGED <<bat, inode, root, num_inode_ids, parent, node, child, freed, suspect>>
  BY DEF AllocateFails
<1>3. \A q \in DOMAIN inode : Unfreed(q)' \subseteq Unfreed(q)
  BY <1>2 DEF Unfreed
<1>4. IdsUnique' /\ NamesDiffer' /\ IdsGrow' /\ RootFirst'
  BY <1>2 DEF TreeInv, IdsUnique, NamesDiffer, IdsGrow, RootFirst, ChildrenOf
<1>5. NoOrphans' /\ KindsOK' /\ CreatedOK' /\ DeletedOK'
  <2>1. \A p \in DOMAIN inode : Creating(p)' <=> Creating(p)
    BY <1>2 DEF Creating
  <2>2. NoOrphans'
    BY <1>2, <2>1 DEF TreeInv, NoOrphans, ChildrenOf
  <2>3. KindsOK'
    BY <1>2, <2>1 DEF TreeInv, KindsOK, ChildrenOf
  <2>4. CreatedOK' /\ DeletedOK'
    BY <1>2 DEF TreeInv, CreatedOK, DeletedOK, ChildrenOf
  <2>5. QED
    BY <2>2, <2>3, <2>4
<1>6. LeakedForGood'
  BY <1>2, <1>3, SameLeaks DEF TreeInv
<1>7. QED
  BY <1>1, <1>4, <1>5, <1>6 DEF TreeInv

\* What is left of the heap once a create_file that failed has taken its inode
\* back is the tree there was before.
LEMMA DropTree ==
    ASSUME TreeInv, IInv', pc \in {"allocating", "rolling_back"},
           inode' = Without(child), num_inode_ids' = num_inode_ids - 1,
           pc' = "idle", child' = NULL, root' = root
    PROVE  /\ IdsUnique' /\ NamesDiffer' /\ IdsGrow' /\ RootFirst' /\ NoOrphans'
           /\ KindsOK' /\ CreatedOK' /\ DeletedOK'
<1>1. IInv
  BY DEF TreeInv
<1>2. PICK c \in DOMAIN inode : c = child
  BY <1>1 DEF IInv, TypeOK
<1>3. /\ DOMAIN inode' = DOMAIN inode \ {c}
      /\ \A q \in DOMAIN inode' : Same(q)
  BY <1>2, DropEffect
<1>4. \A q \in DOMAIN inode' : Kept(q) /\ ChildrenOf(q)' = ChildrenOf(q)
  BY <1>3 DEF Same
<1>5. \A q \in DOMAIN inode : c \notin ChildrenOf(q)
  BY <1>1, <1>2, ChildrenOnHeap DEF Creating
<1>6. IdsUnique'
  <2>1. inode[c].id = num_inode_ids - 1 /\ num_inode_ids \in Nat
    BY <1>1, <1>2 DEF TreeInv, CreatedOK, IInv, TypeOK
  <2>2. \A q \in DOMAIN inode' : inode[q].id < num_inode_ids /\ inode[q].id # inode[c].id
                                 /\ inode[q].id \in Nat
    BY <1>1, <1>3, RecordFields DEF TreeInv, IdsUnique
  <2>3. \A q \in DOMAIN inode' : inode'[q].id < num_inode_ids'
    BY <1>4, <2>1, <2>2 DEF Kept
  <2>4. QED
    BY <1>3, <1>4, <2>3 DEF TreeInv, IdsUnique, Kept
<1>7. NamesDiffer' /\ IdsGrow'
  <2>1. \A q \in DOMAIN inode' : \A r \in ChildrenOf(q)' : r \in DOMAIN inode'
    BY <1>1, <1>3, <1>4, <1>5, ChildrenOnHeap
  <2>2. QED
    BY <1>3, <1>4, <2>1, ShrunkTree DEF TreeInv, Kept
<1>8. RootFirst'
  BY <1>3 DEF TreeInv, RootFirst
<1>9. NoOrphans'
  <2>1. DOMAIN inode' \ {root'} \subseteq DOMAIN inode \ {root}
    BY <1>3
  <2>2. c # root /\ ChildrenOf(c) = {}
    BY <1>1, <1>2 DEF TreeInv, IInv, LinksOK, KindsOK, CreatedOK
  <2>3. CallersFind =>
            \A q \in DOMAIN inode' \ {root} : \E p \in DOMAIN inode : q \in ChildrenOf(p)
    BY <1>2, <1>3 DEF TreeInv, NoOrphans, Creating
  <2>4. CallersFind =>
            \A q \in DOMAIN inode' \ {root} : \E p \in DOMAIN inode' : q \in ChildrenOf(p)'
    BY <1>3, <1>4, <2>2, <2>3
  <2>5. QED
    BY <2>4 DEF NoOrphans
<1>10. KindsOK'
  BY <1>2, <1>3, <1>4 DEF TreeInv, KindsOK, Kept, Creating
<1>11. CreatedOK' /\ DeletedOK'
  BY DEF CreatedOK, DeletedOK
<1>12. QED
  BY <1>6, <1>7, <1>8, <1>9, <1>10, <1>11

\* A file that got no blocks gives its id back and is gone.
LEMMA RollBackDoneTree == TreeInv /\ RollBackDone => TreeInv'
<1> SUFFICES ASSUME TreeInv, RollBackDone PROVE TreeInv'
    OBVIOUS
<1>1. IInv'
  BY RollBackDoneInv DEF TreeInv
<1>2. /\ pc = "rolling_back" /\ inode' = Without(child)
      /\ num_inode_ids' = num_inode_ids - 1
      /\ pc' = "idle" /\ child' = NULL /\ UNCHANGED <<bat, root, suspect>>
  BY DEF RollBackDone, Return
<1>3. /\ IdsUnique' /\ NamesDiffer' /\ IdsGrow' /\ RootFirst' /\ NoOrphans'
      /\ KindsOK' /\ CreatedOK' /\ DeletedOK'
  BY <1>1, <1>2, DropTree
<1>4. LeakedForGood'
  <2>1. \A q \in DOMAIN inode' : /\ q \in DOMAIN inode /\ q # child
                                 /\ inode'[q].blocks = inode[q].blocks
    BY <1>2, DropEffect DEF Same, Kept
  <2>2. \A q \in DOMAIN inode' : Unfreed(q)' \subseteq Unfreed(q)
    BY <2>1 DEF Unfreed
  <2>3. QED
    BY <1>2, <2>1, <2>2, SameLeaks DEF TreeInv
<1>5. QED
  BY <1>1, <1>3, <1>4 DEF TreeInv

\* The blocks that are lost were the child's alone.
LEMMA LinkFailsTree == TreeInv /\ LinkFails => TreeInv'
<1> SUFFICES ASSUME TreeInv, LinkFails PROVE TreeInv'
    OBVIOUS
<1>1. IInv /\ IInv'
  BY LinkFailsInv DEF TreeInv
<1>2. /\ pc = "allocating" /\ inode' = Without(child)
      /\ num_inode_ids' = num_inode_ids - 1
      /\ suspect' = suspect \cup BlocksOf(child)
      /\ pc' = "idle" /\ child' = NULL /\ UNCHANGED <<bat, root>>
  BY DEF LinkFails, Return
<1>3. /\ IdsUnique' /\ NamesDiffer' /\ IdsGrow' /\ RootFirst' /\ NoOrphans'
      /\ KindsOK' /\ CreatedOK' /\ DeletedOK'
  BY <1>1, <1>2, DropTree
<1>4. LeakedForGood'
  <2>1. \A q \in DOMAIN inode' : /\ q \in DOMAIN inode /\ q # child
                                 /\ inode'[q].blocks = inode[q].blocks
    BY <1>2, DropEffect DEF Same, Kept
  <2>2. \A q \in DOMAIN inode' : Unfreed(q)' \subseteq Unfreed(q)
    BY <2>1 DEF Unfreed
  <2>3. PICK c \in DOMAIN inode : c = child
    BY <1>1, <1>2 DEF IInv, TypeOK
  <2>4. \A i \in DOMAIN inode[c].blocks : i \in Unfreed(c)
    BY <1>2 DEF Unfreed
  <2>5. \A b \in BlocksOf(c) : b \notin suspect /\ \E i \in Unfreed(c) : inode[c].blocks[i] = b
    BY <2>4 DEF BlocksOf, TreeInv, LeakedForGood
  <2>6. \A b \in BlocksOf(c) :
            /\ bat[b] = 1
            /\ \A q \in DOMAIN inode' : \A i \in Unfreed(q) : inode[q].blocks[i] # b
    BY <1>1, <2>1, <2>3, <2>5 DEF IInv, BatMatchesTree, HeldBlocksAreMarked, NoBlockHeldTwice
  <2>7. QED
    BY <1>2, <2>1, <2>2, <2>3, <2>6 DEF TreeInv, LeakedForGood
<1>5. QED
  BY <1>1, <1>3, <1>4 DEF TreeInv

\* The new file has the greatest id, so no way down from it leads back up.
LEMMA LinkFileTree == TreeInv /\ LinkFile => TreeInv'
<1> SUFFICES ASSUME TreeInv, LinkFile PROVE TreeInv'
    OBVIOUS
<1>1. IInv /\ IInv'
  BY LinkFileInv DEF TreeInv
<1>2. /\ pc = "allocating" /\ ~BlocksMissing
      /\ AddInodeToParent(parent, child, inode[child])
      /\ pc' = "idle" /\ child' = NULL /\ freed' = 0
      /\ UNCHANGED <<bat, root, num_inode_ids, suspect>>
  BY DEF LinkFile, Return
<1>3. PICK c \in DOMAIN inode : c = child
  BY <1>1, <1>2 DEF IInv, TypeOK
<1>4. PICK p \in DOMAIN inode : p = parent
  BY <1>1, <1>2 DEF IInv, TypeOK, Directories
<1>5. c # p /\ c \in Ptr \ {p} /\ inode[c] \in InodeRecord /\ inode[p].is_directory /\ c # root
  BY <1>1, <1>2, <1>3, <1>4, RecordFields DEF IInv, TypeOK, Directories, LinksOK
<1>6. /\ inode[c].id = num_inode_ids - 1 /\ ~inode[c].is_directory
      /\ Len(inode[c].blocks) <= BlocksNeeded(inode[c].filesize)
      /\ inode[c].name # inode[p].name
      /\ \A q \in ChildrenOf(p) : inode[q].name # inode[c].name
  BY <1>2, <1>3, <1>4 DEF TreeInv, CreatedOK
<1>7. inode[c].children = <<>> /\ ChildrenOf(c) = {}
  BY <1>1, <1>6, RecordFields, ChildrenChange DEF TreeInv, KindsOK
<1> DEFINE record == inode[c]
<1>8. record.children = <<>> /\ record \in InodeRecord /\ AddInodeToParent(p, c, record)
  BY <1>2, <1>3, <1>4, <1>5, <1>7
<1>9. /\ DOMAIN inode' = DOMAIN inode
      /\ inode'[c] = inode[c] /\ ChildrenOf(c)' = {}
      /\ Kept(p) /\ ChildrenOf(p)' = ChildrenOf(p) \cup {c}
      /\ \A q \in DOMAIN inode \ {p, c} : Same(q)
  <2> HIDE DEF record
  <2>1. /\ DOMAIN inode' = DOMAIN inode \cup {c}
        /\ inode'[c] = record /\ ChildrenOf(c)' = {}
        /\ Kept(p) /\ ChildrenOf(p)' = ChildrenOf(p) \cup {c}
        /\ \A q \in DOMAIN inode \ {p, c} : Same(q)
    BY <1>1, <1>5, <1>8, ChildEffect
  <2>2. QED
    BY <2>1 DEF record
<1> HIDE DEF record
<1>10. \A q \in DOMAIN inode : Kept(q) /\ (q # p => ChildrenOf(q)' = ChildrenOf(q))
  BY <1>7, <1>9 DEF Same, Kept
<1>11. IdsUnique'
  BY <1>2, <1>9, <1>10 DEF TreeInv, IdsUnique, Kept
<1>12. NamesDiffer' /\ IdsGrow'
  <2>1. \A q \in DOMAIN inode : c \notin ChildrenOf(q)
    BY <1>1, <1>2, <1>3, ChildrenOnHeap DEF Creating
  <2>2. inode[p].id < inode[c].id
    <3>1. inode[p].id < num_inode_ids /\ inode[p].id # inode[c].id
      BY <1>5 DEF TreeInv, IdsUnique
    <3>2. inode[p].id \in Nat /\ num_inode_ids \in Nat
      BY <1>1, RecordFields DEF IInv, TypeOK
    <3>3. QED
      BY <1>6, <3>1, <3>2
  <2>3. DOMAIN inode' = DOMAIN inode \cup {c}
    BY <1>9
  <2>4. QED
    BY <1>1, <1>5, <1>6, <1>9, <1>10, <2>1, <2>2, <2>3, GrownTree DEF TreeInv, Kept
<1>13. RootFirst' /\ NoOrphans'
  <2>1. RootFirst'
    BY <1>2, <1>9 DEF TreeInv, RootFirst
  <2>2. \A q, r \in DOMAIN inode : q \in ChildrenOf(r) => q \in ChildrenOf(r)'
    BY <1>9, <1>10
  <2>3. CallersFind => \A q \in DOMAIN inode \ {root} :
            q = c \/ \E r \in DOMAIN inode : q \in ChildrenOf(r)
    BY <1>3 DEF TreeInv, NoOrphans, Creating
  <2>4. QED
    BY <1>2, <1>9, <2>1, <2>2, <2>3 DEF NoOrphans
<1>14. KindsOK'
  <2>1. Len(inode[c].blocks) = BlocksNeeded(inode[c].filesize)
    <3>1. Len(inode[c].blocks) \in Nat /\ inode[c].filesize \in Nat
      BY <1>1, RecordFields
    <3>2. BlocksNeeded(inode[c].filesize) \in Int
      BY <3>1 DEF BlocksNeeded, BLOCKSIZE
    <3>3. QED
      BY <1>2, <1>3, <1>6, <3>1, <3>2 DEF BlocksMissing
  <2>2. QED
    BY <1>2, <1>3, <1>5, <1>9, <1>10, <2>1 DEF TreeInv, KindsOK, Kept, Creating
<1>15. CreatedOK' /\ DeletedOK'
  BY <1>2 DEF CreatedOK, DeletedOK
<1>16. LeakedForGood'
  <2>1. \A q \in DOMAIN inode : Unfreed(q)' \subseteq Unfreed(q)
    BY <1>2, <1>10 DEF Unfreed, Kept
  <2>2. QED
    BY <1>2, <1>9, <1>10, <2>1, SameLeaks DEF TreeInv, Kept
<1>17. QED
  BY <1>1, <1>11, <1>12, <1>13, <1>14, <1>15, <1>16 DEF TreeInv

-------------------------------------------------------------------------------
(* delete_file, delete_dir and the loop that frees keep it *)

\* A node that was found by name in p is the first child with its name: the
\* loop of delete picks the node it was given.
LEMMA PicksGivenNode ==
    ASSUME TreeInv, CallersFind, NEW p \in Directories, NEW n \in Deletable(p),
           inode[n].children = <<>>,
           NEW q \in ChildrenOf(p), FirstNamed(p, inode[n].name, q)
    PROVE  q = n
<1>1. IInv /\ p \in DOMAIN inode /\ n \in DOMAIN inode
  BY DEF TreeInv, Directories, Deletable, Linked
<1>2. PICK name \in Names : FindInodeByName(p, name, n)
  BY DEF Deletable
<1>3. n # NULL
  BY <1>1, InodeAssumption DEF IInv, TypeOK
<1>4. n # p
  BY DEF ChildrenOf
<1>5. n \in ChildrenOf(p)
  BY <1>2, <1>3, <1>4 DEF FindInodeByName, FirstNamed, ChildrenOf
<1>6. inode[q].name = inode[n].name
  BY DEF FirstNamed
<1>7. QED
  BY <1>1, <1>5, <1>6 DEF TreeInv, NamesDiffer

\* A step that leaves the inodes alone keeps the tree.
LEMMA StillTree ==
    ASSUME TreeInv, UNCHANGED <<inode, root, num_inode_ids>>,
           \A q \in DOMAIN inode : Creating(q)' <=> Creating(q)
    PROVE  /\ IdsUnique' /\ NamesDiffer' /\ IdsGrow'
           /\ RootFirst' /\ NoOrphans' /\ KindsOK'
<1>1. \A p \in DOMAIN inode : ChildrenOf(p)' = ChildrenOf(p)
  BY DEF ChildrenOf
<1>2. IdsUnique' /\ RootFirst'
  BY DEF TreeInv, IdsUnique, RootFirst
<1>3. NamesDiffer'
  BY <1>1 DEF TreeInv, NamesDiffer
<1>4. IdsGrow'
  BY <1>1 DEF TreeInv, IdsGrow
<1>5. NoOrphans'
  BY <1>1 DEF TreeInv, NoOrphans
<1>6. KindsOK'
  BY <1>1 DEF TreeInv, KindsOK
<1>7. QED
  BY <1>2, <1>3, <1>4, <1>5, <1>6

\* The child that delete picks is the inode it was given.
LEMMA PickToDeleteTree ==
    ASSUME TreeInv, pc = "idle", NEW p \in Directories, NEW n \in Deletable(p),
           PickToDelete(p, n)
    PROVE  TreeInv'
<1>1. IInv /\ IInv'
  BY PickToDeleteInv DEF TreeInv, Deletable
<1>2. PICK q \in ChildrenOf(p) : FirstNamed(p, inode[n].name, q) /\ child' = q
  BY DEF PickToDelete
<1>3. /\ inode[n].children = <<>>
      /\ pc' = "freeing" /\ parent' = p /\ node' = n
      /\ UNCHANGED <<bat, inode, root, num_inode_ids, freed, suspect>>
  BY DEF PickToDelete
<1>4. p \in DOMAIN inode /\ q \in DOMAIN inode
  BY <1>1, ChildrenOnHeap DEF Directories
<1>5. \A r \in DOMAIN inode : ~Creating(r) /\ ~Creating(r)'
  BY <1>3 DEF Creating
<1>6. IdsUnique' /\ NamesDiffer' /\ IdsGrow' /\ RootFirst' /\ NoOrphans' /\ KindsOK'
  BY <1>3, <1>5, StillTree
<1>7. CreatedOK'
  BY <1>3 DEF CreatedOK
<1>8. DeletedOK'
  <2>1. q \in ChildrenOf(p)'
    BY <1>3 DEF ChildrenOf
  <2>2. CallersFind => q = n /\ ChildrenOf(q)' = {}
    BY <1>2, <1>3, PicksGivenNode DEF ChildrenOf
  <2>3. QED
    BY <1>2, <1>3, <2>1, <2>2 DEF DeletedOK, ChildrenOf
<1>9. LeakedForGood'
  <2>1. \A r \in DOMAIN inode : Unfreed(r)' \subseteq Unfreed(r)
    BY <1>3, <1>5 DEF Unfreed
  <2>2. QED
    BY <1>3, <2>1, SameLeaks DEF TreeInv
<1>10. QED
  BY <1>1, <1>6, <1>7, <1>8, <1>9 DEF TreeInv

\* A block that is freed is the child's, so it is none of those that are lost.
LEMMA FreeBlockTree == TreeInv /\ FreeBlock => TreeInv'
<1> SUFFICES ASSUME TreeInv, FreeBlock PROVE TreeInv'
    OBVIOUS
<1>1. IInv /\ IInv'
  BY FreeBlockInv DEF TreeInv
<1> DEFINE k == freed + 1
<1>2. /\ pc \in {"rolling_back", "freeing"} /\ BlocksToFree
      /\ bat' = Cleared(bat, inode[child].blocks[k]) /\ freed' = k
      /\ UNCHANGED <<inode, root, num_inode_ids, pc, parent, node, child, suspect>>
  BY DEF FreeBlock
<1>3. \A r \in DOMAIN inode : Creating(r)' <=> Creating(r)
  BY <1>2 DEF Creating
<1>4. IdsUnique' /\ NamesDiffer' /\ IdsGrow' /\ RootFirst' /\ NoOrphans' /\ KindsOK'
  BY <1>2, <1>3, StillTree
<1>6. CreatedOK' /\ DeletedOK'
  BY <1>2 DEF TreeInv, CreatedOK, DeletedOK, ChildrenOf
<1>7. LeakedForGood'
  <2>1. PICK c \in DOMAIN inode : c = child
    BY <1>1, <1>2 DEF IInv, TypeOK
  <2>2. freed \in Nat /\ inode[c].blocks \in Seq(Blocks)
    BY <1>1, RecordFields DEF IInv, TypeOK
  <2>3. k \in Unfreed(c) /\ k \in Nat
    BY <1>2, <2>1, <2>2 DEF Unfreed, BlocksToFree
  <2>4. \A b \in suspect : b # inode[c].blocks[k] /\ b \in Blocks
    BY <1>1, <2>3 DEF TreeInv, LeakedForGood, IInv, TypeOK
  <2>5. \A b \in suspect : bat'[b] = 1
    <3>1. inode[c].blocks[k] \in Blocks /\ bat \in Table \cup {EmptyFile}
      BY <1>1, <2>2, <2>3 DEF Unfreed, IInv, TypeOK
    <3>2. QED
      BY <1>2, <2>1, <2>4, <3>1, ClearedTable DEF TreeInv, LeakedForGood
  <2>6. \A r \in DOMAIN inode : Unfreed(r)' \subseteq Unfreed(r)
    <3> SUFFICES ASSUME NEW r \in DOMAIN inode, NEW i \in Unfreed(r)'
                 PROVE  i \in Unfreed(r)
        OBVIOUS
    <3>1. inode[r].blocks \in Seq(Blocks) /\ i \in DOMAIN inode[r].blocks
      BY <1>1, <1>2, RecordFields DEF Unfreed
    <3>2. QED
      BY <1>2, <2>2, <3>1 DEF Unfreed
  <2>7. QED
    BY <1>2, <2>5, <2>6 DEF TreeInv, LeakedForGood
<1>8. QED
  BY <1>1, <1>4, <1>6, <1>7 DEF TreeInv

\* Unlinking the child leaves the tree without it: it has no children.
LEMMA UnlinkTree == TreeInv /\ Unlink => TreeInv'
<1> SUFFICES ASSUME TreeInv, Unlink PROVE TreeInv'
    OBVIOUS
<1>1. IInv /\ IInv'
  BY UnlinkInv DEF TreeInv
<1>2. /\ pc = "freeing" /\ pc' = "idle" /\ child' = NULL /\ freed' = 0
      /\ UNCHANGED <<bat, root, num_inode_ids, suspect>>
  BY DEF Unlink, Return
<1>3. /\ child \in DOMAIN inode
      /\ DOMAIN inode' = DOMAIN inode \ {child}
      /\ \A q \in DOMAIN inode' : Kept(q) /\ ChildrenOf(q)' = ChildrenOf(q) \ {child}
  BY <1>1, UnlinkEffect
<1>4. \A q \in DOMAIN inode' : q \in DOMAIN inode /\ q # child
                               /\ ChildrenOf(q)' \subseteq ChildrenOf(q)
  BY <1>3
<1>5. IdsUnique'
  BY <1>2, <1>3, <1>4 DEF TreeInv, IdsUnique, Kept
<1>6. NamesDiffer' /\ IdsGrow'
  <2>1. \A q \in DOMAIN inode' : \A r \in ChildrenOf(q)' : r \in DOMAIN inode'
    BY <1>1, <1>3, ChildrenOnHeap
  <2>2. QED
    BY <1>3, <1>4, <2>1, ShrunkTree DEF TreeInv, Kept
<1>7. RootFirst'
  BY <1>2, <1>4 DEF TreeInv, RootFirst
<1>8. NoOrphans'
  <2> SUFFICES ASSUME CallersFind, NEW q \in DOMAIN inode' \ {root'}
               PROVE  \E p \in DOMAIN inode' : q \in ChildrenOf(p)'
      BY DEF NoOrphans
  <2>1. ~Creating(q)
    BY <1>2 DEF Creating
  <2>2. PICK p \in DOMAIN inode : q \in ChildrenOf(p)
    BY <1>2, <1>4, <2>1 DEF TreeInv, NoOrphans
  <2>3. p # child
    <3>1. PICK c \in DOMAIN inode : c = child
      BY <1>3
    <3>2. ChildrenOf(c) = {}
      BY <1>2, <3>1 DEF TreeInv, DeletedOK
    <3>3. QED
      BY <2>2, <3>1, <3>2
  <2>4. QED
    BY <1>3, <2>2, <2>3
<1>9. KindsOK'
  BY <1>2, <1>3, <1>4 DEF TreeInv, KindsOK, Kept, Creating
<1>10. CreatedOK' /\ DeletedOK'
  BY <1>2 DEF CreatedOK, DeletedOK
<1>11. LeakedForGood'
  <2>1. \A q \in DOMAIN inode' : Unfreed(q)' \subseteq Unfreed(q)
    BY <1>2, <1>3, <1>4 DEF Unfreed, Kept
  <2>2. QED
    BY <1>2, <1>3, <1>4, <2>1, SameLeaks DEF TreeInv, Kept
<1>12. QED
  BY <1>1, <1>5, <1>6, <1>7, <1>8, <1>9, <1>10, <1>11 DEF TreeInv

-------------------------------------------------------------------------------
(* The theorems about the tree *)

\* Every step of Next keeps the invariant.
LEMMA NextTreeInv == TreeInv /\ [Next]_vars => TreeInv'
<1> SUFFICES ASSUME TreeInv, [Next]_vars PROVE TreeInv'
    OBVIOUS
<1>1. CASE CreateRoot
  BY <1>1, CreateRootTree
<1>2. ASSUME NEW p \in Directories, NEW name \in Names, CreateDir(p, name) PROVE TreeInv'
  BY <1>2, CreateDirTree
<1>3. ASSUME NEW p \in Directories, NEW name \in Names, NEW size \in Sizes,
             CreateFile(p, name, size)
      PROVE  TreeInv'
  BY <1>3, CreateFileTree
<1>4. ASSUME NEW p \in Directories, NEW n \in Deletable(p),
             DeleteFile(p, n) \/ DeleteDir(p, n)
      PROVE  TreeInv'
  <2>1. pc = "idle" /\ PickToDelete(p, n)
    BY <1>4 DEF DeleteFile, DeleteDir
  <2>2. QED
    BY <2>1, PickToDeleteTree
<1>5. CASE Internal
  BY <1>5, AllocateBlockTree, AllocateFailsTree, FreeBlockTree, RollBackDoneTree,
     LinkFileTree, LinkFailsTree, UnlinkTree DEF Internal
<1>6. CASE UNCHANGED vars
  <2>1. IInv'
    BY <1>6, NextIInv DEF TreeInv
  <2>2. IdsUnique' /\ NamesDiffer' /\ IdsGrow' /\ RootFirst' /\ NoOrphans' /\ KindsOK'
    BY <1>6, StillTree DEF vars, Creating
  <2>3. CreatedOK' /\ DeletedOK'
    BY <1>6 DEF vars, TreeInv, CreatedOK, DeletedOK, ChildrenOf
  <2>4. LeakedForGood'
    BY <1>6 DEF vars, TreeInv, LeakedForGood, Unfreed
  <2>5. QED
    BY <2>1, <2>2, <2>3, <2>4 DEF TreeInv
<1>7. QED
  BY <1>1, <1>2, <1>3, <1>4, <1>5, <1>6 DEF Next, Create, Delete

\* The invariant holds in every behaviour.
LEMMA SpecTreeInv == Spec => []TreeInv
BY InitTreeInv, NextTreeInv, PTL DEF Spec

\* The set of children has the names of the array.
LEMMA TreeUniqueNames == TreeInv => UniqueNames
<1> SUFFICES ASSUME TreeInv, NEW p \in DOMAIN inode, NEW i \in DOMAIN inode[p].children
             PROVE  /\ inode[inode[p].children[i]].name # inode[p].name
                    /\ \A j \in DOMAIN inode[p].children :
                          inode[inode[p].children[i]].name = inode[inode[p].children[j]].name
                             => i = j
    BY DEF UniqueNames
<1>1. \A j \in DOMAIN inode[p].children : inode[p].children[j] \in ChildrenOf(p)
  BY DEF ChildrenOf
<1>2. \A j \in DOMAIN inode[p].children : inode[p].children[i] = inode[p].children[j] => i = j
  BY DEF TreeInv, IInv, LinksOK
<1>3. QED
  BY <1>1, <1>2 DEF TreeInv, NamesDiffer

\* The parts of the invariant that say what a tree is.
LEMMA TreeIsTree == CallersFind /\ TreeInv => InodesFormTree
<1> SUFFICES ASSUME CallersFind, TreeInv PROVE InodesFormTree
    OBVIOUS
<1>1. \A p \in DOMAIN inode : ChildrenOf(p) \subseteq DOMAIN inode \ {root}
  BY ChildrenOnHeap DEF TreeInv
<1>2. QED
  BY <1>1 DEF TreeInv, InodesFormTree, NoOrphans, IdsGrow, IInv, LinksOK

\* A file in the tree is not the one being created.
LEMMA TreeIsComplete == TreeInv => FilesAreComplete
<1> SUFFICES ASSUME TreeInv, NEW p \in Linked \ {child}, ~inode[p].is_directory
             PROVE  Len(inode[p].blocks) = BlocksNeeded(inode[p].filesize)
    BY DEF FilesAreComplete
<1>1. p \in DOMAIN inode /\ ~Creating(p)
  BY DEF Linked, Creating
<1>2. QED
  BY <1>1 DEF TreeInv, KindsOK

\* No two inodes of a directory, nor the directory and one of its inodes, have
\* the same name, for any number of inodes and in the middle of every call:
\* what find_inode_by_name finds is the only inode it could mean.
THEOREM UniqueNamesHolds == Spec => []UniqueNames
BY SpecTreeInv, TreeUniqueNames, PTL

\* inode.c:34-38: next_inode_id gives each inode of a program an id of its
\* own, although a create_file that fails gives its id back.
THEOREM IdsUniqueHolds == Spec => []IdsUnique
<1>1. TreeInv => IdsUnique
  BY DEF TreeInv
<1>2. QED
  BY <1>1, SpecTreeInv, PTL

\* Every file in the tree has all the blocks its size needs, whatever else
\* was tried on a disk that was too full for it.
THEOREM FilesAreCompleteHolds == Spec => []FilesAreComplete
BY SpecTreeInv, TreeIsComplete, PTL

\* The inodes form one tree, whatever is created and deleted in whatever order,
\* as long as callers delete what they have found.
THEOREM InodesFormTreeHolds == ASSUME CallersFind PROVE Spec => []InodesFormTree
<1>1. TreeInv => InodesFormTree
  BY TreeIsTree
<1>2. QED
  BY <1>1, SpecTreeInv, PTL

-------------------------------------------------------------------------------
(* What delete removes *)

\* Every inode is in the tree but the one that is being created.
LEMMA LinkedIs ==
    ASSUME TreeInv, CallersFind
    PROVE  /\ Linked = {q \in DOMAIN inode : ~Creating(q)}
           /\ Visible = DOMAIN inode \ {child}
<1>1. \A p \in DOMAIN inode : \A q \in ChildrenOf(p) : ~Creating(q)
  BY ChildrenOnHeap DEF TreeInv
<1>2. \A q \in DOMAIN inode : q = root => ~Creating(q)
  BY DEF TreeInv, IInv, LinksOK, Creating
<1>3. Linked = {q \in DOMAIN inode : ~Creating(q)}
  BY <1>1, <1>2 DEF TreeInv, NoOrphans, Linked
<1>4. pc = "idle" => child \notin DOMAIN inode
  BY InodeAssumption DEF TreeInv, IInv, TypeOK
<1>5. pc \in {"idle", "allocating", "rolling_back", "freeing"}
  BY DEF TreeInv, IInv, TypeOK
<1>6. Visible = DOMAIN inode \ {child}
  BY <1>3, <1>4, <1>5 DEF Visible, Creating
<1>7. QED
  BY <1>3, <1>6

\* A step of the system takes the inodes away that were being created, and the
\* one that is being deleted, and no others.
LEMMA WhatGoes ==
    ASSUME TreeInv, [Next]_vars, NEW q \in DOMAIN inode, q \notin DOMAIN inode'
    PROVE  Creating(q) \/ (pc = "freeing" /\ q = child /\ Unlink)
<1>1. ASSUME NEW new, NEW record, inode' = With(new, record) PROVE FALSE
  BY <1>1 DEF With
<1>2. ASSUME NEW p, NEW new, NEW record, AddInodeToParent(p, new, record) PROVE FALSE
  BY <1>2 DEF With, AddInodeToParent
<1>3. ASSUME inode' = inode PROVE FALSE
  BY <1>3
<1>4. CASE AllocateBlock
  BY <1>4 DEF AllocateBlock
<1>5. CASE RollBackDone \/ LinkFails
  BY <1>5 DEF RollBackDone, LinkFails, Without, Creating
<1>6. CASE Unlink
  BY <1>6, UnlinkEffect DEF TreeInv, Unlink
<1>7. CASE AllocateFails \/ FreeBlock \/ LinkFile \/ UNCHANGED vars
  BY <1>7, <1>2, <1>3 DEF AllocateFails, FreeBlock, LinkFile, vars
<1>8. CASE Create
  BY <1>8, <1>1, <1>2 DEF Create, CreateRoot, CreateDir, CreateFile
<1>9. CASE Delete
  BY <1>9, <1>3 DEF Delete, DeleteFile, DeleteDir, PickToDelete
<1>10. QED
  BY <1>4, <1>5, <1>6, <1>7, <1>8, <1>9 DEF Next, Internal

\* An inode that is being created was not on the heap before the call.
LEMMA CreatingIsNew ==
    ASSUME [Next]_vars, NEW q \in DOMAIN inode, Creating(q)'
    PROVE  Creating(q)
<1>1. CASE Internal
  BY <1>1 DEF Internal, AllocateBlock, AllocateFails, FreeBlock, RollBackDone, LinkFile,
              LinkFails, Unlink, Return, Creating
<1>2. CASE Create
  BY <1>2 DEF Create, CreateRoot, CreateDir, CreateFile, Creating
<1>3. CASE Delete
  BY <1>3 DEF Delete, DeleteFile, DeleteDir, PickToDelete, Creating
<1>4. CASE UNCHANGED vars
  BY <1>4 DEF vars, Creating
<1>5. QED
  BY <1>1, <1>2, <1>3, <1>4 DEF Next

\* What leaves the tree in a step is the node that delete was given.
LEMMA DeleteStep ==
    ASSUME TreeInv, TreeInv', CallersFind, [Next]_vars, NEW p \in Linked \ Linked'
    PROVE  p = node
<1>1. p \in DOMAIN inode /\ ~Creating(p)
  BY LinkedIs
<1>2. p \notin DOMAIN inode'
  <2> SUFFICES ASSUME p \in DOMAIN inode' PROVE FALSE
      OBVIOUS
  <2>1. ~Creating(p)'
    BY <1>1, CreatingIsNew
  <2>2. p \in Linked'
    BY <2>1 DEF TreeInv, NoOrphans, Linked
  <2>3. QED
    BY <2>2
<1>3. QED
  BY <1>1, <1>2, WhatGoes DEF TreeInv, DeletedOK

\* inode.h:64 and 72: delete_file and delete_dir go by name, and still remove
\* the inode they are given, if callers find it by name first.
THEOREM DeletesGivenNodeHolds == ASSUME CallersFind PROVE Spec => DeletesGivenNode
<1>1. TreeInv /\ TreeInv' /\ [Next]_vars => [\A p \in Linked \ Linked' : p = node]_vars
  BY DeleteStep
<1>2. QED
  BY <1>1, SpecTreeInv, PTL DEF Spec, DeletesGivenNode

-------------------------------------------------------------------------------
(* The file system that FileSystem describes *)

\* What FileSystem's variables stand for.
Node(p) == [dir |-> ParentOf(p), name |-> inode[p].name,
            is_directory |-> inode[p].is_directory,
            size |-> inode[p].filesize, blocks |-> BlocksOf(p)]

Nodes == [p \in Visible |-> Node(p)]

Unused == {b \in Blocks : bat[b] = 0} \cup InProgress

\* Every inode but the one of the running call can be seen; a child has one
\* parent, and every inode that can be seen, but the root, has one.
TreeView ==
    CallersFind =>
        /\ Visible = DOMAIN inode \ {child}
        /\ ParentOf(root) = NULL
        /\ \A p \in DOMAIN inode : \A q \in ChildrenOf(p) :
              q # root /\ q # NULL /\ p # NULL /\ ParentOf(q) = p
        /\ \A q \in Visible : q = root \/ \E p \in DOMAIN inode : q \in ChildrenOf(p)

\* The invariant gives this view.
LEMMA ViewOfTree == TreeInv => TreeView
<1> SUFFICES ASSUME TreeInv, CallersFind
             PROVE  /\ Visible = DOMAIN inode \ {child}
                    /\ ParentOf(root) = NULL
                    /\ \A p \in DOMAIN inode : \A q \in ChildrenOf(p) :
                          q # root /\ q # NULL /\ p # NULL /\ ParentOf(q) = p
                    /\ \A q \in Visible : q = root \/ \E p \in DOMAIN inode : q \in ChildrenOf(p)
    BY DEF TreeView
<1>1. NULL \notin DOMAIN inode
  BY InodeAssumption DEF TreeInv, IInv, TypeOK
<1>2. \A p \in DOMAIN inode : \A q \in ChildrenOf(p) :
          q # root /\ q # NULL /\ p # NULL /\ ParentOf(q) = p
  BY <1>1, ChildrenOnHeap DEF TreeInv, ParentOf
<1>3. ParentOf(root) = NULL
  BY DEF ParentOf
<1>4. \A q \in Visible : q = root \/ \E p \in DOMAIN inode : q \in ChildrenOf(p)
  BY LinkedIs DEF TreeInv, NoOrphans, Creating
<1>5. QED
  BY <1>2, <1>3, <1>4, LinkedIs

\* It does so after a step as well.
LEMMA NextView == TreeInv' => TreeView'
BY ViewOfTree, PTL

\* A step keeps the node of an inode if it keeps its fields and its parent.
LEMMA SameNode ==
    ASSUME TreeInv, TreeInv', CallersFind, root' = root, NEW q \in Visible, Kept(q),
           \A p \in DOMAIN inode : q \in ChildrenOf(p) =>
              p \in DOMAIN inode' /\ q \in ChildrenOf(p)'
    PROVE  Node(q)' = Node(q)
<1>1. BlocksOf(q)' = BlocksOf(q)
  BY DEF BlocksOf, Kept
<1>2. ParentOf(q)' = ParentOf(q)
  <2>1. CASE q = root
    BY <2>1, ViewOfTree, NextView DEF TreeView, ParentOf
  <2>2. CASE q # root
    BY <2>2, ViewOfTree, NextView DEF TreeView
  <2>3. QED
    BY <2>1, <2>2
<1>3. QED
  BY <1>1, <1>2 DEF Node, Kept

\* A step that keeps the fields and the parents of all that can be seen.
LEMMA SameNodes ==
    ASSUME TreeInv, TreeInv', CallersFind, root' = root, Visible' = Visible,
           \A q \in Visible : Kept(q),
           \A q \in Visible : \A p \in DOMAIN inode : q \in ChildrenOf(p) =>
              p \in DOMAIN inode' /\ q \in ChildrenOf(p)'
    PROVE  Nodes' = Nodes
<1>1. \A q \in Visible : Node(q)' = Node(q)
  BY SameNode
<1>2. QED
  BY <1>1 DEF Nodes

\* A step that puts new into a directory p, as node of the tree.
LEMMA EnterNode ==
    ASSUME TreeInv, TreeInv', CallersFind, root' = root, NEW new, new \notin Visible,
           Visible' = Visible \cup {new}, NEW p \in DOMAIN inode',
           new \in ChildrenOf(p)',
           \A q \in Visible : Kept(q),
           \A q \in Visible : \A r \in DOMAIN inode : q \in ChildrenOf(r) =>
              r \in DOMAIN inode' /\ q \in ChildrenOf(r)'
    PROVE  Nodes' = [q \in Visible \cup {new} |->
                        IF q = new THEN [dir |-> p, name |-> inode'[new].name,
                                         is_directory |-> inode'[new].is_directory,
                                         size |-> inode'[new].filesize,
                                         blocks |-> BlocksOf(new)']
                        ELSE Nodes[q]]
<1>1. \A q \in Visible : q # new /\ Node(q)' = Nodes[q]
  BY SameNode DEF Nodes
<1>2. ParentOf(new)' = p
  BY NextView DEF TreeView
<1>3. Node(new)' = [dir |-> p, name |-> inode'[new].name,
                    is_directory |-> inode'[new].is_directory,
                    size |-> inode'[new].filesize, blocks |-> BlocksOf(new)']
  BY <1>2 DEF Node
<1>4. Nodes' = [q \in Visible \cup {new} |-> Node(q)']
  BY DEF Nodes
<1>5. QED
  BY <1>1, <1>3, <1>4

\* Initially there is neither an inode nor a block in use.
LEMMA InitFS == CallersFind /\ Init => FS!Init
<1> SUFFICES ASSUME CallersFind, Init PROVE FS!Init
    OBVIOUS
<1>1. Visible = {}
  BY DEF Init, Visible, Linked
<1>2. {b \in Blocks : bat[b] = 0} \cup InProgress = Blocks
  BY DEF Init, FormattedTable, InProgress
<1>3. QED
  BY <1>1, <1>2 DEF FS!Init

\* What a step does to the unused blocks when no call is working on a file.
LEMMA NoFileInWork == child = NULL => InProgress = {}
BY DEF InProgress

\* Between calls all inodes can be seen.
LEMMA IdleFacts ==
    ASSUME TreeInv, CallersFind, pc = "idle"
    PROVE  child = NULL /\ child \notin DOMAIN inode /\ Visible = DOMAIN inode
<1>1. child = NULL /\ child \notin DOMAIN inode
  BY InodeAssumption DEF TreeInv, IInv, TypeOK
<1>2. QED
  BY <1>1, ViewOfTree DEF TreeView

\* create_dir without a parent makes the root.
LEMMA CreateRootFS ==
    ASSUME TreeInv, TreeInv', CallersFind, CreateRoot PROVE FS!CreateRoot
<1>1. DOMAIN inode = {} /\ pc = "idle"
  BY DEF TreeInv, RootFirst, CreateRoot
<1>2. Visible = {} /\ child = NULL
  BY <1>1, IdleFacts
<1>3. PICK new \in Ptr \ DOMAIN inode :
          /\ inode' = With(new, NewDirectory(num_inode_ids, RootName))
          /\ root' = new
  BY DEF CreateRoot
<1>4. UNCHANGED <<bat, child, freed, pc>>
  BY DEF CreateRoot
<1>5. /\ DOMAIN inode' = {new} /\ inode'[new] = NewDirectory(num_inode_ids, RootName)
  BY <1>1, <1>3 DEF With
<1>6. new # NULL /\ Visible' = {new}
  BY <1>2, <1>3, <1>4, <1>5, InodeAssumption, NextView DEF TreeView
<1>7. BlocksOf(new)' = {}
  BY <1>5 DEF BlocksOf, NewDirectory
<1>8. ParentOf(new)' = NULL
  BY <1>3, NextView DEF TreeView
<1>9. Node(new)' = [dir |-> NULL, name |-> RootName, is_directory |-> TRUE, size |-> 0,
                    blocks |-> {}]
  BY <1>5, <1>7, <1>8 DEF Node, NewDirectory
<1>10. Nodes' = [q \in {new} |-> Node(q)']
  BY <1>6 DEF Nodes
<1>11. /\ DOMAIN Nodes = {} /\ new \in Ptr \ DOMAIN Nodes
       /\ Nodes' = [p \in DOMAIN Nodes \cup {new} |->
                       IF p = new THEN [dir |-> NULL, name |-> RootName, is_directory |-> TRUE,
                                        size |-> 0, blocks |-> {}]
                       ELSE Nodes[p]]
  BY <1>2, <1>3, <1>9, <1>10 DEF Nodes
<1>12. Unused' = Unused
  BY <1>2, <1>4, NoFileInWork DEF Unused, InProgress
<1>13. QED
  BY <1>11, <1>12 DEF FS!CreateRoot, FS!Enter, Nodes, Node, Unused

\* create_dir makes a directory at once.
LEMMA CreateDirFS ==
    ASSUME TreeInv, TreeInv', CallersFind, NEW p \in Directories, NEW name \in Names,
           CreateDir(p, name)
    PROVE  p \in DOMAIN Nodes /\ FS!CreateDir(p, name)
<1>1. /\ IInv /\ pc = "idle" /\ child = NULL /\ Visible = DOMAIN inode
      /\ p \in DOMAIN inode /\ inode[p].is_directory
  BY IdleFacts DEF TreeInv, CreateDir, Directories
<1>2. PICK new \in Ptr \ DOMAIN inode :
          AddInodeToParent(p, new, NewDirectory(num_inode_ids, name))
  BY DEF CreateDir
<1>3. UNCHANGED <<bat, root, child, freed, pc>> /\ num_inode_ids \in Nat
  BY <1>1 DEF CreateDir, IInv, TypeOK
<1> DEFINE record == NewDirectory(num_inode_ids, name)
<1>4. /\ record \in InodeRecord /\ record.name = name
      /\ record.is_directory = TRUE /\ record.filesize = 0
      /\ record.children = <<>> /\ record.blocks = <<>>
      /\ AddInodeToParent(p, new, record) /\ new \in Ptr \ {p}
  BY <1>1, <1>2, <1>3, NewFields DEF NewDirectory
<1> HIDE DEF record
<1>5. /\ DOMAIN inode' = DOMAIN inode \cup {new}
      /\ inode'[new] = record
      /\ Kept(p) /\ ChildrenOf(p)' = ChildrenOf(p) \cup {new}
      /\ \A q \in DOMAIN inode \ {p, new} : Same(q)
  BY <1>1, <1>4, ChildEffect
<1>6. \A q \in DOMAIN inode : Kept(q) /\ \A r \in ChildrenOf(q) : r \in ChildrenOf(q)'
  BY <1>5 DEF Same
<1>7. Visible' = Visible \cup {new} /\ new \notin Visible
  <2>1. NULL \notin DOMAIN inode \cup {new} /\ new \notin DOMAIN inode
    BY <1>1, <1>2, InodeAssumption DEF IInv, TypeOK
  <2>2. Visible' = DOMAIN inode' \ {NULL}
    BY <1>1, <1>3, NextView DEF TreeView
  <2>3. QED
    BY <1>1, <1>5, <2>1, <2>2
<1>8. BlocksOf(new)' = {}
  BY <1>4, <1>5 DEF BlocksOf
<1>9. Nodes' = [q \in Visible \cup {new} |->
                  IF q = new THEN [dir |-> p, name |-> inode'[new].name,
                                   is_directory |-> inode'[new].is_directory,
                                   size |-> inode'[new].filesize,
                                   blocks |-> BlocksOf(new)']
                  ELSE Nodes[q]]
  BY <1>1, <1>3, <1>5, <1>6, <1>7, EnterNode
<1>10. Nodes' = [q \in DOMAIN Nodes \cup {new} |->
                  IF q = new THEN [dir |-> p, name |-> name, is_directory |-> TRUE,
                                   size |-> 0, blocks |-> {}]
                  ELSE Nodes[q]]
  BY <1>4, <1>5, <1>8, <1>9 DEF Nodes
<1>11. Unused' = Unused
  BY <1>1, <1>3, NoFileInWork DEF Unused, InProgress
<1>12. FS!NameIsFree(p, name)
  <2>1. /\ name # inode[p].name
        /\ \A q \in ChildrenOf(p) : inode[q].name # name
    BY <1>1, NameIsNew DEF CreateDir
  <2>2. \A q \in Visible : ParentOf(q) = p => q \in ChildrenOf(p)
    BY <1>1, ViewOfTree, InodeAssumption DEF TreeView, TreeInv, IInv, TypeOK
  <2>3. QED
    BY <1>1, <2>1, <2>2 DEF FS!NameIsFree, FS!Siblings
<1>13. QED
  BY <1>1, <1>2, <1>10, <1>11, <1>12 DEF FS!CreateDir, FS!Enter, Nodes, Node, Unused

\* create_file up to its loop changes nothing that can be seen.
LEMMA CreateFileFS ==
    ASSUME TreeInv, TreeInv', CallersFind, NEW p \in Directories, NEW name \in Names,
           NEW size \in Sizes, CreateFile(p, name, size)
    PROVE  Nodes' = Nodes /\ Unused' = Unused
<1>1. /\ IInv /\ pc = "idle" /\ child = NULL /\ Visible = DOMAIN inode
  BY IdleFacts DEF TreeInv, CreateFile
<1>2. PICK new \in Ptr \ DOMAIN inode :
          /\ inode' = With(new, NewFile(num_inode_ids, name, size))
          /\ child' = new
  BY DEF CreateFile
<1>3. UNCHANGED <<bat, root>>
  BY DEF CreateFile
<1>4. /\ DOMAIN inode' = DOMAIN inode \cup {new}
      /\ inode'[new].blocks = <<>>
      /\ \A q \in DOMAIN inode : inode'[q] = inode[q]
  BY <1>2 DEF With, NewFile
<1>5. \A q \in DOMAIN inode : Same(q)
  BY <1>4, SameInode
<1>6. Visible' = Visible
  <2>1. Visible' = DOMAIN inode' \ {child'}
    BY NextView DEF TreeView
  <2>2. QED
    BY <1>1, <1>2, <1>4, <2>1
<1>7. Nodes' = Nodes
  BY <1>1, <1>3, <1>4, <1>5, <1>6, SameNodes DEF Same
<1>8. InProgress' = {} /\ InProgress = {}
  BY <1>1, <1>2, <1>4 DEF InProgress, Unfreed
<1>9. QED
  BY <1>3, <1>7, <1>8 DEF Unused

\* The child of a running call, and the blocks that are still its own.
LEMMA CallFacts ==
    ASSUME TreeInv, CallersFind, pc # "idle"
    PROVE  /\ IInv /\ child \in DOMAIN inode /\ parent \in DOMAIN inode /\ child # parent
           /\ child # NULL /\ child # root
           /\ Visible = DOMAIN inode \ {child}
           /\ InProgress = {inode[child].blocks[i] : i \in Unfreed(child)}
           /\ InProgress \subseteq Blocks
<1>1. /\ IInv /\ child \in DOMAIN inode /\ parent \in DOMAIN inode /\ child # parent
      /\ child # NULL /\ child # root
  BY InodeAssumption DEF TreeInv, IInv, TypeOK, Directories, LinksOK
<1>2. Visible = DOMAIN inode \ {child}
  BY ViewOfTree DEF TreeView
<1>3. InProgress = {inode[child].blocks[i] : i \in Unfreed(child)}
  BY <1>1 DEF InProgress
<1>4. PICK c \in DOMAIN inode : c = child
  BY <1>1
<1>5. inode[c].blocks \in Seq(Blocks)
  BY <1>1, RecordFields
<1>6. QED
  BY <1>1, <1>2, <1>3, <1>4, <1>5 DEF Unfreed

\* Taking a block for the new file and freeing one of a file's only moves it
\* between the table and the file, which cannot be seen.
LEMMA AllocateBlockFS ==
    ASSUME TreeInv, TreeInv', CallersFind, AllocateBlock
    PROVE  Nodes' = Nodes /\ Unused' = Unused
<1>1. PICK b \in Blocks :
          /\ bat[b] = 0 /\ bat' = [bat EXCEPT ![b] = 1]
          /\ inode' = [inode EXCEPT ![child].blocks = Append(@, b)]
  BY DEF AllocateBlock, IsFirstUnused, Marked
<1>2. /\ pc = "allocating" /\ pc' = "allocating"
      /\ UNCHANGED <<root, child, freed>>
  BY DEF AllocateBlock
<1>3. /\ IInv /\ child \in DOMAIN inode /\ child # NULL
      /\ Visible = DOMAIN inode \ {child}
      /\ InProgress = {inode[child].blocks[i] : i \in Unfreed(child)}
  BY <1>2, CallFacts
<1>4. PICK c \in DOMAIN inode : c = child
  BY <1>3
<1>5. /\ DOMAIN inode' = DOMAIN inode
      /\ \A q \in DOMAIN inode \ {c} : Same(q)
      /\ inode'[c].blocks = Append(inode[c].blocks, b)
      /\ ChildrenOf(c)' = ChildrenOf(c)
  BY <1>1, <1>3, <1>4, BlockEffect
<1>6. Visible' = Visible
  BY <1>2, <1>3, <1>5, NextView DEF TreeView
<1>7. Nodes' = Nodes
  BY <1>2, <1>3, <1>4, <1>5, <1>6, SameNodes DEF Same
<1>8. Unused' = Unused
  <2>1. inode[c].blocks \in Seq(Blocks)
    BY <1>3, RecordFields
  <2>2. /\ DOMAIN inode'[c].blocks = DOMAIN inode[c].blocks \cup {Len(inode[c].blocks) + 1}
        /\ \A i \in DOMAIN inode[c].blocks : inode'[c].blocks[i] = inode[c].blocks[i]
        /\ inode'[c].blocks[Len(inode[c].blocks) + 1] = b
    BY <1>5, <2>1, AppendEffect
  <2>3. Unfreed(c) = DOMAIN inode[c].blocks /\ Unfreed(c)' = DOMAIN inode'[c].blocks
    BY <1>2 DEF Unfreed
  <2>4. InProgress' = {inode'[c].blocks[i] : i \in DOMAIN inode'[c].blocks}
    BY <1>2, <1>3, <1>4, <2>3 DEF InProgress
  <2>5. InProgress = {inode[c].blocks[i] : i \in DOMAIN inode[c].blocks}
    BY <1>3, <1>4, <2>3
  <2>6. InProgress' = InProgress \cup {b}
    BY <2>2, <2>4, <2>5
  <2>7. \A d \in Blocks : bat'[d] = 0 <=> bat[d] = 0 /\ d # b
    <3>1. bat' = Marked(bat, b)
      BY <1>1 DEF Marked
    <3>2. bat[b] = 0 /\ bat \in Table \cup {EmptyFile}
      BY <1>1, <1>3 DEF IInv, TypeOK
    <3>3. \A d \in Blocks : Marked(bat, b)[d] = IF d = b THEN 1 ELSE bat[d]
      BY ONLY <3>2, b \in Blocks, MarkedTable
    <3>4. QED
      BY <3>1, <3>3
  <2>8. QED
    BY <1>1, <2>6, <2>7 DEF Unused
<1>9. QED
  BY <1>7, <1>8

\* A step that leaves the inodes and the running call's child alone.
LEMMA StillNodes ==
    ASSUME TreeInv, TreeInv', CallersFind, UNCHANGED <<inode, root, child>>
    PROVE  Nodes' = Nodes
<1>1. \A q \in DOMAIN inode : Same(q)
  BY SameInode
<1>2. Visible' = Visible /\ Visible \subseteq DOMAIN inode
  BY ViewOfTree, NextView DEF TreeView
<1>3. QED
  BY <1>1, <1>2, SameNodes DEF Same

\* A roll back is not seen when it begins,
LEMMA AllocateFailsFS ==
    ASSUME TreeInv, TreeInv', CallersFind, AllocateFails
    PROVE  Nodes' = Nodes /\ Unused' = Unused
<1>1. /\ pc = "allocating" /\ pc' = "rolling_back"
      /\ UNCHANGED <<bat, inode, root, child, freed>>
  BY DEF AllocateFails
<1>2. freed = 0
  BY <1>1 DEF TreeInv, IInv, TypeOK
<1>3. InProgress' = InProgress
  <2>1. /\ IInv /\ child \in DOMAIN inode
        /\ InProgress = {inode[child].blocks[i] : i \in Unfreed(child)}
    BY <1>1, CallFacts
  <2>2. PICK c \in DOMAIN inode : c = child
    BY <2>1
  <2>3. inode[c].blocks \in Seq(Blocks)
    BY <2>1, RecordFields
  <2>4. Unfreed(c) = Unfreed(c)'
    BY <1>1, <1>2, <2>3 DEF Unfreed
  <2>5. QED
    BY <1>1, <2>2, <2>4 DEF InProgress
<1>4. QED
  BY <1>1, <1>3, StillNodes DEF Unused

\* nor when a block goes back from the child to the table,
LEMMA FreeBlockFS ==
    ASSUME TreeInv, TreeInv', CallersFind, FreeBlock
    PROVE  Nodes' = Nodes /\ Unused' = Unused
<1> DEFINE k == freed + 1
<1>1. /\ pc \in {"rolling_back", "freeing"} /\ BlocksToFree
      /\ bat' = Cleared(bat, inode[child].blocks[k]) /\ freed' = k
      /\ UNCHANGED <<inode, root, pc, child>>
  BY DEF FreeBlock
<1>2. /\ IInv /\ child \in DOMAIN inode /\ child # NULL
      /\ InProgress = {inode[child].blocks[i] : i \in Unfreed(child)}
      /\ InProgress \subseteq Blocks
  BY <1>1, CallFacts
<1>3. PICK c \in DOMAIN inode : c = child
  BY <1>2
<1>4. inode[c].blocks \in Seq(Blocks) /\ freed \in Nat
  BY <1>2, RecordFields DEF IInv, TypeOK
<1>5. Unfreed(c) = Unfreed(c)' \cup {k} /\ k \in Nat
  BY <1>1, <1>3, <1>4 DEF Unfreed, BlocksToFree
<1>6. InProgress' = {inode[c].blocks[i] : i \in Unfreed(c)'}
  BY <1>1, <1>2, <1>3 DEF InProgress
<1> DEFINE b == inode[c].blocks[k]
<1>7. InProgress = InProgress' \cup {b}
  BY <1>2, <1>3, <1>5, <1>6
<1>8. b \in Blocks
  BY <1>2, <1>7
<1>9. \A d \in Blocks : bat'[d] = 0 <=> bat[d] = 0 \/ d = b
  <2>1. b \notin suspect
    BY <1>3, <1>5 DEF TreeInv, LeakedForGood
  <2>2. bat[b] = 1
    BY <1>2, <1>3, <1>5, <2>1 DEF IInv, BatMatchesTree, HeldBlocksAreMarked
  <2>3. QED
    BY <1>1, <1>2, <1>3, <1>8, <2>2, ClearedTable DEF IInv, TypeOK
<1> HIDE DEF b
<1>10. QED
  BY <1>1, <1>7, <1>8, <1>9, StillNodes DEF Unused

\* A file that is given up had no block left, or its blocks are lost.
LEMMA DropNodes ==
    ASSUME TreeInv, TreeInv', CallersFind, pc \in {"allocating", "rolling_back"},
           inode' = Without(child), child' = NULL, root' = root
    PROVE  Nodes' = Nodes
<1>1. /\ IInv /\ child \in DOMAIN inode /\ child # NULL /\ Visible = DOMAIN inode \ {child}
  BY CallFacts
<1>2. /\ DOMAIN inode' = DOMAIN inode \ {child}
      /\ \A q \in DOMAIN inode' : Same(q)
  BY DropEffect
<1>3. Visible' = Visible
  <2>1. Visible' = DOMAIN inode' \ {NULL} /\ NULL \notin DOMAIN inode
    BY <1>1, NextView, InodeAssumption DEF TreeView, IInv, TypeOK
  <2>2. QED
    BY <1>1, <1>2, <2>1
<1>4. ~inode[child].is_directory
  BY DEF TreeInv, CreatedOK
<1>5. ChildrenOf(child) = {}
  BY <1>1, <1>4 DEF TreeInv, KindsOK
<1>6. \A q \in Visible : Kept(q) /\ ChildrenOf(q)' = ChildrenOf(q)
  BY <1>1, <1>2 DEF Same
<1>7. \A q \in Visible : \A p \in DOMAIN inode : q \in ChildrenOf(p) =>
          p \in DOMAIN inode' /\ q \in ChildrenOf(p)'
  BY <1>1, <1>2, <1>5, <1>6
<1>8. QED
  BY <1>3, <1>6, <1>7, SameNodes

\* nor when it ends.
LEMMA RollBackDoneFS ==
    ASSUME TreeInv, TreeInv', CallersFind, RollBackDone
    PROVE  Nodes' = Nodes /\ Unused' = Unused
<1>1. /\ pc = "rolling_back" /\ ~BlocksToFree /\ inode' = Without(child)
      /\ child' = NULL /\ UNCHANGED <<bat, root>>
  BY DEF RollBackDone, Return
<1>2. InProgress = {} /\ InProgress' = {}
  <2>1. IInv /\ child \in DOMAIN inode
        /\ InProgress = {inode[child].blocks[i] : i \in Unfreed(child)}
    BY <1>1, CallFacts
  <2>2. PICK c \in DOMAIN inode : c = child
    BY <2>1
  <2>3. inode[c].blocks \in Seq(Blocks) /\ freed \in Nat
    BY <2>1, RecordFields DEF IInv, TypeOK
  <2>4. Unfreed(c) = {}
    BY <1>1, <2>2, <2>3 DEF Unfreed, BlocksToFree
  <2>5. QED
    BY <1>1, <2>1, <2>2, <2>4 DEF InProgress
<1>3. QED
  BY <1>1, <1>2, DropNodes DEF Unused

\* A file whose directory cannot be grown costs its blocks and no more.
LEMMA LinkFailsFS ==
    ASSUME TreeInv, TreeInv', CallersFind, LinkFails PROVE FS!Leak
<1>1. /\ ReallocFaults /\ pc = "allocating" /\ inode' = Without(child)
      /\ child' = NULL /\ UNCHANGED <<bat, root>>
  BY DEF LinkFails, Return
<1>2. Unused' \subseteq Unused
  BY <1>1 DEF Unused, InProgress
<1>3. Nodes' = Nodes
  BY <1>1, DropNodes
<1>4. QED
  BY <1>1, <1>2, <1>3 DEF FS!Leak, Nodes, Node, Unused

\* Unlinking a child whose blocks have been freed is the end of a deletion
\* that was seen before.
LEMMA UnlinkFS ==
    ASSUME TreeInv, TreeInv', CallersFind, Unlink
    PROVE  Nodes' = Nodes /\ Unused' = Unused
<1>1. /\ pc = "freeing" /\ ~BlocksToFree /\ child' = NULL /\ UNCHANGED <<bat, root>>
  BY DEF Unlink, Return
<1>2. /\ IInv /\ child \in DOMAIN inode /\ child # NULL /\ Visible = DOMAIN inode \ {child}
      /\ InProgress = {inode[child].blocks[i] : i \in Unfreed(child)}
  BY <1>1, CallFacts
<1>3. /\ DOMAIN inode' = DOMAIN inode \ {child}
      /\ \A q \in DOMAIN inode' : Kept(q) /\ ChildrenOf(q)' = ChildrenOf(q) \ {child}
  BY <1>2, UnlinkEffect
<1>4. ChildrenOf(child) = {}
  BY <1>1 DEF TreeInv, DeletedOK
<1>5. Visible' = Visible
  <2>1. Visible' = DOMAIN inode' \ {NULL} /\ NULL \notin DOMAIN inode
    BY <1>1, <1>2, NextView, InodeAssumption DEF TreeView, IInv, TypeOK
  <2>2. QED
    BY <1>2, <1>3, <2>1
<1>6. \A q \in Visible : \A p \in DOMAIN inode : q \in ChildrenOf(p) =>
          p \in DOMAIN inode' /\ q \in ChildrenOf(p)'
  BY <1>2, <1>3, <1>4
<1>7. Nodes' = Nodes
  BY <1>1, <1>2, <1>3, <1>5, <1>6, SameNodes
<1>8. InProgress = {} /\ InProgress' = {}
  <2>1. PICK c \in DOMAIN inode : c = child
    BY <1>2
  <2>2. inode[c].blocks \in Seq(Blocks) /\ freed \in Nat
    BY <1>2, RecordFields DEF IInv, TypeOK
  <2>3. Unfreed(c) = {}
    BY <1>1, <2>1, <2>2 DEF Unfreed, BlocksToFree
  <2>4. QED
    BY <1>1, <1>2, <2>1, <2>3 DEF InProgress
<1>9. QED
  BY <1>1, <1>7, <1>8 DEF Unused

\* A file is gone as soon as delete has picked it, and all its blocks with it.
LEMMA PickToDeleteFS ==
    ASSUME TreeInv, TreeInv', CallersFind, pc = "idle",
           NEW p \in Directories, NEW n \in Deletable(p), PickToDelete(p, n)
    PROVE  n \in DOMAIN Nodes /\ FS!Delete(n)
<1>1. /\ IInv /\ child = NULL /\ Visible = DOMAIN inode
      /\ p \in DOMAIN inode /\ n \in DOMAIN inode
  BY IdleFacts DEF TreeInv, Directories, Deletable, Linked
<1>2. /\ inode[n].children = <<>> /\ pc' = "freeing"
      /\ UNCHANGED <<bat, inode, root, freed>>
  BY DEF PickToDelete
<1>3. n \in ChildrenOf(p) /\ child' = n
  BY PicksGivenNode DEF PickToDelete
<1>4. /\ Visible' = Visible \ {n}
      /\ ParentOf(n) = p /\ p # NULL /\ n # NULL
  BY <1>1, <1>2, <1>3, ViewOfTree, NextView DEF TreeView
<1>5. ChildrenOf(n) = {}
  BY <1>2 DEF ChildrenOf
<1>6. \A q \in Visible : ParentOf(q) # n
  BY <1>1, <1>4, <1>5, ViewOfTree DEF TreeView
<1>7. Nodes' = [q \in Visible \ {n} |-> Nodes[q]]
  <2>1. \A q \in DOMAIN inode : Kept(q) /\ ChildrenOf(q)' = ChildrenOf(q)
    BY <1>2, SameInode DEF Same
  <2>2. \A q \in Visible : Node(q)' = Node(q)
    BY <1>1, <1>2, <2>1, SameNode
  <2>3. QED
    BY <1>4, <2>2 DEF Nodes
<1>8. Unused' = Unused \cup BlocksOf(n)
  <2>1. InProgress = {}
    BY <1>1, NoFileInWork
  <2>2. inode[n].blocks \in Seq(Blocks) /\ freed = 0
    BY <1>1, RecordFields DEF IInv, TypeOK
  <2>3. Unfreed(n)' = DOMAIN inode[n].blocks
    BY <1>2, <1>3, <2>2 DEF Unfreed
  <2>4. InProgress' = BlocksOf(n)
    BY <1>2, <1>3, <1>4, <2>3 DEF InProgress, BlocksOf
  <2>5. QED
    BY <1>2, <2>1, <2>4 DEF Unused
<1>9. QED
  BY <1>1, <1>4, <1>6, <1>7, <1>8 DEF FS!Delete, FS!Siblings, Nodes, Node, Unused

\* A sequence without repetitions has as many elements as it is long.
LEMMA CardinalityOfDistinct ==
    ASSUME NEW S, NEW s \in Seq(S), \A i, j \in DOMAIN s : s[i] = s[j] => i = j
    PROVE  Cardinality({s[i] : i \in DOMAIN s}) = Len(s)
<1> DEFINE T == {s[i] : i \in DOMAIN s}
<1>1. Len(s) \in Nat /\ DOMAIN s = 1 .. Len(s)
  OBVIOUS
<1>2. s \in Bijection(1 .. Len(s), T)
  <2>1. s \in [1 .. Len(s) -> T]
    BY <1>1
  <2>2. QED
    BY <1>1, <2>1 DEF Bijection, Injection, Surjection, IsInjective
<1>3. IsFiniteSet(1 .. Len(s)) /\ Cardinality(1 .. Len(s)) = Len(s)
  BY <1>1, FS_Interval
<1>4. ExistsBijection(1 .. Len(s), T)
  BY <1>2 DEF ExistsBijection
<1> HIDE DEF T
<1>5. Cardinality(T) = Cardinality(1 .. Len(s))
  BY <1>3, <1>4, FS_Bijection
<1>6. QED
  BY <1>3, <1>5 DEF T

\* The blocks of a file hold its bytes, and one fewer would not.
LEMMA BlocksFit ==
    ASSUME NEW size \in Nat
    PROVE  /\ BlocksNeeded(size) \in Nat
           /\ BlocksNeeded(size) * BLOCKSIZE >= size
           /\ (BlocksNeeded(size) - 1) * BLOCKSIZE < size
<1> DEFINE q == size \div BLOCKSIZE
           r == size % BLOCKSIZE
<1>1. q \in Nat /\ r \in 0 .. 4095 /\ size = 4096 * q + r
  BY DEF BLOCKSIZE
<1>2. BlocksNeeded(size) = q + (IF r # 0 THEN 1 ELSE 0)
  BY DEF BlocksNeeded
<1> HIDE DEF q, r
<1>3. CASE r = 0
  BY <1>1, <1>2, <1>3 DEF BLOCKSIZE
<1>4. CASE r # 0
  BY <1>1, <1>2, <1>4 DEF BLOCKSIZE
<1>5. QED
  BY <1>3, <1>4

\* create_file's last step makes the file seen, with all its blocks.
LEMMA LinkFileFS ==
    ASSUME TreeInv, TreeInv', CallersFind, LinkFile
    PROVE  \E dir \in DOMAIN Nodes, name \in Names, size \in Sizes :
              FS!CreateFile(dir, name, size)
<1>1. /\ pc = "allocating" /\ ~BlocksMissing
      /\ AddInodeToParent(parent, child, inode[child])
      /\ child' = NULL /\ UNCHANGED <<bat, root>>
  BY DEF LinkFile, Return
<1>2. /\ IInv /\ child \in DOMAIN inode /\ parent \in DOMAIN inode /\ child # parent
      /\ child # NULL /\ child # root
      /\ Visible = DOMAIN inode \ {child}
      /\ InProgress = {inode[child].blocks[i] : i \in Unfreed(child)}
      /\ InProgress \subseteq Blocks
  BY <1>1, CallFacts
<1>3. PICK c \in DOMAIN inode : c = child
  BY <1>2
<1>4. PICK p \in DOMAIN inode : p = parent
  BY <1>2
<1>5. /\ inode[c] \in InodeRecord /\ c \in Ptr \ {p}
      /\ inode[p].is_directory /\ ~inode[c].is_directory /\ inode[c].filesize \in Sizes
      /\ inode[c].name # inode[p].name
      /\ \A q \in ChildrenOf(p) : inode[q].name # inode[c].name
      /\ Len(inode[c].blocks) <= BlocksNeeded(inode[c].filesize)
  BY <1>1, <1>2, <1>3, <1>4, RecordFields DEF TreeInv, CreatedOK, IInv, TypeOK, Directories
<1>6. inode[c].children = <<>> /\ ChildrenOf(c) = {}
  BY <1>2, <1>5, RecordFields, ChildrenChange DEF TreeInv, KindsOK
<1> DEFINE record == inode[c]
<1>7. /\ DOMAIN inode' = DOMAIN inode
      /\ inode'[c] = inode[c]
      /\ Kept(p) /\ ChildrenOf(p)' = ChildrenOf(p) \cup {c}
      /\ \A q \in DOMAIN inode \ {p, c} : Same(q)
  <2>1. record.children = <<>> /\ record \in InodeRecord /\ AddInodeToParent(p, c, record)
    BY <1>1, <1>3, <1>4, <1>5, <1>6
  <2> HIDE DEF record
  <2>2. /\ DOMAIN inode' = DOMAIN inode \cup {c}
        /\ inode'[c] = record
        /\ Kept(p) /\ ChildrenOf(p)' = ChildrenOf(p) \cup {c}
        /\ \A q \in DOMAIN inode \ {p, c} : Same(q)
    BY <1>2, <1>5, <2>1, ChildEffect
  <2>3. QED
    BY <2>2 DEF record
<1> HIDE DEF record
<1>8. Visible' = Visible \cup {c} /\ c \notin Visible
  <2>1. Visible' = DOMAIN inode' \ {NULL} /\ NULL \notin DOMAIN inode
    BY <1>1, <1>2, NextView, InodeAssumption DEF TreeView, IInv, TypeOK
  <2>2. QED
    BY <1>2, <1>3, <1>7, <2>1
<1>9. \A q \in Visible : Kept(q)
  BY <1>2, <1>3, <1>7 DEF Same
<1>10. \A q \in Visible : \A r \in DOMAIN inode : q \in ChildrenOf(r) =>
          r \in DOMAIN inode' /\ q \in ChildrenOf(r)'
  BY <1>6, <1>7 DEF Same
<1>11. BlocksOf(c)' = BlocksOf(c)
  BY <1>7 DEF BlocksOf
<1>12. Nodes' = [q \in Visible \cup {c} |->
                   IF q = c THEN [dir |-> p, name |-> inode'[c].name,
                                  is_directory |-> inode'[c].is_directory,
                                  size |-> inode'[c].filesize, blocks |-> BlocksOf(c)']
                   ELSE Nodes[q]]
  BY <1>1, <1>7, <1>8, <1>9, <1>10, EnterNode
<1>13. Nodes' = [q \in DOMAIN Nodes \cup {c} |->
                   IF q = c THEN [dir |-> p, name |-> inode[c].name, is_directory |-> FALSE,
                                  size |-> inode[c].filesize, blocks |-> BlocksOf(c)]
                   ELSE Nodes[q]]
  <2>1. inode[c].is_directory = FALSE
    BY <1>5 DEF InodeRecord
  <2>2. QED
    BY <1>7, <1>11, <1>12, <2>1 DEF Nodes
<1>14. FS!NameIsFree(p, inode[c].name)
  <2>1. p \in Visible
    BY <1>2, <1>3, <1>4
  <2>2. \A q \in Visible : ParentOf(q) = p => q \in ChildrenOf(p)
    BY <1>2, ViewOfTree, InodeAssumption DEF TreeView, IInv, TypeOK
  <2>3. QED
    BY <1>5, <2>1, <2>2 DEF FS!NameIsFree, FS!Siblings
<1>15. /\ inode[c].blocks \in Seq(Blocks) /\ inode[c].filesize \in Nat
       /\ inode[c].name \in Names
  BY <1>2, RecordFields
<1>16. InProgress = BlocksOf(c) /\ Unfreed(c) = DOMAIN inode[c].blocks
  BY <1>1, <1>2, <1>3 DEF BlocksOf, Unfreed
<1>17. \A b \in BlocksOf(c) : b \notin suspect /\ bat[b] = 1
  <2>1. \A i \in Unfreed(c) : inode[c].blocks[i] \notin suspect
    BY DEF TreeInv, LeakedForGood
  <2>2. QED
    BY <1>2, <1>16, <2>1 DEF BlocksOf, IInv, BatMatchesTree, HeldBlocksAreMarked
<1>18. Unused' = Unused \ BlocksOf(c) /\ BlocksOf(c) \subseteq Unused
  <2>1. InProgress' = {}
    BY <1>1 DEF InProgress
  <2>2. QED
    BY <1>1, <1>16, <1>17, <2>1 DEF Unused
<1>19. FS!Fits(BlocksOf(c), inode[c].filesize)
  <2>1. \A i, j \in DOMAIN inode[c].blocks : inode[c].blocks[i] = inode[c].blocks[j] => i = j
    BY <1>2, <1>16, <1>17 DEF BlocksOf, IInv, BatMatchesTree, NoBlockHeldTwice
  <2>2. Cardinality(BlocksOf(c)) = Len(inode[c].blocks)
    BY <1>15, <2>1, CardinalityOfDistinct DEF BlocksOf
  <2>3. Len(inode[c].blocks) = BlocksNeeded(inode[c].filesize)
    <3>1. ~(Len(inode[c].blocks) < BlocksNeeded(inode[c].filesize))
      BY <1>1, <1>3 DEF BlocksMissing
    <3>2. Len(inode[c].blocks) \in Nat /\ inode[c].filesize \in Nat
      BY <1>15
    <3>3. BlocksNeeded(inode[c].filesize) \in Nat
      BY <3>2, BlocksFit
    <3>4. QED
      BY <1>5, <3>1, <3>2, <3>3
  <2>4. inode[c].filesize \in Nat
    BY <1>15
  <2>5. /\ BlocksNeeded(inode[c].filesize) * BLOCKSIZE >= inode[c].filesize
        /\ (BlocksNeeded(inode[c].filesize) - 1) * BLOCKSIZE < inode[c].filesize
    BY <2>4, BlocksFit
  <2>6. Cardinality(BlocksOf(c)) = BlocksNeeded(inode[c].filesize)
    BY <2>2, <2>3
  <2>7. FS!Cardinality(BlocksOf(c)) = Cardinality(BlocksOf(c))
    BY DEF FS!Cardinality, Cardinality
  <2>8. QED
    BY <2>5, <2>6, <2>7 DEF FS!Fits
<1>20. PICK name \in Names, size \in Sizes, taken \in {BlocksOf(c)} :
          name = inode[c].name /\ size = inode[c].filesize /\ taken = BlocksOf(c)
  BY <1>5, <1>15
<1>21. FS!Enter(p, name, FALSE, size, taken)
  <2>1. c \in Ptr \ DOMAIN Nodes
    BY <1>5, <1>8 DEF Nodes
  <2>2. Nodes' = [q \in DOMAIN Nodes \cup {c} |->
                   IF q = c THEN [dir |-> p, name |-> name, is_directory |-> FALSE,
                                  size |-> size, blocks |-> taken]
                   ELSE Nodes[q]]
    BY <1>13, <1>20
  <2>3. QED
    BY <2>1, <2>2 DEF FS!Enter, Nodes, Node
<1>22. FS!NameIsFree(p, name) /\ FS!Fits(taken, size)
  BY <1>14, <1>19, <1>20
<1>23. /\ taken \in SUBSET Unused
       /\ Unused' = Unused \ taken
       /\ p \in DOMAIN Nodes /\ Nodes[p].is_directory
  BY <1>2, <1>3, <1>4, <1>5, <1>18, <1>20 DEF Nodes, Node
<1>24. FS!CreateFile(p, name, size)
  BY <1>21, <1>22, <1>23 DEF FS!CreateFile, Nodes, Node, Unused
<1>25. QED
  BY <1>23, <1>24

\* Every step of inode.c is a step of the file system or cannot be seen.
LEMMA StepFS ==
    TreeInv /\ TreeInv' /\ CallersFind /\ [Next]_vars =>
        FS!Next \/ (Nodes' = Nodes /\ Unused' = Unused)
<1> SUFFICES ASSUME TreeInv, TreeInv', CallersFind, [Next]_vars
             PROVE  FS!Next \/ (Nodes' = Nodes /\ Unused' = Unused)
    OBVIOUS
<1>1. CASE CreateRoot
  BY <1>1, CreateRootFS DEF FS!Next
<1>2. ASSUME NEW p \in Directories, NEW name \in Names, CreateDir(p, name) PROVE FS!Next
  <2>1. p \in DOMAIN Nodes /\ FS!CreateDir(p, name)
    BY <1>2, CreateDirFS
  <2>2. QED
    BY <2>1 DEF FS!Next, Nodes, Node
<1>3. ASSUME NEW p \in Directories, NEW name \in Names, NEW size \in Sizes,
             CreateFile(p, name, size)
      PROVE  Nodes' = Nodes /\ Unused' = Unused
  BY <1>3, CreateFileFS
<1>4. ASSUME NEW p \in Directories, NEW n \in Deletable(p),
             DeleteFile(p, n) \/ DeleteDir(p, n)
      PROVE  FS!Next
  <2>1. pc = "idle" /\ PickToDelete(p, n)
    BY <1>4 DEF DeleteFile, DeleteDir
  <2>2. n \in DOMAIN Nodes /\ FS!Delete(n)
    BY <2>1, PickToDeleteFS
  <2>3. QED
    BY <2>2 DEF FS!Next, Nodes, Node
<1>5. CASE LinkFile
  <2>1. \E dir \in DOMAIN Nodes, name \in Names, size \in Sizes :
           FS!CreateFile(dir, name, size)
    BY <1>5, LinkFileFS
  <2>2. QED
    BY <2>1 DEF FS!Next, Nodes, Node
<1>6. CASE LinkFails
  BY <1>6, LinkFailsFS DEF FS!Next
<1>7. CASE AllocateBlock \/ AllocateFails \/ FreeBlock \/ RollBackDone \/ Unlink
  BY <1>7, AllocateBlockFS, AllocateFailsFS, FreeBlockFS, RollBackDoneFS, UnlinkFS
<1>8. CASE UNCHANGED vars
  <2>1. InProgress' = InProgress
    BY <1>8 DEF vars, InProgress, Unfreed
  <2>2. QED
    BY <1>8, <2>1, StillNodes DEF vars, Unused
<1>9. QED
  BY <1>1, <1>2, <1>3, <1>4, <1>5, <1>6, <1>7, <1>8 DEF Next, Create, Delete, Internal

\* inode.c, for a disk, files and names of any number and size, does what
\* FileSystem says: its calls happen all at once or not at all.
THEOREM FileSystemImplemented == ASSUME CallersFind PROVE Spec => ImplementsFileSystem
<1>1. Init => FS!Init
  BY InitFS
<1>2. TreeInv /\ TreeInv' /\ [Next]_vars => [FS!Next]_<<Nodes, Unused>>
  BY StepFS
<1>3. QED
  BY <1>1, <1>2, SpecTreeInv, PTL DEF Spec, ImplementsFileSystem, FS!Spec, Nodes, Node, Unused

===============================================================================
