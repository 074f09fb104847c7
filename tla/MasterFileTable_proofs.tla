------------------------ MODULE MasterFileTable_proofs ------------------------
(*****************************************************************************)
(* Proofs about the simulated disk across program runs, for disks, trees and *)
(* files of any size, any sequence of programs and a kill at any step.       *)
(*                                                                           *)
(* The argument of DiskInv has three parts.                                  *)
(*  - While a program runs its inodes form a tree below the root (RunTree):  *)
(*    TreeReach, the one fact that is not about a bounded number of inodes,  *)
(*    says that only the whole heap holds the root and is closed under       *)
(*    children.                                                              *)
(*  - save_inodes walks that tree with a stack (Walk, StackOK): what has     *)
(*    been written and what waits is closed under children, so that all      *)
(*    inodes have been written when nothing waits, each once, and the        *)
(*    children of a directory come in their order (Written).                 *)
(*  - load_inodes runs the same walk: after k records a map m tells where    *)
(*    the inodes of the records are now (Copied), each directory has the     *)
(*    children that were read so far, and create_inode is told the right     *)
(*    directory for each inode that is missing (PlacesKnown).                *)
(* Between runs it is the file that carries the tree (Complete).             *)
(*                                                                           *)
(* All theorems assume CallersFind, as those of Inode_proofs about the shape *)
(* of the tree do: delete must be given an inode of the parent.              *)
(*****************************************************************************)
EXTENDS MasterFileTable, Inode_proofs, SequenceTheorems

\* The children of p on a heap h.
Kids(h, p) == {h[p].children[i] : i \in DOMAIN h[p].children}

\* Every child is on the heap, in one place of one directory, and is neither
\* the root nor the directory itself.
TreeLinks(h, r) ==
    /\ \A p \in DOMAIN h : \A i \in DOMAIN h[p].children :
          h[p].is_directory /\ h[p].children[i] \in DOMAIN h \ {r, p}
    /\ \A p, q \in DOMAIN h :
          \A i \in DOMAIN h[p].children, j \in DOMAIN h[q].children :
             h[p].children[i] = h[q].children[j] => p = q /\ i = j

\* No child has the name of its directory or of another child of it.
TreeNames(h) ==
    \A p \in DOMAIN h : \A q \in Kids(h, p) :
       /\ h[q].name # h[p].name
       /\ \A s \in Kids(h, p) : h[s].name = h[q].name => s = q

\* Whatever holds the root and all children of what it holds is everything.
TreeReach(h, r) ==
    \A S \in SUBSET DOMAIN h :
       r \in S /\ (\A p \in S : Kids(h, p) \subseteq S) => S = DOMAIN h

\* The heap h is one tree below r.
GoodTree(h, r) ==
    /\ r \in DOMAIN h /\ DOMAIN h \subseteq Ptr
    /\ \A p \in DOMAIN h : h[p] \in InodeRecord
    /\ TreeLinks(h, r) /\ TreeNames(h) /\ TreeReach(h, r)

\* The heap without the file that create_file works on.
Settled == [q \in {p \in DOMAIN inode : ~Creating(p)} |-> inode[q]]

\* That file has a name of its own in the directory it will be put into.
CreatedFile ==
    pc \in {"allocating", "rolling_back"} =>
       /\ ~inode[child].is_directory /\ inode[child].children = <<>>
       /\ inode[child].name # inode[parent].name
       /\ \A q \in Kids(inode, parent) : inode[q].name # inode[child].name

\* What is being deleted is in its directory, and no directory with children.
DeletedLeaf ==
    pc = "freeing" => child \in Kids(inode, parent) /\ inode[child].children = <<>>

\* The inodes of a program form a tree as soon as there is a root.
TreeIsGood == IF root = NULL THEN DOMAIN inode = {} ELSE GoodTree(Settled, root)

\* num_inode_ids is not below the number of inodes.
Counted == IsFiniteSet(DOMAIN inode) /\ Cardinality(DOMAIN inode) <= num_inode_ids

\* What holds of the tree of a running program, besides IInv.
RunTree == TreeIsGood /\ Counted /\ CreatedFile /\ DeletedLeaf

-------------------------------------------------------------------------------
(* The walk of save_inodes: T[k] is the stack when k inodes have been written. *)

\* The inodes written by then.
Visited(T, k) == {Head(T[j]) : j \in 0 .. k - 1}

\* The inodes whose turn will come.
Waiting(s) == {s[i] : i \in DOMAIN s}

\* Each inode waits once and has not been written, what waits is a child of
\* what has been written, no child is forgotten, and the children of a
\* directory wait in their order.
StackOK(h, r, done, s) ==
    /\ \A i, j \in DOMAIN s : s[i] = s[j] => i = j
    /\ done \cap Waiting(s) = {}
    /\ \A q \in done \cup Waiting(s) : q = r \/ \E p \in done : q \in Kids(h, p)
    /\ r \in done \cup Waiting(s)
    /\ \A p \in done : Kids(h, p) \subseteq done \cup Waiting(s)
    /\ \A p \in done : \A x, y \in DOMAIN s : \A i, j \in DOMAIN h[p].children :
          x < y /\ s[x] = h[p].children[i] /\ s[y] = h[p].children[j] => i < j

\* T is the walk through the first n inodes.
Walk(h, r, T, n) ==
    /\ T \in [0 .. n -> Seq(DOMAIN h)]
    /\ T[0] = <<r>>
    /\ \A k \in 0 .. n - 1 :
          T[k] # <<>> /\ T[k + 1] = h[Head(T[k])].children \o Tail(T[k])
    /\ \A i, j \in 0 .. n - 1 : Head(T[i]) = Head(T[j]) => i = j
    /\ \A k \in 0 .. n : StackOK(h, r, Visited(T, k), T[k])

\* The walk goes on from the stack s to the stack t.
Pops(h, s, t) == s # <<>> /\ t = h[Head(s)].children \o Tail(s)

Prolongs(U, T, n) == \A k \in 0 .. n : U[k] = T[k]

\* The walk T through n inodes goes on to t.
GoesOn(h, r, T, n, t) ==
    \E U : Walk(h, r, U, n + 1) /\ U[n + 1] = t /\ Prolongs(U, T, n)

\* The records of the master file table.
FileRecord ==
    [id : Nat, name : Names, is_directory : BOOLEAN, num_children : Nat,
     filesize : Sizes \cup {0}, blocks : Seq(Blocks)]

\* The record of an inode.
RecordOf(x) ==
    [id |-> x.id, name |-> x.name, is_directory |-> x.is_directory,
     num_children |-> Len(x.children), filesize |-> x.filesize, blocks |-> x.blocks]

\* The file has the records of the inodes in the order of the walk T.
Written(h, r, T, file) ==
    /\ GoodTree(h, r)
    /\ file \in Seq(FileRecord)
    /\ Walk(h, r, T, Len(file))
    /\ \A k \in 1 .. Len(file) : file[k] = RecordOf(h[Head(T[k - 1])])

\* One more record is written, and the stack is t then.
Writes(h, r, file, s, t) ==
    LET longer == Append(file, RecordOf(h[Head(s)])) IN
    \E U : Written(h, r, U, longer) /\ U[Len(longer)] = t

\* w tells which inode each record is of, when all have been written.
Places(h, file, w) ==
    /\ w \in [DOMAIN file -> DOMAIN h]
    /\ \A k, l \in DOMAIN file : w[k] = w[l] => k = l
    /\ \A p \in DOMAIN h : \E k \in DOMAIN file : w[k] = p
    /\ \A k \in DOMAIN file : file[k].blocks = h[w[k]].blocks

\* A block is one entry of one record, or of none: the two cases of AgreesOn.
OneEntry(file, b) ==
    \E k \in DOMAIN file : \E i \in DOMAIN file[k].blocks :
       \A l \in DOMAIN file : \A j \in DOMAIN file[l].blocks :
          file[l].blocks[j] = b <=> l = k /\ j = i

NoEntry(file, b) ==
    \A k \in DOMAIN file : \A i \in DOMAIN file[k].blocks : file[k].blocks[i] # b

\* All inodes are in the file, and no more than a program can have.
Complete(h, r, T, file) ==
    /\ Written(h, r, T, file) /\ T[Len(file)] = <<>>
    /\ IsFiniteSet(DOMAIN h) /\ Cardinality(DOMAIN h) <= MaxInodeIds

\* A program that saves is between calls, and what it has to do is the walk's stack.
SaveInv ==
    phase = "saving" =>
       /\ pc = "idle" /\ root # NULL /\ mft = <<>>
       /\ \E T : Written(inode, root, T, stream) /\ T[Len(stream)] = todo

\* A master file table that is not empty is the one that was last saved.
SavedInv == mft # <<>> => \E T : Complete(saved.inode, saved.root, T, mft)

(* The copy that load_inodes makes. *)

\* An inode in memory and the one it is a copy of.
SameFields(x, y) ==
    /\ x.id = y.id /\ x.name = y.name /\ x.is_directory = y.is_directory
    /\ x.filesize = y.filesize /\ x.blocks = y.blocks

\* No entry of the list is there twice.
Distinct(list) == \A i, j \in DOMAIN list : list[i] = list[j] => i = j

\* The inodes in done stay where they are in memory.
Agree(m2, m, done) == \A p \in done : m2[p] = m[p]

\* The place behind the last entry.
IsNext(i, list) == i = Len(list) + 1

\* The children read so far, new, are the first ones of old.
ReadChildren(new, old, done, m) ==
    /\ new \in Seq(Ptr) /\ Len(new) <= Len(old)
    /\ \A i \in DOMAIN old : i <= Len(new) <=> old[i] \in done
    /\ \A i \in DOMAIN new : new[i] = m[old[i]]

\* m tells where in memory the inodes of the records in done are.
OneToOne(m, done) == m \in [done -> Ptr] /\ \A p, q \in done : m[p] = m[q] => p = q

\* The heap g has a copy of each inode in done.
HeapCopied(h, done, m, g) ==
    /\ g \in [{m[q] : q \in done} -> InodeRecord]
    /\ \A q \in done : /\ SameFields(g[m[q]], h[q])
                       /\ ReadChildren(g[m[q]].children, h[q].children, done, m)

\* create_inode is told, in places, the parent of each inode that waits.
PlacesKnown(h, r, done, s, m, places) ==
    /\ places \in Seq(Ptr \cup {NULL}) /\ Len(places) = Len(s)
    /\ \A i \in DOMAIN places :
          \/ s[i] = r /\ places[i] = NULL
          \/ \E p \in done : s[i] \in Kids(h, p) /\ places[i] = m[p]

\* The inodes in done have been read into g, below top.
Copied(h, r, done, s, m, g, top, places) ==
    /\ OneToOne(m, done)
    /\ HeapCopied(h, done, m, g)
    /\ PlacesKnown(h, r, done, s, m, places)
    /\ top = IF r \in done THEN m[r] ELSE NULL

\* m, and the inode q is at new.
MapWith(m, done, q, new) == [p \in done \cup {q} |-> IF p = q THEN new ELSE m[p]]

\* What create_inode makes of x before its children are read.
FreshFor(record, x) ==
    record \in InodeRecord /\ record.children = <<>> /\ SameFields(record, x)

\* new is the parent of all children of the inode that is read.
PlacesAfter(h, s, places, new) ==
    [i \in 1 .. Len(h[Head(s)].children) |-> new] \o Tail(places)

\* One more inode is read, and the stack is t then.
CopiedFurther(h, r, done, s, t, g, top, places) ==
    \E m : Copied(h, r, done \cup {Head(s)}, t, m, g, top, places)

\* m2 is m, and q is at new, where nothing was.
NewPlace(m, done, q, new, g, m2) ==
    /\ m2[q] = new /\ \A p \in done : m2[p] = m[p] /\ m[p] \in DOMAIN g /\ m[p] # new
    /\ {m2[p] : p \in done \cup {q}} = DOMAIN g \cup {new}

\* The heap g with one more inode.
HeapWith(g, new, record) == [p \in DOMAIN g \cup {new} |-> IF p = new THEN record ELSE g[p]]

\* One call of create_inode.
Reads(g, top, place, new, record, g2, top2) ==
    IF place = NULL
    THEN top2 = new /\ g2 = HeapWith(g, new, record)
    ELSE top2 = top /\ g2 = [HeapWith(g, new, record) EXCEPT ![place].children = Append(@, new)]

\* All records have been read.
ReadAll(h, r, file, k, m, g, top) ==
    /\ k = Len(file) /\ top = m[r]
    /\ OneToOne(m, DOMAIN h) /\ HeapCopied(h, DOMAIN h, m, g)

\* No call is running, and no block is claimed to agree.
AtRest ==
    /\ pc = "idle" /\ parent = NULL /\ node = NULL /\ child = NULL
    /\ freed = 0 /\ suspect = Blocks /\ ~dirty

\* A program that loads has read k records and has the rest in its stream.
LoadInv ==
    phase = "loading" =>
       /\ AtRest
       /\ \E T, m : \E k \in 0 .. Len(mft) :
             /\ Complete(saved.inode, saved.root, T, mft)
             /\ Copied(saved.inode, saved.root, Visited(T, k), T[k], m, inode, root, todo)
             /\ num_inode_ids = k
             /\ stream = SubSeq(mft, k + 1, Len(mft))

\* Between programs, and while create_fs formats the disk, nothing is in memory.
DownInv ==
    phase \in {"down", "formatting"} =>
       AtRest /\ inode = NoInodes /\ root = NULL /\ num_inode_ids = 0

\* A program that has its tree keeps what Inode_proofs says of it.
RunInv == phase \in {"running", "saving"} => IInv /\ RunTree

\* Unless a program was killed or lost blocks, what it saved is all it did.
HistoryInv ==
    ~killed => /\ phase \in {"running", "saving"} => suspect = {}
               /\ ~dirty /\ phase \notin {"formatting", "saving"} => unsaved = {}

\* The inductive invariant.
DiskInv ==
    /\ phase \in {"down", "formatting", "running", "saving", "loading"}
    /\ bat \in Table \cup {EmptyFile} /\ unsaved \subseteq Blocks /\ killed \in BOOLEAN /\ dirty \in BOOLEAN
    /\ DownInv /\ RunInv /\ SaveInv /\ LoadInv /\ SavedInv /\ HistoryInv
    /\ DiskAgrees /\ LoadRestoresTree

-------------------------------------------------------------------------------
(* Trees *)

\* What an inode of a tree is, and that its children are inodes of the tree.
LEMMA GoodRecord ==
    ASSUME NEW h, NEW r, GoodTree(h, r), NEW p \in DOMAIN h
    PROVE  /\ p \in Ptr /\ h[p] \in InodeRecord
           /\ h[p].children \in Seq(Ptr) /\ h[p].blocks \in Seq(Blocks)
           /\ h[p].id \in Nat /\ h[p].name \in Names /\ h[p].is_directory \in BOOLEAN
           /\ h[p].filesize \in Sizes \cup {0}
           /\ h[p].children \in Seq(DOMAIN h)
           /\ Kids(h, p) \subseteq DOMAIN h \ {r, p}
<1>1. p \in Ptr /\ h[p] \in InodeRecord
  BY DEF GoodTree
<1>2. /\ h[p].children \in Seq(Ptr) /\ h[p].blocks \in Seq(Blocks)
      /\ h[p].id \in Nat /\ h[p].name \in Names /\ h[p].is_directory \in BOOLEAN
      /\ h[p].filesize \in Sizes \cup {0}
  BY <1>1 DEF InodeRecord
<1>3. \A i \in DOMAIN h[p].children : h[p].children[i] \in DOMAIN h \ {r, p}
  BY DEF GoodTree, TreeLinks
<1>4. h[p].children \in Seq(DOMAIN h)
  BY <1>2, <1>3
<1>5. QED
  BY <1>1, <1>2, <1>3, <1>4 DEF Kids

\* The first inode, whether create_dir or an empty file makes it, is a tree.
LEMMA SingleTree ==
    ASSUME NEW p \in Ptr, NEW record \in InodeRecord, record.children = <<>>,
           NEW h, DOMAIN h = {p}, h[p] = record
    PROVE  GoodTree(h, p)
<1>1. TreeLinks(h, p) /\ TreeNames(h)
  BY DEF TreeLinks, TreeNames, Kids
<1>2. TreeReach(h, p)
  BY DEF TreeReach
<1>3. QED
  BY <1>1, <1>2 DEF GoodTree

\* create_dir and create_file put a leaf with a new name into a directory.
LEMMA LeafAdded ==
    ASSUME NEW h, NEW r, GoodTree(h, r), NEW p \in DOMAIN h, h[p].is_directory,
           NEW new \in Ptr \ DOMAIN h, NEW record \in InodeRecord, record.children = <<>>,
           record.name # h[p].name, \A q \in Kids(h, p) : h[q].name # record.name,
           NEW g, DOMAIN g = DOMAIN h \cup {new}, g[new] = record,
           g[p] = [h[p] EXCEPT !.children = Append(h[p].children, new)],
           \A q \in DOMAIN h \ {p} : g[q] = h[q]
    PROVE  GoodTree(g, r)
<1> DEFINE list == h[p].children
           n == Len(list) + 1
<1>1. list \in Seq(Ptr) /\ h[p] \in InodeRecord
  BY GoodRecord
<1>2. /\ g[p] \in InodeRecord /\ g[p].children = Append(list, new)
      /\ g[p].name = h[p].name /\ g[p].is_directory = h[p].is_directory
  <2>1. PICK longer \in Seq(Ptr) : longer = Append(list, new)
    BY <1>1, AppendEffect
  <2>2. g[p] = [h[p] EXCEPT !.children = longer]
    BY <2>1
  <2>3. g[p] \in InodeRecord /\ g[p].children = longer
        /\ g[p].name = h[p].name /\ g[p].is_directory = h[p].is_directory
    BY <1>1, <2>2 DEF InodeRecord
  <2>4. QED
    BY <2>1, <2>3
<1>3. /\ DOMAIN g[p].children = DOMAIN list \cup {n} /\ n \notin DOMAIN list
      /\ \A i \in DOMAIN list : g[p].children[i] = list[i]
      /\ g[p].children[n] = new
  BY <1>1, <1>2, AppendEffect
<1> HIDE DEF list, n
<1>4. \A q \in DOMAIN h : /\ q # new /\ g[q].name = h[q].name
                          /\ g[q].is_directory = h[q].is_directory
  BY <1>2
<1>5. \A q \in DOMAIN g : \A i \in DOMAIN g[q].children :
          \/ q = p /\ i = n /\ g[q].children[i] = new
          \/ /\ q \in DOMAIN h /\ i \in DOMAIN h[q].children
             /\ g[q].children[i] = h[q].children[i]
             /\ h[q].children[i] \in DOMAIN h \ {r, q, new} /\ h[q].is_directory
  <2> SUFFICES ASSUME NEW q \in DOMAIN g, NEW i \in DOMAIN g[q].children
               PROVE  \/ q = p /\ i = n /\ g[q].children[i] = new
                      \/ /\ q \in DOMAIN h /\ i \in DOMAIN h[q].children
                         /\ g[q].children[i] = h[q].children[i]
                         /\ h[q].children[i] \in DOMAIN h \ {r, q, new} /\ h[q].is_directory
      OBVIOUS
  <2>1. CASE q = new
    BY <2>1
  <2>2. CASE q = p
    BY <1>3, <2>2 DEF GoodTree, TreeLinks, list
  <2>3. CASE q # new /\ q # p
    BY <2>3 DEF GoodTree, TreeLinks
  <2>4. QED
    BY <2>1, <2>2, <2>3
<1>6. /\ Kids(g, p) = Kids(h, p) \cup {new} /\ Kids(g, new) = {}
      /\ \A q \in DOMAIN h \ {p} : Kids(g, q) = Kids(h, q)
  <2>1. Kids(g, p) = Kids(h, p) \cup {new}
    BY <1>3 DEF Kids, list
  <2>2. QED
    BY <2>1 DEF Kids
<1>7. \A q \in DOMAIN h : Kids(h, q) \subseteq DOMAIN h
  BY GoodRecord
<1>8. TreeLinks(g, r)
  <2>1. \A q \in DOMAIN g : \A i \in DOMAIN g[q].children :
            g[q].is_directory /\ g[q].children[i] \in DOMAIN g \ {r, q}
    <3>1. r # new
      BY DEF GoodTree
    <3>2. QED
      BY <1>2, <1>4, <1>5, <3>1
  <2>2. ASSUME NEW s \in DOMAIN g, NEW t \in DOMAIN g,
               NEW i \in DOMAIN g[s].children, NEW j \in DOMAIN g[t].children,
               g[s].children[i] = g[t].children[j]
        PROVE  s = t /\ i = j
    <3>1. CASE g[s].children[i] = new
      <4>1. s = p /\ i = n
        BY <1>5, <3>1
      <4>2. g[t].children[j] = new
        BY <2>2, <3>1
      <4>3. t = p /\ j = n
        BY <1>5, <4>2
      <4>4. QED
        BY <4>1, <4>3
    <3>2. CASE g[s].children[i] # new
      <4>1. /\ s \in DOMAIN h /\ i \in DOMAIN h[s].children
            /\ t \in DOMAIN h /\ j \in DOMAIN h[t].children
            /\ h[s].children[i] = h[t].children[j]
        BY <1>5, <2>2, <3>2
      <4>2. QED
        BY <4>1 DEF GoodTree, TreeLinks
    <3>3. QED
      BY <3>1, <3>2
  <2>3. QED
    BY <2>1, <2>2 DEF TreeLinks
<1>9. TreeNames(g)
  <2> SUFFICES ASSUME NEW q \in DOMAIN g, NEW c \in Kids(g, q)
               PROVE  /\ g[c].name # g[q].name
                      /\ \A s \in Kids(g, q) : g[s].name = g[c].name => s = c
      BY DEF TreeNames
  <2>1. CASE q = new
    BY <1>6, <2>1
  <2>2. CASE q = p
    BY <1>4, <1>6, <1>7, <2>2 DEF GoodTree, TreeNames
  <2>3. CASE q # new /\ q # p
    BY <1>4, <1>6, <1>7, <2>3 DEF GoodTree, TreeNames
  <2>4. QED
    BY <2>1, <2>2, <2>3
<1>10. TreeReach(g, r)
  <2> SUFFICES ASSUME NEW S \in SUBSET DOMAIN g, r \in S,
                      \A q \in S : Kids(g, q) \subseteq S
               PROVE  S = DOMAIN g
      BY DEF TreeReach
  <2> DEFINE old == S \cap DOMAIN h
  <2>1. r \in old /\ old \in SUBSET DOMAIN h
    BY DEF GoodTree
  <2>2. \A q \in old : Kids(h, q) \subseteq old
    BY <1>6, <1>7
  <2>3. old = DOMAIN h
    BY <2>1, <2>2 DEF GoodTree, TreeReach
  <2>4. QED
    BY <1>6, <2>3
<1>11. \A q \in DOMAIN g : g[q] \in InodeRecord
  BY <1>2 DEF GoodTree
<1>12. QED
  BY <1>8, <1>9, <1>10, <1>11 DEF GoodTree

\* The indices of a list.
LEMMA IndexOfSeq ==
    ASSUME NEW S, NEW s \in Seq(S), NEW i \in DOMAIN s
    PROVE  Len(s) \in Nat /\ DOMAIN s = 1 .. Len(s) /\ i \in 1 .. Len(s)
OBVIOUS

\* Delete takes a leaf out of its directory.
LEMMA LeafCut ==
    ASSUME NEW h, NEW r, GoodTree(h, r), NEW p \in DOMAIN h,
           NEW i \in DOMAIN h[p].children, NEW c, c = h[p].children[i],
           h[c].children = <<>>,
           NEW g, DOMAIN g = DOMAIN h \ {c},
           g[p] = [h[p] EXCEPT !.children = Unlinked(h[p].children, i)],
           \A q \in DOMAIN g \ {p} : g[q] = h[q]
    PROVE  GoodTree(g, r)
<1> DEFINE list == h[p].children
           shorter == Unlinked(list, i)
           from(j) == IF j < i THEN j ELSE j + 1
<1>1. list \in Seq(Ptr) /\ h[p] \in InodeRecord /\ c \in DOMAIN h \ {r, p}
  BY GoodRecord DEF GoodTree, TreeLinks
<1>2. /\ shorter \in Seq(Ptr) /\ DOMAIN shorter = 1 .. Len(list) - 1
      /\ \A j \in DOMAIN shorter : shorter[j] = list[from(j)]
  <2>1. PICK s \in Seq(Ptr) : s = list
    BY <1>1
  <2>2. /\ Unlinked(s, i) \in Seq(Ptr) /\ DOMAIN Unlinked(s, i) = 1 .. Len(s) - 1
        /\ \A j \in 1 .. Len(s) - 1 : Unlinked(s, i)[j] = s[IF j < i THEN j ELSE j + 1]
    BY <2>1, UnlinkedEffect
  <2>3. QED
    BY <2>1, <2>2
<1>3. /\ \A j \in DOMAIN shorter : from(j) \in DOMAIN list \ {i}
      /\ \A j, k \in DOMAIN shorter : from(j) = from(k) => j = k
      /\ \A k \in DOMAIN list \ {i} : \E j \in DOMAIN shorter : from(j) = k
  <2>0. i \in DOMAIN list
    OBVIOUS
  <2> HIDE DEF list, shorter
  <2>1. Len(list) \in Nat /\ DOMAIN list = 1 .. Len(list) /\ i \in 1 .. Len(list)
    BY <1>1, <2>0, IndexOfSeq
  <2>2. /\ \A j \in DOMAIN shorter : from(j) \in DOMAIN list \ {i}
        /\ \A j, k \in DOMAIN shorter : from(j) = from(k) => j = k
    BY <1>2, <2>1
  <2>3. ASSUME NEW k \in DOMAIN list \ {i} PROVE \E j \in DOMAIN shorter : from(j) = k
    <3>1. CASE k < i
      <4>1. k \in DOMAIN shorter /\ from(k) = k
        BY <1>2, <2>1, <3>1
      <4>2. QED
        BY <4>1
    <3>2. CASE k > i
      <4>1. k - 1 \in DOMAIN shorter /\ from(k - 1) = k
        BY <1>2, <2>1, <3>2
      <4>2. QED
        BY <4>1
    <3>3. QED
      BY <2>1, <3>1, <3>2
  <2>4. QED
    BY <2>2, <2>3
<1>4. /\ g[p] \in InodeRecord /\ g[p].children = shorter
      /\ g[p].name = h[p].name /\ g[p].is_directory = h[p].is_directory
  <2>1. g[p] = [h[p] EXCEPT !.children = shorter]
    OBVIOUS
  <2> HIDE DEF shorter
  <2>2. QED
    BY <1>1, <1>2, <2>1 DEF InodeRecord
<1> HIDE DEF list, shorter, from
<1>5. \A j, k \in DOMAIN list : list[j] = list[k] => j = k
  BY DEF GoodTree, TreeLinks, list
<1>6. \A q \in DOMAIN h : \A k \in DOMAIN h[q].children :
          h[q].children[k] = c => q = p /\ k = i
  BY DEF GoodTree, TreeLinks
<1>7. \A q \in DOMAIN g : \A j \in DOMAIN g[q].children :
          \E k \in DOMAIN h[q].children :
             /\ g[q].children[j] = h[q].children[k] /\ h[q].children[k] # c
             /\ k = IF q = p THEN from(j) ELSE j
  <2> SUFFICES ASSUME NEW q \in DOMAIN g, NEW j \in DOMAIN g[q].children
               PROVE  \E k \in DOMAIN h[q].children :
                         /\ g[q].children[j] = h[q].children[k] /\ h[q].children[k] # c
                         /\ k = IF q = p THEN from(j) ELSE j
      OBVIOUS
  <2>1. CASE q = p
    <3>1. j \in DOMAIN shorter /\ from(j) \in DOMAIN list \ {i}
      BY <1>3, <1>4, <2>1
    <3>2. from(j) \in DOMAIN h[q].children /\ g[q].children[j] = h[q].children[from(j)]
      BY <1>2, <1>4, <2>1, <3>1 DEF list
    <3>3. h[q].children[from(j)] # c
      BY <1>6, <2>1, <3>1, <3>2
    <3>4. QED
      BY <2>1, <3>2, <3>3
  <2>2. CASE q # p
    BY <1>6, <2>2
  <2>3. QED
    BY <2>1, <2>2
<1>8. \A q \in DOMAIN g : Kids(g, q) = Kids(h, q) \ {c}
  <2> SUFFICES ASSUME NEW q \in DOMAIN g PROVE Kids(g, q) = Kids(h, q) \ {c}
      OBVIOUS
  <2>1. Kids(g, q) \subseteq Kids(h, q) \ {c}
    BY <1>7 DEF Kids
  <2>2. ASSUME NEW k \in DOMAIN h[q].children, h[q].children[k] # c
        PROVE  h[q].children[k] \in Kids(g, q)
    <3>1. CASE q = p
      <4>1. k \in DOMAIN list \ {i}
        BY <2>2, <3>1 DEF list
      <4>2. PICK j \in DOMAIN shorter : from(j) = k
        BY <1>3, <4>1
      <4>3. QED
        BY <1>2, <1>4, <3>1, <4>2 DEF Kids, list
    <3>2. CASE q # p
      BY <3>2 DEF Kids
    <3>3. QED
      BY <3>1, <3>2
  <2>3. Kids(h, q) \ {c} \subseteq Kids(g, q)
    <3>1. \A x \in Kids(h, q) : \E k \in DOMAIN h[q].children : x = h[q].children[k]
      BY DEF Kids
    <3>2. QED
      BY <2>2, <3>1
  <2>4. QED
    BY <2>1, <2>3
<1>9. \A q \in DOMAIN g : /\ q \in DOMAIN h /\ g[q].name = h[q].name
                          /\ g[q].is_directory = h[q].is_directory
  BY <1>4
<1>10. TreeLinks(g, r)
  <2>1. \A q \in DOMAIN g : \A j \in DOMAIN g[q].children :
            g[q].is_directory /\ g[q].children[j] \in DOMAIN g \ {r, q}
    BY <1>7, <1>9 DEF GoodTree, TreeLinks
  <2>2. ASSUME NEW s \in DOMAIN g, NEW t \in DOMAIN g,
               NEW j \in DOMAIN g[s].children, NEW k \in DOMAIN g[t].children,
               g[s].children[j] = g[t].children[k]
        PROVE  s = t /\ j = k
    <3>1. PICK x \in DOMAIN h[s].children :
              /\ g[s].children[j] = h[s].children[x]
              /\ x = IF s = p THEN from(j) ELSE j
      BY <1>7
    <3>2. PICK y \in DOMAIN h[t].children :
              /\ g[t].children[k] = h[t].children[y]
              /\ y = IF t = p THEN from(k) ELSE k
      BY <1>7
    <3>3. s = t /\ x = y
      <4>1. s \in DOMAIN h /\ t \in DOMAIN h /\ h[s].children[x] = h[t].children[y]
        BY <1>9, <2>2, <3>1, <3>2
      <4>2. QED
        BY <4>1 DEF GoodTree, TreeLinks
    <3>4. CASE s = p
      <4>1. j \in DOMAIN shorter /\ k \in DOMAIN shorter /\ from(j) = from(k)
        BY <1>4, <3>1, <3>2, <3>3, <3>4
      <4>2. QED
        BY <1>3, <3>3, <4>1
    <3>5. CASE s # p
      BY <3>1, <3>2, <3>3, <3>5
    <3>6. QED
      BY <3>4, <3>5
  <2>3. QED
    BY <2>1, <2>2 DEF TreeLinks
<1>11. TreeNames(g)
  <2>1. \A q \in DOMAIN g : \A s \in Kids(g, q) : s \in Kids(h, q) /\ s \in DOMAIN g
    BY <1>8, <1>9, GoodRecord
  <2>2. QED
    BY <1>9, <2>1 DEF GoodTree, TreeNames
<1>12. TreeReach(g, r)
  <2> SUFFICES ASSUME NEW S \in SUBSET DOMAIN g, r \in S,
                      \A q \in S : Kids(g, q) \subseteq S
               PROVE  S = DOMAIN g
      BY DEF TreeReach
  <2> DEFINE all == S \cup {c}
  <2>1. r \in all /\ all \in SUBSET DOMAIN h
    BY <1>1
  <2>2. \A q \in all : Kids(h, q) \subseteq all
    <3>1. Kids(h, c) = {}
      BY DEF Kids
    <3>2. QED
      BY <1>8, <3>1
  <2>3. all = DOMAIN h
    BY <2>1, <2>2 DEF GoodTree, TreeReach
  <2>4. QED
    BY <2>3
<1>13. \A q \in DOMAIN g : g[q] \in InodeRecord
  BY <1>4 DEF GoodTree
<1>14. QED
  BY <1>1, <1>10, <1>11, <1>12, <1>13 DEF GoodTree

-------------------------------------------------------------------------------
(* The calls keep the tree *)

\* Kids is Inode's ChildrenOf, of any heap.
LEMMA KidsAreChildren ==
    /\ \A p : Kids(inode, p) = ChildrenOf(p)
    /\ \A p : Kids(inode', p) = ChildrenOf(p)'
BY DEF Kids, ChildrenOf

\* What is settled while no file is being created.
LEMMA AllSettled ==
    ASSUME TypeOK, pc \notin {"allocating", "rolling_back"}
    PROVE  Settled = inode
<1>1. \A q : ~Creating(q)
  BY DEF Creating
<1>2. inode = [q \in DOMAIN inode |-> inode[q]]
  BY DEF TypeOK
<1>3. Settled = [q \in DOMAIN inode |-> inode[q]]
  BY <1>1 DEF Settled
<1>4. QED
  BY <1>2, <1>3

\* The same of the state that a step leads to.
LEMMA AllSettledNext ==
    ASSUME TypeOK', pc' \notin {"allocating", "rolling_back"}
    PROVE  Settled' = inode'
<1>1. \A q : ~Creating(q)'
  BY DEF Creating
<1>2. inode' = [q \in DOMAIN inode' |-> inode'[q]]
  BY DEF TypeOK
<1>3. Settled' = [q \in DOMAIN inode' |-> inode'[q]]
  BY <1>1 DEF Settled
<1>4. QED
  BY <1>2, <1>3

\* And while one is.
LEMMA AllButChild ==
    ASSUME pc \in {"allocating", "rolling_back"}
    PROVE  Settled = [q \in DOMAIN inode \ {child} |-> inode[q]]
BY DEF Settled, Creating

\* The same of the state that a step leads to.
LEMMA AllButChildNext ==
    ASSUME pc' \in {"allocating", "rolling_back"}
    PROVE  Settled' = [q \in DOMAIN inode' \ {child'} |-> inode'[q]]
BY DEF Settled, Creating

\* A call that works on an inode finds a tree to put it into or to take it out
\* of.
LEMMA CallHasTree ==
    ASSUME IInv, RunTree, pc # "idle"
    PROVE  /\ root # NULL /\ GoodTree(Settled, root)
           /\ parent \in DOMAIN inode /\ child \in DOMAIN inode /\ child # parent
           /\ inode[parent].is_directory
BY DEF IInv, TypeOK, Directories, RunTree, TreeIsGood

\* So does one that is about to begin.
LEMMA DirectoryHasTree ==
    ASSUME RunTree, NEW p \in Directories
    PROVE  root # NULL /\ GoodTree(Settled, root) /\ p \in DOMAIN inode /\ inode[p].is_directory
BY DEF RunTree, TreeIsGood, Directories

\* num_inode_ids counts the inode that is created.
LEMMA CountedMore ==
    ASSUME Counted, num_inode_ids \in Nat, NEW new,
           DOMAIN inode' = DOMAIN inode \cup {new}, num_inode_ids' = num_inode_ids + 1
    PROVE  Counted'
<1>1. Cardinality(DOMAIN inode) \in Nat
  BY FS_CardinalityType DEF Counted
<1>2. /\ IsFiniteSet(DOMAIN inode \cup {new})
      /\ \/ Cardinality(DOMAIN inode \cup {new}) = Cardinality(DOMAIN inode)
         \/ Cardinality(DOMAIN inode \cup {new}) = Cardinality(DOMAIN inode) + 1
  BY FS_AddElement DEF Counted
<1>3. QED
  BY <1>1, <1>2 DEF Counted

\* It counts the inode that is gone still, or no longer.
LEMMA CountedLess ==
    ASSUME Counted, num_inode_ids \in Nat, NEW old \in DOMAIN inode,
           DOMAIN inode' = DOMAIN inode \ {old},
           num_inode_ids' \in {num_inode_ids - 1, num_inode_ids}
    PROVE  Counted'
<1>1. Cardinality(DOMAIN inode) \in Nat
  BY FS_CardinalityType DEF Counted
<1>2. /\ IsFiniteSet(DOMAIN inode \ {old})
      /\ Cardinality(DOMAIN inode \ {old}) = Cardinality(DOMAIN inode) - 1
  BY FS_RemoveElement DEF Counted
<1>3. QED
  BY <1>1, <1>2 DEF Counted

\* create_dir makes the root, before there is any other inode.
LEMMA CreateRootRun == IInv /\ RunTree /\ CreateRoot => RunTree'
<1> SUFFICES ASSUME IInv, RunTree, CreateRoot PROVE RunTree'
    OBVIOUS
<1>1. IInv' /\ DOMAIN inode = {}
  BY CreateRootInv DEF RunTree, TreeIsGood, CreateRoot
<1>2. PICK new \in Ptr \ DOMAIN inode :
          inode' = With(new, NewDirectory(num_inode_ids, RootName)) /\ root' = new
  BY DEF CreateRoot
<1>3. /\ pc' = "idle" /\ num_inode_ids' = num_inode_ids + 1 /\ num_inode_ids \in Nat
      /\ RootName \in Names
  BY InodeAssumption DEF CreateRoot, IInv, TypeOK
<1>0. PICK id \in Nat : id = num_inode_ids
  BY <1>3
<1> DEFINE record == NewDirectory(id, RootName)
<1>4. record \in InodeRecord /\ record.children = <<>>
  BY <1>3, NewFields
<1> HIDE DEF record
<1>5. DOMAIN inode' = {new} /\ inode'[new] = record
  <2>1. inode' = With(new, record)
    BY <1>0, <1>2 DEF record
  <2>2. QED
    BY <1>1, <1>4, <2>1, LeafEffect
<1>6. GoodTree(inode', root')
  <2>1. PICK g : g = inode'
    OBVIOUS
  <2>2. GoodTree(g, new)
    BY <1>4, <1>5, <2>1, SingleTree
  <2>3. QED
    BY <1>2, <2>1, <2>2
<1>7. Settled' = inode'
  BY <1>1, <1>3, AllSettledNext DEF IInv
<1>8. TreeIsGood'
  BY <1>2, <1>6, <1>7, InodeAssumption DEF TreeIsGood
<1>9. Counted'
  BY <1>1, <1>3, <1>5, CountedMore DEF RunTree
<1>10. CreatedFile' /\ DeletedLeaf'
  BY <1>3 DEF CreatedFile, DeletedLeaf
<1>11. QED
  BY <1>8, <1>9, <1>10 DEF RunTree

\* create_dir puts a leaf with a name of its own into the tree.
LEMMA CreateDirRun ==
    ASSUME IInv, RunTree, NEW p \in Directories, NEW name \in Names, CreateDir(p, name)
    PROVE  RunTree'
<1>1. IInv' /\ TypeOK /\ pc = "idle"
  BY CreateDirInv DEF CreateDir, IInv
<1>2. PICK new \in Ptr \ DOMAIN inode :
          AddInodeToParent(p, new, NewDirectory(num_inode_ids, name))
  BY DEF CreateDir
<1>3. /\ pc' = "idle" /\ num_inode_ids' = num_inode_ids + 1 /\ num_inode_ids \in Nat
      /\ root' = root
  BY <1>1 DEF CreateDir, TypeOK
<1>0. PICK id \in Nat : id = num_inode_ids
  BY <1>3
<1> DEFINE record == NewDirectory(id, name)
<1>4. record \in InodeRecord /\ record.children = <<>> /\ record.name = name
  BY <1>3, NewFields
<1> HIDE DEF record
<1>5. /\ root # NULL /\ GoodTree(Settled, root) /\ p \in DOMAIN inode
      /\ inode[p].is_directory /\ Settled = inode
  BY <1>1, DirectoryHasTree, AllSettled
<1>6. /\ DOMAIN inode' = DOMAIN inode \cup {new} /\ inode'[new] = record
      /\ \A q \in DOMAIN inode \ {p} : inode'[q] = inode[q]
      /\ inode'[p] = [inode[p] EXCEPT !.children = Append(inode[p].children, new)]
  <2>1. new \in Ptr \ {p} /\ AddInodeToParent(p, new, record)
    BY <1>0, <1>2, <1>5 DEF record
  <2>2. DOMAIN inode' = DOMAIN inode \cup {new} /\ inode'[new] = record
    BY <1>1, <1>4, <1>5, <2>1, AddEffect
  <2>3. \A q \in DOMAIN inode : q # p /\ q # new => inode'[q] = inode[q]
    BY <1>1, <1>4, <1>5, <2>1, AddEffect
  <2>4. inode'[p] = [inode[p] EXCEPT !.children = Append(inode[p].children, new)]
    BY <1>1, <1>4, <1>5, <2>1, AddEffect
  <2>5. QED
    BY <2>2, <2>3, <2>4
<1>7. name # inode[p].name /\ \A q \in Kids(inode, p) : inode[q].name # name
  BY NameIsNew, KidsAreChildren DEF CreateDir
<1>8. PICK h, g : h = inode /\ g = inode'
  OBVIOUS
<1>9. GoodTree(inode', root)
  <2>1. /\ GoodTree(h, root) /\ p \in DOMAIN h /\ h[p].is_directory /\ new \in Ptr \ DOMAIN h
        /\ record.name # h[p].name /\ \A q \in Kids(h, p) : h[q].name # record.name
        /\ DOMAIN g = DOMAIN h \cup {new} /\ g[new] = record
        /\ g[p] = [h[p] EXCEPT !.children = Append(h[p].children, new)]
        /\ \A q \in DOMAIN h \ {p} : g[q] = h[q]
    BY <1>4, <1>5, <1>6, <1>7, <1>8
  <2>2. PICK made \in InodeRecord : made = record
    BY <1>4
  <2>3. /\ made.children = <<>> /\ made.name # h[p].name
        /\ \A q \in Kids(h, p) : h[q].name # made.name
        /\ g[new] = made
    BY <1>4, <2>1, <2>2
  <2>4. GoodTree(g, root)
    BY <2>1, <2>3, LeafAdded
  <2>5. QED
    BY <1>8, <2>4
<1>10. Settled' = inode'
  BY <1>1, <1>3, AllSettledNext DEF IInv
<1>11. TreeIsGood'
  BY <1>3, <1>5, <1>9, <1>10 DEF TreeIsGood
<1>12. Counted'
  BY <1>3, <1>6, CountedMore DEF RunTree
<1>13. CreatedFile' /\ DeletedLeaf'
  BY <1>3 DEF CreatedFile, DeletedLeaf
<1>14. QED
  BY <1>11, <1>12, <1>13 DEF RunTree

\* While create_file works the new inode is outside the tree.
LEMMA CreateFileRun ==
    ASSUME IInv, RunTree, NEW p \in Directories, NEW name \in Names, NEW size \in Sizes,
           CreateFile(p, name, size)
    PROVE  RunTree'
<1>1. IInv' /\ TypeOK /\ pc = "idle"
  BY CreateFileInv DEF CreateFile, IInv
<1>2. PICK new \in Ptr \ DOMAIN inode :
          inode' = With(new, NewFile(num_inode_ids, name, size)) /\ child' = new
  BY DEF CreateFile
<1>3. /\ pc' = "allocating" /\ num_inode_ids' = num_inode_ids + 1 /\ num_inode_ids \in Nat
      /\ root' = root /\ parent' = p
  BY <1>1 DEF CreateFile, TypeOK
<1>0. PICK id \in Nat : id = num_inode_ids
  BY <1>3
<1> DEFINE record == NewFile(id, name, size)
<1>4. /\ record \in InodeRecord /\ record.children = <<>> /\ record.name = name
      /\ ~record.is_directory
  BY DEF NewFile, InodeRecord
<1>5. /\ root # NULL /\ GoodTree(Settled, root) /\ p \in DOMAIN inode /\ Settled = inode
  BY <1>1, DirectoryHasTree, AllSettled
<1>6. /\ DOMAIN inode' = DOMAIN inode \cup {new} /\ inode'[new] = record
      /\ \A q \in DOMAIN inode : inode'[q] = inode[q]
  <2>1. inode' = With(new, record)
    BY <1>0, <1>2 DEF record
  <2> HIDE DEF record
  <2>2. DOMAIN With(new, record) = DOMAIN inode \cup {new} /\ With(new, record)[new] = record
    BY <1>1, <1>4, HeapEffect
  <2>3. \A q \in DOMAIN inode : q # new => With(new, record)[q] = inode[q]
    BY <1>1, <1>4, HeapEffect
  <2>4. QED
    BY <2>1, <2>2, <2>3
<1> HIDE DEF record
<1>7. Settled' = Settled
  <2>1. Settled' = [q \in DOMAIN inode' \ {child'} |-> inode'[q]]
    BY <1>3, AllButChildNext
  <2>2. DOMAIN inode' \ {child'} = DOMAIN inode
    BY <1>2, <1>6
  <2>3. inode = [q \in DOMAIN inode |-> inode[q]]
    BY <1>1 DEF TypeOK
  <2>4. QED
    BY <1>5, <1>6, <2>1, <2>2, <2>3
<1>8. TreeIsGood'
  BY <1>3, <1>5, <1>7 DEF TreeIsGood
<1>9. Counted'
  BY <1>3, <1>6, CountedMore DEF RunTree
<1>10. CreatedFile'
  <2>1. name # inode[p].name /\ \A q \in Kids(inode, p) : inode[q].name # name
    BY NameIsNew, KidsAreChildren DEF CreateFile
  <2>2. Kids(inode', p) = Kids(inode, p) /\ Kids(inode, p) \subseteq DOMAIN inode
    BY <1>5, <1>6, GoodRecord DEF Kids
  <2>3. QED
    BY <1>2, <1>3, <1>4, <1>5, <1>6, <2>1, <2>2 DEF CreatedFile
<1>11. DeletedLeaf'
  BY <1>3 DEF DeletedLeaf
<1>12. QED
  BY <1>8, <1>9, <1>10, <1>11 DEF RunTree

\* A block more for the file that is being created.
LEMMA AllocateBlockRun == IInv /\ RunTree /\ AllocateBlock => RunTree'
<1> SUFFICES ASSUME IInv, RunTree, AllocateBlock PROVE RunTree'
    OBVIOUS
<1>1. PICK b \in Blocks : inode' = [inode EXCEPT ![child].blocks = Append(@, b)]
  BY DEF AllocateBlock
<1>2. /\ pc = "allocating" /\ UNCHANGED <<root, num_inode_ids, pc, parent, child>>
  BY DEF AllocateBlock
<1>3. /\ root # NULL /\ GoodTree(Settled, root) /\ parent \in DOMAIN inode
      /\ child \in DOMAIN inode /\ child # parent
  BY <1>2, CallHasTree
<1>4. PICK c \in DOMAIN inode : c = child
  BY <1>3
<1>5. /\ DOMAIN inode' = DOMAIN inode
      /\ \A q \in DOMAIN inode \ {c} : inode'[q] = inode[q]
      /\ inode'[c].name = inode[c].name /\ inode'[c].is_directory = inode[c].is_directory
      /\ inode'[c].children = inode[c].children
  BY <1>1, <1>4, BlockEffect
<1>6. Settled' = Settled
  <2>1. Settled' = [q \in DOMAIN inode' \ {child'} |-> inode'[q]]
    BY <1>2, AllButChildNext
  <2>2. Settled = [q \in DOMAIN inode \ {child} |-> inode[q]]
    BY <1>2, AllButChild
  <2>3. QED
    BY <1>2, <1>4, <1>5, <2>1, <2>2
<1>7. TreeIsGood'
  BY <1>2, <1>3, <1>6 DEF TreeIsGood
<1>8. Counted'
  BY <1>2, <1>5 DEF RunTree, Counted
<1>9. CreatedFile'
  <2>1. \A q \in DOMAIN inode : /\ inode'[q].name = inode[q].name
                                /\ inode'[q].children = inode[q].children
    BY <1>5
  <2>2. Kids(inode', parent) = Kids(inode, parent) /\ Kids(inode, parent) \subseteq DOMAIN inode
    BY <1>3, <2>1, KidsAreChildren, ChildrenOnHeap DEF Kids
  <2>3. CreatedFile
    BY DEF RunTree
  <2>4. QED
    BY <1>2, <1>3, <1>4, <1>5, <2>1, <2>2, <2>3 DEF CreatedFile
<1>10. DeletedLeaf'
  BY <1>2 DEF DeletedLeaf
<1>11. QED
  BY <1>7, <1>8, <1>9, <1>10 DEF RunTree

\* Steps of a call that leave the inodes alone.
LEMMA StillRun ==
    ASSUME IInv, RunTree, UNCHANGED <<inode, root, num_inode_ids>>, pc # "idle",
           UNCHANGED <<parent, child>>,
           pc = "freeing" <=> pc' = "freeing", pc' # "idle", IInv'
    PROVE  RunTree'
<1>1. Settled' = Settled
  <2>1. pc \in {"allocating", "rolling_back", "freeing"}
    BY DEF IInv, TypeOK
  <2>2. pc' \in {"allocating", "rolling_back", "freeing"}
    BY DEF IInv, TypeOK
  <2>3. \A q : Creating(q)' <=> Creating(q)
    BY <2>1, <2>2 DEF Creating
  <2>4. QED
    BY <2>3 DEF Settled
<1>2. TreeIsGood' /\ Counted'
  BY <1>1 DEF RunTree, TreeIsGood, Counted
<1>3. CreatedFile' /\ DeletedLeaf'
  <2>1. pc \in {"allocating", "rolling_back", "freeing"}
    BY DEF IInv, TypeOK
  <2>2. pc' \in {"allocating", "rolling_back"} => pc \in {"allocating", "rolling_back"}
    BY <2>1
  <2>3. QED
    BY <2>2 DEF RunTree, CreatedFile, DeletedLeaf
<1>4. QED
  BY <1>2, <1>3 DEF RunTree

\* The roll back keeps the tree as it is until it has freed the blocks.
LEMMA AllocateFailsRun == IInv /\ RunTree /\ AllocateFails => RunTree'
<1> SUFFICES ASSUME IInv, RunTree, AllocateFails PROVE RunTree'
    OBVIOUS
<1>1. IInv'
  BY AllocateFailsInv
<1>2. QED
  BY <1>1, StillRun DEF AllocateFails

\* Freeing a block, in a roll back or in delete_file, leaves the tree alone.
LEMMA FreeBlockRun == IInv /\ RunTree /\ FreeBlock => RunTree'
<1> SUFFICES ASSUME IInv, RunTree, FreeBlock PROVE RunTree'
    OBVIOUS
<1>1. IInv'
  BY FreeBlockInv
<1>2. QED
  BY <1>1, StillRun DEF FreeBlock

\* A create_file that fails leaves what was settled before.
LEMMA DroppedRun ==
    ASSUME IInv, RunTree, IInv', pc \in {"allocating", "rolling_back"}, pc' = "idle",
           inode' = Without(child), root' = root, num_inode_ids' = num_inode_ids - 1
    PROVE  RunTree'
<1>1. /\ root # NULL /\ GoodTree(Settled, root) /\ child \in DOMAIN inode
      /\ num_inode_ids \in Nat
  BY CallHasTree DEF IInv, TypeOK
<1>2. inode' = [q \in DOMAIN inode \ {child} |-> inode[q]]
  BY DEF Without
<1>3. Settled' = Settled
  <2>1. Settled' = inode'
    BY AllSettledNext DEF IInv
  <2>2. Settled = [q \in DOMAIN inode \ {child} |-> inode[q]]
    BY AllButChild
  <2>3. QED
    BY <1>2, <2>1, <2>2
<1>4. TreeIsGood'
  BY <1>1, <1>3 DEF TreeIsGood
<1>5. Counted'
  BY <1>1, <1>2, CountedLess DEF RunTree
<1>6. CreatedFile' /\ DeletedLeaf'
  BY DEF CreatedFile, DeletedLeaf
<1>7. QED
  BY <1>4, <1>5, <1>6 DEF RunTree

\* The end of a roll back drops an inode that is outside the tree.
LEMMA RollBackDoneRun == IInv /\ RunTree /\ RollBackDone => RunTree'
<1> SUFFICES ASSUME IInv, RunTree, RollBackDone PROVE RunTree'
    OBVIOUS
<1>1. IInv'
  BY RollBackDoneInv
<1>2. QED
  BY <1>1, DroppedRun DEF RollBackDone, Return

\* So does create_file when the array of children cannot grow.
LEMMA LinkFailsRun == IInv /\ RunTree /\ LinkFails => RunTree'
<1> SUFFICES ASSUME IInv, RunTree, LinkFails PROVE RunTree'
    OBVIOUS
<1>1. IInv'
  BY LinkFailsInv
<1>2. QED
  BY <1>1, DroppedRun DEF LinkFails, Return

\* The file is settled from now on.
LEMMA LinkFileRun == IInv /\ RunTree /\ LinkFile => RunTree'
<1> SUFFICES ASSUME IInv, RunTree, LinkFile PROVE RunTree'
    OBVIOUS
<1>1. /\ IInv' /\ TypeOK /\ pc = "allocating" /\ pc' = "idle" /\ root' = root
      /\ num_inode_ids' = num_inode_ids
      /\ AddInodeToParent(parent, child, inode[child])
  BY LinkFileInv DEF LinkFile, Return, IInv
<1>2. /\ root # NULL /\ GoodTree(Settled, root) /\ parent \in DOMAIN inode
      /\ child \in DOMAIN inode /\ child # parent /\ inode[parent].is_directory
  BY <1>1, CallHasTree
<1>3. PICK p \in DOMAIN inode, c \in Ptr : p = parent /\ c = child /\ c # p
  BY <1>1, <1>2 DEF TypeOK
<1>4. PICK record \in InodeRecord : record = inode[c]
  BY <1>1, <1>2, <1>3 DEF TypeOK
<1>5. /\ DOMAIN inode' = DOMAIN inode \cup {c} /\ inode'[c] = record
      /\ \A q \in DOMAIN inode : q # p /\ q # c => inode'[q] = inode[q]
      /\ inode'[p] = [inode[p] EXCEPT !.children = Append(inode[p].children, c)]
  <2>1. AddInodeToParent(p, c, record)
    BY <1>1, <1>3, <1>4
  <2>2. c \in Ptr \ {p}
    BY <1>3
  <2>3. DOMAIN inode' = DOMAIN inode \cup {c} /\ inode'[c] = record
    BY <1>1, <2>1, <2>2, AddEffect
  <2>4. \A q \in DOMAIN inode : q # p /\ q # c => inode'[q] = inode[q]
    BY <2>1 DEF AddInodeToParent, With
  <2>5. inode'[p] = [inode[p] EXCEPT !.children = Append(inode[p].children, c)]
    BY <1>1, <2>1, <2>2, AddEffect
  <2>6. QED
    BY <2>3, <2>4, <2>5
<1>6. PICK h : h = Settled
  OBVIOUS
<1>7. /\ DOMAIN h = DOMAIN inode \ {c} /\ p \in DOMAIN h
      /\ \A q \in DOMAIN h : h[q] = inode[q]
  BY <1>1, <1>3, <1>6, AllButChild
<1>8. /\ record.children = <<>> /\ record.name # h[p].name
      /\ \A q \in Kids(h, p) : h[q].name # record.name
  <2>1. CreatedFile
    BY DEF RunTree
  <2>2. Kids(h, p) = Kids(inode, p)
    BY <1>7 DEF Kids
  <2>3. Kids(h, p) \subseteq DOMAIN h
    BY <1>2, <1>6, <1>7, GoodRecord
  <2>4. QED
    BY <1>1, <1>3, <1>4, <1>7, <2>1, <2>2, <2>3 DEF CreatedFile
<1>9. PICK g : g = inode'
  OBVIOUS
<1>10. GoodTree(g, root)
  <2>1. /\ GoodTree(h, root) /\ h[p].is_directory /\ c \in Ptr \ DOMAIN h
        /\ DOMAIN g = DOMAIN h \cup {c} /\ g[c] = record
        /\ g[p] = [h[p] EXCEPT !.children = Append(h[p].children, c)]
        /\ \A q \in DOMAIN h \ {p} : g[q] = h[q]
    BY <1>2, <1>3, <1>5, <1>6, <1>7, <1>9
  <2>2. QED
    BY <1>7, <1>8, <2>1, LeafAdded
<1>11. Settled' = inode'
  BY <1>1, AllSettledNext DEF IInv
<1>12. TreeIsGood'
  BY <1>1, <1>2, <1>9, <1>10, <1>11 DEF TreeIsGood
<1>13. Counted'
  <2>1. DOMAIN inode' = DOMAIN inode
    BY <1>2, <1>3, <1>5
  <2>2. QED
    BY <1>1, <2>1 DEF RunTree, Counted
<1>14. CreatedFile' /\ DeletedLeaf'
  BY <1>1 DEF CreatedFile, DeletedLeaf
<1>15. QED
  BY <1>12, <1>13, <1>14 DEF RunTree

\* The child that delete picks is the inode it was given, a leaf.
LEMMA PickToDeleteRun ==
    ASSUME CallersFind, IInv, RunTree, pc = "idle", NEW p \in Directories,
           NEW n \in Deletable(p), PickToDelete(p, n)
    PROVE  RunTree'
<1>1. TypeOK /\ TypeOK'
  BY PickToDeleteInv DEF IInv, Deletable
<1>2. /\ root # NULL /\ GoodTree(inode, root) /\ p \in DOMAIN inode /\ Settled = inode
  BY <1>1, DirectoryHasTree, AllSettled
<1>3. PICK q \in ChildrenOf(p) : FirstNamed(p, inode[n].name, q) /\ child' = q
  BY DEF PickToDelete
<1>4. /\ inode[n].children = <<>>
      /\ pc' = "freeing" /\ parent' = p /\ UNCHANGED <<inode, root, num_inode_ids>>
  BY DEF PickToDelete
<1>5. q = n
  <2>1. n # NULL /\ n # p
    BY <1>1, <1>3, <1>4, InodeAssumption DEF Deletable, Linked, TypeOK, ChildrenOf
  <2>2. PICK name \in Names : FindInodeByName(p, name, n)
    BY DEF Deletable
  <2>3. n \in ChildrenOf(p)
    BY <2>1, <2>2 DEF FindInodeByName, FirstNamed, ChildrenOf
  <2>4. inode[q].name = inode[n].name
    BY <1>3 DEF FirstNamed
  <2>5. QED
    BY <1>2, <2>3, <2>4, KidsAreChildren DEF GoodTree, TreeNames
<1>6. Settled' = inode'
  BY <1>1, <1>4, AllSettledNext
<1>7. TreeIsGood' /\ Counted'
  BY <1>2, <1>4, <1>6 DEF RunTree, TreeIsGood, Counted
<1>8. CreatedFile' /\ DeletedLeaf'
  BY <1>3, <1>4, <1>5, KidsAreChildren DEF CreatedFile, DeletedLeaf
<1>9. QED
  BY <1>7, <1>8 DEF RunTree

\* delete takes a leaf out of the tree.
LEMMA UnlinkRun == IInv /\ RunTree /\ Unlink => RunTree'
<1> SUFFICES ASSUME IInv, RunTree, Unlink PROVE RunTree'
    OBVIOUS
<1>1. /\ IInv' /\ TypeOK /\ pc = "freeing" /\ pc' = "idle" /\ root' = root
      /\ num_inode_ids' = num_inode_ids /\ num_inode_ids \in Nat
  <2>1. IInv' /\ TypeOK /\ num_inode_ids \in Nat
    BY UnlinkInv DEF IInv, TypeOK
  <2>2. QED
    BY <2>1 DEF Unlink, Return
<1>2. PICK i \in DOMAIN inode[parent].children :
          /\ inode[parent].children[i] = child
          /\ inode' = [Without(child) EXCEPT ![parent].children = Unlinked(@, i)]
  BY DEF Unlink
<1>3. /\ root # NULL /\ GoodTree(inode, root) /\ parent \in DOMAIN inode
      /\ child \in DOMAIN inode /\ child # parent /\ inode[child].children = <<>>
  <2>1. Settled = inode
    BY <1>1, AllSettled
  <2>2. DeletedLeaf
    BY DEF RunTree
  <2>3. QED
    BY <1>1, <2>1, <2>2, CallHasTree DEF DeletedLeaf
<1>4. PICK p \in DOMAIN inode, c \in DOMAIN inode : p = parent /\ c = child
  BY <1>3
<1>5. /\ DOMAIN inode' = DOMAIN inode \ {c}
      /\ \A q \in DOMAIN inode' \ {p} : inode'[q] = inode[q]
      /\ inode'[p] = [inode[p] EXCEPT !.children = Unlinked(inode[p].children, i)]
  BY <1>2, <1>3, <1>4 DEF Without
<1>6. PICK h, g : h = inode /\ g = inode'
  OBVIOUS
<1>7. GoodTree(g, root)
  <2>1. /\ GoodTree(h, root) /\ p \in DOMAIN h /\ i \in DOMAIN h[p].children
        /\ c = h[p].children[i] /\ h[c].children = <<>> /\ DOMAIN g = DOMAIN h \ {c}
        /\ g[p] = [h[p] EXCEPT !.children = Unlinked(h[p].children, i)]
        /\ \A q \in DOMAIN g \ {p} : g[q] = h[q]
    BY <1>2, <1>3, <1>4, <1>5, <1>6
  <2>2. QED
    BY <2>1, LeafCut
<1>8. Settled' = inode'
  BY <1>1, AllSettledNext DEF IInv
<1>9. TreeIsGood'
  BY <1>1, <1>3, <1>6, <1>7, <1>8 DEF TreeIsGood
<1>10. Counted'
  BY <1>1, <1>5, CountedLess DEF RunTree
<1>11. CreatedFile' /\ DeletedLeaf'
  BY <1>1 DEF CreatedFile, DeletedLeaf
<1>12. QED
  BY <1>9, <1>10, <1>11 DEF RunTree

\* Every step of a call keeps the tree.
LEMMA NextRun == ASSUME CallersFind, IInv, RunTree, Next PROVE RunTree'
<1>1. CASE CreateRoot
  BY <1>1, CreateRootRun
<1>2. ASSUME NEW p \in Directories, NEW name \in Names, CreateDir(p, name) PROVE RunTree'
  BY <1>2, CreateDirRun
<1>3. ASSUME NEW p \in Directories, NEW name \in Names, NEW size \in Sizes,
             CreateFile(p, name, size)
      PROVE  RunTree'
  BY <1>3, CreateFileRun
<1>4. CASE Delete
  <2>1. PICK p \in Directories : \E n \in Deletable(p) : DeleteFile(p, n) \/ DeleteDir(p, n)
    BY <1>4 DEF Delete
  <2>2. PICK n \in Deletable(p) : DeleteFile(p, n) \/ DeleteDir(p, n)
    BY <2>1
  <2>3. pc = "idle" /\ PickToDelete(p, n)
    BY <2>2 DEF DeleteFile, DeleteDir
  <2>4. QED
    BY <2>3, PickToDeleteRun
<1>5. CASE Internal
  BY <1>5, AllocateBlockRun, AllocateFailsRun, FreeBlockRun, RollBackDoneRun, LinkFileRun,
     LinkFailsRun, UnlinkRun DEF Internal
<1>6. QED
  BY <1>1, <1>2, <1>3, <1>4, <1>5 DEF Next, Create

-------------------------------------------------------------------------------
(* The order in which save_inodes writes the inodes *)

\* The children of the inode that is written come in front of what waits.
LEMMA PushEffect ==
    ASSUME NEW S, NEW a \in Seq(S), NEW s \in Seq(S), s # <<>>
    PROVE  /\ Head(s) = s[1] /\ 1 \in DOMAIN s /\ Head(s) \in S
           /\ a \o Tail(s) \in Seq(S)
           /\ Len(a \o Tail(s)) = Len(a) + Len(s) - 1
           /\ DOMAIN (a \o Tail(s)) = 1 .. Len(a) + Len(s) - 1
           /\ \A i \in 1 .. Len(a) + Len(s) - 1 :
                 (a \o Tail(s))[i] = IF i <= Len(a) THEN a[i] ELSE s[i - Len(a) + 1]
<1>1. Len(a) \in Nat /\ Len(s) \in Nat /\ Len(s) > 0
  OBVIOUS
<1>2. /\ Head(s) = s[1] /\ Head(s) \in S /\ Tail(s) \in Seq(S)
      /\ Len(Tail(s)) = Len(s) - 1
      /\ \A i \in 1 .. Len(s) - 1 : Tail(s)[i] = s[i + 1]
  OBVIOUS
<1>3. PICK b \in Seq(S) :
          b = Tail(s) /\ Len(b) = Len(s) - 1 /\ \A i \in 1 .. Len(s) - 1 : b[i] = s[i + 1]
  BY <1>2
<1>4. /\ a \o b \in Seq(S) /\ Len(a \o b) = Len(a) + Len(b)
      /\ \A i \in 1 .. Len(a) + Len(b) : (a \o b)[i] = IF i <= Len(a) THEN a[i] ELSE b[i - Len(a)]
  BY ConcatProperties
<1>5. ASSUME NEW i \in 1 .. Len(a) + Len(s) - 1
      PROVE  (a \o b)[i] = IF i <= Len(a) THEN a[i] ELSE s[i - Len(a) + 1]
  <2>1. i \in 1 .. Len(a) + Len(b)
    BY <1>1, <1>3
  <2>2. CASE i <= Len(a)
    BY <1>4, <2>1, <2>2
  <2>3. CASE ~(i <= Len(a))
    <3>1. PICK j \in 1 .. Len(s) - 1 : j = i - Len(a)
      BY <1>1, <2>3
    <3>2. (a \o b)[i] = b[j]
      BY <1>1, <1>4, <2>1, <2>3, <3>1
    <3>3. b[j] = s[j + 1] /\ j + 1 = i - Len(a) + 1
      BY <1>1, <1>3, <3>1
    <3>4. (a \o b)[i] = s[i - Len(a) + 1]
      BY <3>2, <3>3
    <3>5. QED
      BY <2>3, <3>4
  <2>4. QED
    BY <2>2, <2>3
<1>6. Len(a \o b) = Len(a) + Len(s) - 1 /\ DOMAIN (a \o b) = 1 .. Len(a \o b)
  BY <1>1, <1>3, <1>4
<1>7. QED
  BY <1>1, <1>2, <1>3, <1>4, <1>5, <1>6

\* One call of save_inode: no inode is written twice, none is forgotten, and
\* the children of a directory keep their order.
LEMMA StackStep ==
    ASSUME NEW h, NEW r, GoodTree(h, r), NEW done \in SUBSET DOMAIN h,
           NEW s \in Seq(DOMAIN h), StackOK(h, r, done, s), NEW t, Pops(h, s, t)
    PROVE  /\ Head(s) \in DOMAIN h /\ Head(s) \notin done /\ t \in Seq(DOMAIN h)
           /\ StackOK(h, r, done \cup {Head(s)}, t)
<1>0. PICK q : q = Head(s)
  OBVIOUS
<1>1. q = s[1] /\ 1 \in DOMAIN s /\ q \in DOMAIN h
  BY <1>0, PushEffect DEF Pops
<1>2. PICK a \in Seq(DOMAIN h) : a = h[q].children
  BY <1>1, GoodRecord
<1>3. /\ t \in Seq(DOMAIN h) /\ DOMAIN t = 1 .. Len(a) + Len(s) - 1
      /\ \A i \in DOMAIN t : t[i] = IF i <= Len(a) THEN a[i] ELSE s[i - Len(a) + 1]
  BY <1>0, <1>2, PushEffect DEF Pops
<1>4. /\ Len(a) \in Nat /\ DOMAIN a = 1 .. Len(a)
      /\ Len(s) \in Nat /\ DOMAIN s = 1 .. Len(s) /\ Len(s) > 0
  BY DEF Pops
<1>5. /\ \A i \in DOMAIN s : s[i] \in Waiting(s)
      /\ \A i \in DOMAIN s : s[i] = q => i = 1
      /\ q \in Waiting(s) /\ q \notin done
      /\ \A i \in DOMAIN a : a[i] \in Kids(h, q)
      /\ \A x \in Kids(h, q) : \E i \in DOMAIN a : x = a[i]
  BY <1>1, <1>2 DEF StackOK, Waiting, Kids
<1>6. /\ \A p \in DOMAIN h : \A x \in Kids(h, p) : x \in Kids(h, q) => p = q
      /\ \A i, j \in DOMAIN a : a[i] = a[j] => i = j
      /\ r \notin Kids(h, q) /\ q \notin Kids(h, q)
  <2>1. /\ \A p \in DOMAIN h : \A x \in Kids(h, p) : x \in Kids(h, q) => p = q
        /\ \A i, j \in DOMAIN a : a[i] = a[j] => i = j
    BY <1>1, <1>2 DEF GoodTree, TreeLinks, Kids
  <2>2. QED
    BY <1>1, <2>1, GoodRecord
<1>7. Kids(h, q) \cap (done \cup Waiting(s)) = {}
  BY <1>5, <1>6 DEF StackOK
<1>8. \A i \in DOMAIN t :
         \/ i \in DOMAIN a /\ t[i] = a[i] /\ t[i] \in Kids(h, q)
         \/ /\ i > Len(a) /\ i - Len(a) + 1 \in DOMAIN s /\ i - Len(a) + 1 # 1
            /\ t[i] = s[i - Len(a) + 1] /\ t[i] \in Waiting(s) \ {q}
  <2> SUFFICES ASSUME NEW i \in DOMAIN t
               PROVE  \/ i \in DOMAIN a /\ t[i] = a[i] /\ t[i] \in Kids(h, q)
                      \/ /\ i > Len(a) /\ i - Len(a) + 1 \in DOMAIN s /\ i - Len(a) + 1 # 1
                         /\ t[i] = s[i - Len(a) + 1] /\ t[i] \in Waiting(s) \ {q}
      OBVIOUS
  <2>1. CASE i <= Len(a)
    <3>1. i \in DOMAIN a
      BY <1>3, <1>4, <2>1
    <3>2. QED
      BY <1>3, <1>5, <2>1, <3>1
  <2>2. CASE i > Len(a)
    <3>1. i - Len(a) + 1 \in DOMAIN s /\ i - Len(a) + 1 # 1
      BY <1>3, <1>4, <2>2
    <3>2. t[i] = s[i - Len(a) + 1]
      BY <1>3, <1>4, <2>2
    <3>3. QED
      BY <1>5, <2>2, <3>1, <3>2
  <2>3. QED
    BY <1>3, <1>4, <2>1, <2>2
<1>9. /\ Kids(h, q) \subseteq Waiting(t)
      /\ Waiting(s) \ {q} \subseteq Waiting(t)
      /\ Waiting(t) \subseteq Kids(h, q) \cup (Waiting(s) \ {q})
  <2>1. Kids(h, q) \subseteq Waiting(t)
    <3> SUFFICES ASSUME NEW i \in DOMAIN a PROVE a[i] \in Waiting(t)
        BY <1>5
    <3>1. i \in DOMAIN t /\ t[i] = a[i]
      BY <1>3, <1>4
    <3>2. QED
      BY <3>1 DEF Waiting
  <2>2. Waiting(s) \ {q} \subseteq Waiting(t)
    <3> SUFFICES ASSUME NEW j \in DOMAIN s, s[j] # q PROVE s[j] \in Waiting(t)
        BY DEF Waiting
    <3>1. j \in 2 .. Len(s)
      BY <1>1, <1>4
    <3>2. PICK i \in DOMAIN t : i = j + Len(a) - 1
      BY <1>3, <1>4, <3>1
    <3>3. i > Len(a) /\ i - Len(a) + 1 = j
      BY <1>4, <3>1, <3>2
    <3>4. t[i] = s[j]
      BY <1>3, <1>4, <3>3
    <3>5. QED
      BY <3>4 DEF Waiting
  <2>3. Waiting(t) \subseteq Kids(h, q) \cup (Waiting(s) \ {q})
    BY <1>8 DEF Waiting
  <2>4. QED
    BY <2>1, <2>2, <2>3
<1>10. \A i, j \in DOMAIN t : t[i] = t[j] => i = j
  <2> SUFFICES ASSUME NEW i \in DOMAIN t, NEW j \in DOMAIN t, t[i] = t[j]
               PROVE  i = j
      OBVIOUS
  <2>1. CASE t[i] \in Kids(h, q)
    BY <1>6, <1>7, <1>8, <2>1
  <2>2. CASE t[i] \notin Kids(h, q)
    <3>1. /\ i - Len(a) + 1 \in DOMAIN s /\ j - Len(a) + 1 \in DOMAIN s
          /\ s[i - Len(a) + 1] = s[j - Len(a) + 1]
      BY <1>5, <1>8, <2>2
    <3>2. i - Len(a) + 1 = j - Len(a) + 1
      BY <3>1 DEF StackOK
    <3>3. QED
      BY <1>3, <1>4, <3>2
  <2>3. QED
    BY <2>1, <2>2
<1>11. (done \cup {q}) \cap Waiting(t) = {}
  BY <1>5, <1>6, <1>7, <1>9 DEF StackOK
<1>12. \A x \in done \cup {q} \cup Waiting(t) :
          x = r \/ \E p \in done \cup {q} : x \in Kids(h, p)
  BY <1>5, <1>9 DEF StackOK
<1>13. r \in done \cup {q} \cup Waiting(t)
  BY <1>9 DEF StackOK
<1>14. \A p \in done \cup {q} : Kids(h, p) \subseteq done \cup {q} \cup Waiting(t)
  BY <1>9 DEF StackOK
<1>15. \A p \in done \cup {q} : \A x, y \in DOMAIN t : \A i, j \in DOMAIN h[p].children :
          x < y /\ t[x] = h[p].children[i] /\ t[y] = h[p].children[j] => i < j
  <2> SUFFICES ASSUME NEW p \in done \cup {q}, NEW x \in DOMAIN t, NEW y \in DOMAIN t
               PROVE  \A i, j \in DOMAIN h[p].children :
                         x < y /\ t[x] = h[p].children[i] /\ t[y] = h[p].children[j] => i < j
      OBVIOUS
  <2> SUFFICES ASSUME NEW i \in DOMAIN h[p].children, NEW j \in DOMAIN h[p].children,
                      x < y, t[x] = h[p].children[i], t[y] = h[p].children[j]
               PROVE  i < j
      OBVIOUS
  <2>1. t[x] \in Kids(h, p) /\ t[y] \in Kids(h, p)
    BY DEF Kids
  <2>2. CASE p = q
    <3>1. t[x] = a[x] /\ x \in DOMAIN a /\ t[y] = a[y] /\ y \in DOMAIN a
      BY <1>7, <1>8, <2>1, <2>2
    <3>2. x = i /\ y = j
      BY <1>2, <1>6, <2>2, <3>1
    <3>3. QED
      BY <3>2
  <2>3. CASE p # q
    <3>1. p \in done /\ p \in DOMAIN h
      BY <2>3
    <3>2. t[x] \notin Kids(h, q) /\ t[y] \notin Kids(h, q)
      BY <1>6, <2>1, <2>3, <3>1
    <3>3. /\ x - Len(a) + 1 \in DOMAIN s /\ t[x] = s[x - Len(a) + 1]
          /\ y - Len(a) + 1 \in DOMAIN s /\ t[y] = s[y - Len(a) + 1]
      BY <1>5, <1>8, <3>2
    <3>4. x - Len(a) + 1 < y - Len(a) + 1
      BY <1>3, <1>4
    <3>5. QED
      BY <3>1, <3>3, <3>4 DEF StackOK
  <2>4. QED
    BY <2>2, <2>3
<1>16. StackOK(h, r, done \cup {q}, t)
  BY <1>10, <1>11, <1>12, <1>13, <1>14, <1>15, Zenon DEF StackOK
<1>17. QED
  BY <1>0, <1>1, <1>3, <1>5, <1>16

\* save_inodes begins with the root.
LEMMA WalkBegins ==
    ASSUME NEW h, NEW r, GoodTree(h, r), NEW T, T = [k \in 0 .. 0 |-> <<r>>]
    PROVE  Walk(h, r, T, 0) /\ T[0] = <<r>>
<1>1. r \in DOMAIN h /\ <<r>> \in Seq(DOMAIN h)
  BY DEF GoodTree
<1>2. T \in [0 .. 0 -> Seq(DOMAIN h)] /\ T[0] = <<r>>
  BY <1>1
<1>3. Visited(T, 0) = {}
  BY DEF Visited
<1>4. StackOK(h, r, {}, <<r>>)
  BY DEF StackOK, Waiting
<1>5. \A k \in 0 .. 0 : StackOK(h, r, Visited(T, k), T[k])
  <2> SUFFICES ASSUME NEW k \in 0 .. 0 PROVE StackOK(h, r, Visited(T, k), T[k])
      OBVIOUS
  <2>1. k = 0
    OBVIOUS
  <2>2. QED
    BY <1>2, <1>3, <1>4, <2>1
<1>6. Walk(h, r, T, 0)
  BY <1>2, <1>5 DEF Walk
<1>7. QED
  BY <1>2, <1>6

\* And goes on with what waits in front.
LEMMA WalkGoesOn ==
    ASSUME NEW h, NEW r, GoodTree(h, r), NEW n \in Nat, NEW T, Walk(h, r, T, n),
           NEW s, s = T[n], NEW t, Pops(h, s, t)
    PROVE  GoesOn(h, r, T, n, t)
<1> DEFINE q == Head(s)
           U == [k \in 0 .. n + 1 |-> IF k = n + 1 THEN t ELSE T[k]]
<1>0. s # <<>> /\ t = h[Head(s)].children \o Tail(s)
  BY DEF Pops
<1>1. T \in [0 .. n -> Seq(DOMAIN h)] /\ n \in 0 .. n /\ T[n] \in Seq(DOMAIN h)
  BY DEF Walk
<1>2. Visited(T, n) \subseteq DOMAIN h
  <2> SUFFICES ASSUME NEW k \in 0 .. n - 1 PROVE Head(T[k]) \in DOMAIN h
      BY DEF Visited
  <2>1. k \in 0 .. n
    OBVIOUS
  <2>2. T[k] \in Seq(DOMAIN h) /\ T[k] # <<>>
    BY <1>1, <2>1 DEF Walk
  <2>3. QED
    BY <2>2
<1>3. /\ q \in DOMAIN h /\ q \notin Visited(T, n) /\ t \in Seq(DOMAIN h)
      /\ StackOK(h, r, Visited(T, n) \cup {q}, t)
  <2>1. StackOK(h, r, Visited(T, n), s) /\ s \in Seq(DOMAIN h)
    BY <1>1 DEF Walk
  <2>2. PICK done \in SUBSET DOMAIN h : done = Visited(T, n)
    BY <1>2
  <2>3. StackOK(h, r, done, s) /\ s \in Seq(DOMAIN h)
    BY <2>1, <2>2
  <2>4. Head(s) \in DOMAIN h /\ Head(s) \notin done /\ t \in Seq(DOMAIN h)
    BY <2>3, StackStep
  <2>5. StackOK(h, r, done \cup {Head(s)}, t)
    BY <2>3, StackStep
  <2>6. QED
    BY <2>2, <2>4, <2>5
<1>4. U[n + 1] = t /\ \A k \in 0 .. n : U[k] = T[k]
  <2>1. n + 1 \in 0 .. n + 1 /\ \A k \in 0 .. n : k \in 0 .. n + 1 /\ k # n + 1
    OBVIOUS
  <2>2. QED
    BY <2>1
<1>5. U \in [0 .. n + 1 -> Seq(DOMAIN h)]
  <2>1. \A k \in 0 .. n + 1 : k = n + 1 \/ k \in 0 .. n
    OBVIOUS
  <2>2. QED
    BY <1>1, <1>3, <2>1
<1> HIDE DEF U
<1>6. \A k \in 0 .. n : Visited(U, k) = Visited(T, k)
  <2> SUFFICES ASSUME NEW k \in 0 .. n PROVE Visited(U, k) = Visited(T, k)
      OBVIOUS
  <2>1. \A j \in 0 .. k - 1 : U[j] = T[j]
    BY <1>4
  <2>2. QED
    BY <2>1 DEF Visited
<1>7. Visited(U, n + 1) = Visited(T, n) \cup {q}
  <2>1. 0 .. (n + 1) - 1 = (0 .. n - 1) \cup {n}
    OBVIOUS
  <2>2. \A j \in 0 .. n : U[j] = T[j]
    BY <1>4
  <2>3. Visited(U, n + 1) = {Head(U[j]) : j \in (0 .. n - 1) \cup {n}}
    BY <2>1 DEF Visited
  <2>4. QED
    BY <2>2, <2>3 DEF Visited
<1>8. \A k \in 0 .. n + 1 : StackOK(h, r, Visited(U, k), U[k])
  <2>1. \A k \in 0 .. n + 1 : k = n + 1 \/ k \in 0 .. n
    OBVIOUS
  <2>2. QED
    BY <1>3, <1>4, <1>6, <1>7, <2>1 DEF Walk
<1>9. \A k \in 0 .. (n + 1) - 1 :
         U[k] # <<>> /\ U[k + 1] = h[Head(U[k])].children \o Tail(U[k])
  <2> SUFFICES ASSUME NEW k \in 0 .. n
               PROVE  U[k] # <<>> /\ U[k + 1] = h[Head(U[k])].children \o Tail(U[k])
    <3>1. (n + 1) - 1 = n
      OBVIOUS
    <3>2. QED
      BY <3>1
  <2>1. CASE k = n
    BY <1>0, <1>4, <2>1
  <2>2. CASE k # n
    <3>1. k \in 0 .. n - 1 /\ k + 1 \in 0 .. n
      BY <2>2
    <3>2. QED
      BY <1>4, <3>1 DEF Walk
  <2>3. QED
    BY <2>1, <2>2
<1>10. \A i, j \in 0 .. (n + 1) - 1 : Head(U[i]) = Head(U[j]) => i = j
  <2> SUFFICES ASSUME NEW i \in 0 .. n, NEW j \in 0 .. n, Head(T[i]) = Head(T[j])
               PROVE  i = j
      BY <1>4
  <2>1. \A k \in 0 .. n : k # n => k \in 0 .. n - 1 /\ Head(T[k]) \in Visited(T, n)
    BY DEF Visited
  <2>2. QED
    BY <1>3, <2>1 DEF Walk
<1>11. U[0] = <<r>>
  BY <1>4 DEF Walk
<1>12. Walk(h, r, U, n + 1)
  BY <1>5, <1>8, <1>9, <1>10, <1>11 DEF Walk
<1>13. QED
  BY <1>4, <1>12 DEF GoesOn, Prolongs

\* When nothing waits, every inode of the tree has been written.
LEMMA WalkEnds ==
    ASSUME NEW h, NEW r, GoodTree(h, r), NEW n \in Nat, NEW T, Walk(h, r, T, n), T[n] = <<>>
    PROVE  Visited(T, n) = DOMAIN h
<1>1. n \in 0 .. n /\ StackOK(h, r, Visited(T, n), <<>>)
  BY DEF Walk
<1>2. Waiting(<<>>) = {}
  BY DEF Waiting
<1>3. r \in Visited(T, n) /\ \A p \in Visited(T, n) : Kids(h, p) \subseteq Visited(T, n)
  BY <1>1, <1>2 DEF StackOK
<1>4. Visited(T, n) \subseteq DOMAIN h
  <2> SUFFICES ASSUME NEW k \in 0 .. n - 1 PROVE Head(T[k]) \in DOMAIN h
      BY DEF Visited
  <2>1. k \in 0 .. n
    OBVIOUS
  <2>2. T[k] \in Seq(DOMAIN h) /\ T[k] # <<>>
    BY <2>1 DEF Walk
  <2>3. QED
    BY <2>2
<1>5. QED
  BY <1>3, <1>4 DEF GoodTree, TreeReach

-------------------------------------------------------------------------------
(* save_inodes *)

\* What holds of the files, and of what was last saved in them, holds as long
\* as nobody writes to them.
LEMMA SameFiles ==
    ASSUME SavedInv, DiskAgrees, UNCHANGED <<bat, mft, unsaved, saved>>
    PROVE  SavedInv' /\ DiskAgrees'
<1>1. SavedInv'
  BY DEF SavedInv
<1>2. DiskAgrees'
  BY DEF DiskAgrees, AgreesOn, RecordedBlocks
<1>3. QED
  BY <1>1, <1>2

\* Reading and writing the files leaves the tree as it is.
LEMMA SameRun ==
    ASSUME IInv, RunTree, UNCHANGED vars
    PROVE  IInv' /\ RunTree'
<1>1. IInv'
  BY NextIInv
<1>2. UNCHANGED <<inode, root, num_inode_ids, pc, parent, child>>
  BY DEF vars
<1>3. Settled' = Settled
  BY <1>2 DEF Settled, Creating
<1>4. TreeIsGood'
  BY <1>2, <1>3 DEF RunTree, TreeIsGood
<1>5. Counted' /\ CreatedFile' /\ DeletedLeaf'
  BY <1>2 DEF RunTree, Counted, CreatedFile, DeletedLeaf
<1>6. QED
  BY <1>1, <1>4, <1>5 DEF RunTree

\* Between calls the whole heap is the tree.
LEMMA IdleTree ==
    ASSUME IInv, RunTree, pc = "idle", root # NULL
    PROVE  GoodTree(inode, root)
<1>1. Settled = inode
  BY AllSettled DEF IInv
<1>2. QED
  BY <1>1 DEF RunTree, TreeIsGood

\* A file has no children, so that save_inode need not look for any.
LEMMA FileIsLeaf ==
    ASSUME NEW h, NEW r, GoodTree(h, r), NEW p \in DOMAIN h, ~h[p].is_directory
    PROVE  h[p].children = <<>>
<1>1. h[p].children \in Seq(Ptr)
  BY GoodRecord
<1>2. DOMAIN h[p].children = {}
  BY DEF GoodTree, TreeLinks
<1>3. PICK list \in Seq(Ptr) : list = h[p].children /\ DOMAIN list = {}
  BY <1>1, <1>2
<1>4. Len(list) = 0
  <2> SUFFICES ASSUME Len(list) # 0 PROVE FALSE
      OBVIOUS
  <2>1. 1 \in 1 .. Len(list)
    OBVIOUS
  <2>2. DOMAIN list = 1 .. Len(list)
    OBVIOUS
  <2>3. QED
    BY <1>3, <2>1, <2>2
<1>5. QED
  BY <1>3, <1>4, EmptySeq

\* What the record of an inode is.
LEMMA RecordIsTyped ==
    ASSUME NEW h, NEW r, GoodTree(h, r), NEW p \in DOMAIN h
    PROVE  RecordOf(h[p]) \in FileRecord
<1>1. PICK x : x = h[p]
  OBVIOUS
<1>2. /\ x.children \in Seq(Ptr) /\ x.blocks \in Seq(Blocks)
      /\ x.id \in Nat /\ x.name \in Names /\ x.is_directory \in BOOLEAN
      /\ x.filesize \in Sizes \cup {0}
  BY <1>1, GoodRecord
<1>3. Len(x.children) \in Nat
  BY <1>2
<1>4. QED
  BY <1>1, <1>2, <1>3 DEF RecordOf, FileRecord

\* One record is written behind those that are there.
LEMMA SaveGoesOn ==
    ASSUME NEW h, NEW r, NEW T, NEW file, Written(h, r, T, file),
           NEW s, s = T[Len(file)], NEW t, Pops(h, s, t)
    PROVE  Head(s) \in DOMAIN h /\ Writes(h, r, file, s, t)
<1>0. s # <<>>
  BY DEF Pops
<1>1. PICK n \in Nat : n = Len(file)
  BY DEF Written
<1>2. GoodTree(h, r) /\ file \in Seq(FileRecord) /\ Walk(h, r, T, n) /\ T[n] = s
  BY <1>1 DEF Written
<1>3. Head(s) \in DOMAIN h
  <2>1. T \in [0 .. n -> Seq(DOMAIN h)] /\ n \in 0 .. n
    BY <1>2 DEF Walk
  <2>2. s \in Seq(DOMAIN h)
    BY <1>2, <2>1
  <2>3. QED
    BY <1>0, <2>2
<1>4. PICK x \in FileRecord : x = RecordOf(h[Head(s)])
  BY <1>2, <1>3, RecordIsTyped
<1>5. PICK longer : longer = Append(file, x)
  OBVIOUS
<1>6. /\ longer \in Seq(FileRecord) /\ Len(longer) = n + 1
      /\ longer[n + 1] = x /\ \A k \in 1 .. n : longer[k] = file[k]
  <2>1. DOMAIN file = 1 .. n
    BY <1>1, <1>2
  <2>2. QED
    BY <1>1, <1>2, <1>5, <2>1, AppendEffect
<1>7. PICK U : Walk(h, r, U, n + 1) /\ U[n + 1] = t /\ \A k \in 0 .. n : U[k] = T[k]
  <2>1. GoesOn(h, r, T, n, t)
    BY <1>2, WalkGoesOn
  <2>2. QED
    BY <2>1 DEF GoesOn, Prolongs
<1>8. ASSUME NEW k \in 1 .. n + 1
      PROVE  longer[k] = RecordOf(h[Head(U[k - 1])])
  <2>1. CASE k = n + 1
    <3>1. k - 1 = n /\ n \in 0 .. n
      BY <2>1
    <3>2. U[k - 1] = s
      BY <1>2, <1>7, <3>1
    <3>3. QED
      BY <1>4, <1>6, <2>1, <3>2
  <2>2. CASE k # n + 1
    <3>1. k \in 1 .. n /\ k - 1 \in 0 .. n
      BY <2>2
    <3>2. file[k] = RecordOf(h[Head(T[k - 1])])
      BY <1>1, <3>1 DEF Written
    <3>3. U[k - 1] = T[k - 1]
      BY <1>7, <3>1
    <3>4. QED
      BY <1>6, <3>1, <3>2, <3>3
  <2>3. QED
    BY <2>1, <2>2
<1>9. Written(h, r, U, longer)
  BY <1>2, <1>6, <1>7, <1>8 DEF Written
<1>10. QED
  BY <1>3, <1>4, <1>5, <1>6, <1>7, <1>9 DEF Writes

\* fopen, and the root is the first to be written.
LEMMA SaveOpenInv ==
    ASSUME DiskInv, SaveOpen
    PROVE  DiskInv'
<1>1. /\ phase = "running" /\ pc = "idle" /\ root # NULL /\ phase' = "saving"
      /\ mft' = <<>> /\ stream' = <<>> /\ todo' = <<root>>
      /\ unsaved' = {b \in Blocks : bat[b] = 1}
      /\ UNCHANGED <<bat, inode, root, num_inode_ids, pc, parent, node, child, freed, suspect>>
      /\ UNCHANGED <<dirty, killed, saved>>
  BY DEF SaveOpen, memory
<1>2. IInv /\ RunTree
  BY <1>1 DEF DiskInv, RunInv
<1>3. IInv' /\ RunTree'
  BY <1>1, <1>2, SameRun DEF vars
<1>4. SaveInv'
  <2>1. GoodTree(inode, root)
    BY <1>1, <1>2, IdleTree
  <2>2. PICK h, r : h = inode /\ r = root
    OBVIOUS
  <2>3. GoodTree(h, r)
    BY <2>1, <2>2
  <2>4. PICK T : T = [k \in 0 .. 0 |-> <<r>>]
    OBVIOUS
  <2>5. Walk(h, r, T, 0) /\ T[0] = <<r>>
    BY <2>3, <2>4, WalkBegins
  <2>6. PICK file : file = <<>> /\ file \in Seq(FileRecord) /\ Len(file) = 0
    BY EmptySeq
  <2>7. Written(h, r, T, file) /\ T[Len(file)] = <<r>>
    BY <2>3, <2>5, <2>6 DEF Written
  <2>8. QED
    BY <1>1, <2>2, <2>6, <2>7 DEF SaveInv
<1>5. DiskAgrees'
  BY <1>1 DEF DiskAgrees, AgreesOn, RecordedBlocks
<1>6. HistoryInv'
  BY <1>1 DEF DiskInv, HistoryInv
<1>7. DownInv' /\ RunInv' /\ LoadInv' /\ SavedInv' /\ LoadRestoresTree'
  BY <1>1, <1>3 DEF DownInv, RunInv, LoadInv, SavedInv, LoadRestoresTree
<1>8. /\ phase' \in {"down", "formatting", "running", "saving", "loading"}
      /\ bat' \in Table \cup {EmptyFile} /\ unsaved' \subseteq Blocks /\ killed' \in BOOLEAN /\ dirty' \in BOOLEAN
  BY <1>1 DEF DiskInv
<1>9. QED
  BY <1>4, <1>5, <1>6, <1>7, <1>8 DEF DiskInv

\* One call of save_inode.
LEMMA SaveInodeInv ==
    ASSUME DiskInv, SaveInode
    PROVE  DiskInv'
<1>1. /\ phase = "saving" /\ todo # <<>>
      /\ stream' = Append(stream, Record(Head(todo)))
      /\ todo' = Pending(Head(todo))
      /\ UNCHANGED <<bat, inode, root, num_inode_ids, pc, parent, node, child, freed, suspect>>
      /\ UNCHANGED <<mft, unsaved, saved, phase, dirty, killed>>
  BY DEF SaveInode, memory, disk
<1>2. IInv' /\ RunTree'
  BY <1>1, SameRun DEF vars, DiskInv, RunInv
<1>3. SaveInv'
  <2>1. /\ pc = "idle" /\ root # NULL /\ mft = <<>>
    BY <1>1 DEF DiskInv, SaveInv
  <2>2. PICK T : Written(inode, root, T, stream) /\ T[Len(stream)] = todo
    BY <1>1 DEF DiskInv, SaveInv
  <2>3. PICK h, r, file, s : h = inode /\ r = root /\ file = stream /\ s = todo
    OBVIOUS
  <2>4. Written(h, r, T, file) /\ T[Len(file)] = s /\ s # <<>>
    BY <1>1, <2>2, <2>3
  <2>5. PICK longer, t : /\ longer = Append(file, RecordOf(h[Head(s)]))
                         /\ t = h[Head(s)].children \o Tail(s)
    OBVIOUS
  <2>6. /\ Head(s) \in DOMAIN h /\ GoodTree(h, r)
        /\ \E U : Written(h, r, U, longer) /\ U[Len(longer)] = t
    <3>1. GoodTree(h, r)
      BY <2>4 DEF Written
    <3>2. Pops(h, s, t)
      BY <2>4, <2>5 DEF Pops
    <3>3. Head(s) \in DOMAIN h /\ Writes(h, r, file, s, t)
      BY <2>4, <3>2, SaveGoesOn
    <3>4. QED
      BY <2>5, <3>1, <3>3 DEF Writes
  <2>7. stream' = longer
    BY <1>1, <2>3, <2>5 DEF Record, RecordOf
  <2>8. todo' = t
    <3>1. ~h[Head(s)].is_directory => h[Head(s)].children = <<>>
      BY <2>6, FileIsLeaf
    <3>2. QED
      BY <1>1, <2>3, <2>5, <3>1 DEF Pending
  <2>9. inode' = h /\ root' = r
    BY <1>1, <2>3
  <2>10. QED
    BY <1>1, <2>1, <2>6, <2>7, <2>8, <2>9 DEF SaveInv
<1>4. SavedInv' /\ DiskAgrees'
  BY <1>1, SameFiles DEF DiskInv
<1>5. DownInv' /\ RunInv' /\ LoadInv' /\ HistoryInv' /\ LoadRestoresTree'
  BY <1>1, <1>2 DEF DiskInv, DownInv, RunInv, LoadInv, HistoryInv, LoadRestoresTree
<1>6. /\ phase' \in {"down", "formatting", "running", "saving", "loading"}
      /\ bat' \in Table \cup {EmptyFile} /\ unsaved' \subseteq Blocks /\ killed' \in BOOLEAN /\ dirty' \in BOOLEAN
  BY <1>1 DEF DiskInv
<1>7. QED
  BY <1>3, <1>4, <1>5, <1>6 DEF DiskInv

\* A file that is complete has one record for each inode.
LEMMA FileHasPlaces ==
    ASSUME NEW h, NEW r, NEW T, NEW file, Written(h, r, T, file), T[Len(file)] = <<>>
    PROVE  \E w : Places(h, file, w)
<1>1. PICK n \in Nat : n = Len(file) /\ DOMAIN file = 1 .. n
  BY DEF Written
<1>2. GoodTree(h, r) /\ Walk(h, r, T, n) /\ T[n] = <<>>
  BY <1>1 DEF Written
<1>3. Visited(T, n) = DOMAIN h
  BY <1>2, WalkEnds
<1> DEFINE w == [k \in DOMAIN file |-> Head(T[k - 1])]
<1>4. \A k \in 1 .. n : k - 1 \in 0 .. n - 1
  OBVIOUS
<1>5. \A j \in 0 .. n - 1 : j + 1 \in 1 .. n /\ (j + 1) - 1 = j
  OBVIOUS
<1>6. ASSUME NEW k \in DOMAIN file PROVE w[k] \in DOMAIN h
  BY <1>1, <1>3, <1>4 DEF Visited
<1>7. ASSUME NEW k \in DOMAIN file, NEW l \in DOMAIN file, w[k] = w[l] PROVE k = l
  <2>1. k - 1 \in 0 .. n - 1 /\ l - 1 \in 0 .. n - 1
    BY <1>1, <1>4
  <2>2. Head(T[k - 1]) = Head(T[l - 1])
    BY <1>7
  <2>3. k - 1 = l - 1
    BY <1>2, <2>1, <2>2 DEF Walk
  <2>4. QED
    BY <1>1, <2>3
<1>8. ASSUME NEW p \in DOMAIN h PROVE \E k \in DOMAIN file : w[k] = p
  <2>1. PICK j \in 0 .. n - 1 : p = Head(T[j])
    BY <1>3 DEF Visited
  <2>2. PICK k \in DOMAIN file : k = j + 1 /\ k - 1 = j
    BY <1>1, <1>5
  <2>3. QED
    BY <2>1, <2>2
<1>9. ASSUME NEW k \in DOMAIN file PROVE file[k].blocks = h[w[k]].blocks
  <2>1. file[k] = RecordOf(h[Head(T[k - 1])])
    BY <1>1 DEF Written
  <2>2. QED
    BY <2>1 DEF RecordOf
<1> HIDE DEF w
<1>10. Places(h, file, w)
  <2>1. w \in [DOMAIN file -> DOMAIN h]
    BY <1>6 DEF w
  <2>2. QED
    BY <1>7, <1>8, <1>9, <2>1 DEF Places
<1>11. QED
  BY <1>10

\* AgreesOn in terms of the records alone.
LEMMA AgreesIs ==
    /\ \A b : AgreesOn(b) <=> IF bat[b] = 1 THEN OneEntry(mft, b) ELSE NoEntry(mft, b)
    /\ \A b : AgreesOn(b)' <=> IF bat'[b] = 1 THEN OneEntry(mft', b) ELSE NoEntry(mft', b)
BY DEF AgreesOn, RecordedBlocks, OneEntry, NoEntry

\* What is written of a tree that agrees with the table agrees with it.
LEMMA SavedAgrees ==
    ASSUME BatMatchesTree, pc = "idle", NEW file, NEW w, Places(inode, file, w),
           NEW b \in Blocks \ suspect
    PROVE  IF bat[b] = 1 THEN OneEntry(file, b) ELSE NoEntry(file, b)
<1>1. PICK h : h = inode
  OBVIOUS
<1>2. \A p \in DOMAIN h : Unfreed(p) = DOMAIN h[p].blocks
  BY <1>1 DEF Unfreed
<1>3. /\ \A p, q \in DOMAIN h : \A i \in DOMAIN h[p].blocks, j \in DOMAIN h[q].blocks :
            h[p].blocks[i] = b /\ h[q].blocks[j] = b => p = q /\ i = j
      /\ bat[b] # 1 => \A p \in DOMAIN h : \A i \in DOMAIN h[p].blocks : h[p].blocks[i] # b
      /\ bat[b] = 1 => \E p \in DOMAIN h : \E i \in DOMAIN h[p].blocks : h[p].blocks[i] = b
  <2>1. \A p, q \in DOMAIN h : \A i \in DOMAIN h[p].blocks, j \in DOMAIN h[q].blocks :
            h[p].blocks[i] = b /\ h[q].blocks[j] = b => p = q /\ i = j
    BY <1>1, <1>2 DEF BatMatchesTree, NoBlockHeldTwice
  <2>2. bat[b] # 1 => \A p \in DOMAIN h : \A i \in DOMAIN h[p].blocks : h[p].blocks[i] # b
    BY <1>1, <1>2 DEF BatMatchesTree, HeldBlocksAreMarked
  <2>3. bat[b] = 1 => \E p \in DOMAIN h : \E i \in DOMAIN h[p].blocks : h[p].blocks[i] = b
    BY <1>1, <1>2 DEF BatMatchesTree, MarkedBlocksAreHeld
  <2>4. QED
    BY <2>1, <2>2, <2>3
<1>4. Places(h, file, w)
  BY <1>1
<1>5. CASE bat[b] = 1
  <2>1. PICK p \in DOMAIN h : \E i \in DOMAIN h[p].blocks : h[p].blocks[i] = b
    BY <1>3, <1>5
  <2>2. PICK i \in DOMAIN h[p].blocks : h[p].blocks[i] = b
    BY <2>1
  <2>3. PICK k \in DOMAIN file : w[k] = p /\ file[k].blocks = h[p].blocks
    BY <1>4 DEF Places
  <2>4. ASSUME NEW l \in DOMAIN file, NEW j \in DOMAIN file[l].blocks,
               file[l].blocks[j] = b
        PROVE  l = k /\ j = i
    <3>1. w[l] \in DOMAIN h /\ file[l].blocks = h[w[l]].blocks
      BY <1>4 DEF Places
    <3>2. w[l] = p /\ j = i
      BY <1>3, <2>2, <2>4, <3>1
    <3>3. QED
      BY <1>4, <2>3, <3>2 DEF Places
  <2>5. i \in DOMAIN file[k].blocks /\ file[k].blocks[i] = b
    BY <2>2, <2>3
  <2>6. OneEntry(file, b)
    BY <2>4, <2>5 DEF OneEntry
  <2>7. QED
    BY <1>5, <2>6
<1>6. CASE bat[b] # 1
  <2>1. \A k \in DOMAIN file : w[k] \in DOMAIN h /\ file[k].blocks = h[w[k]].blocks
    BY <1>4 DEF Places
  <2>2. NoEntry(file, b)
    BY <1>3, <1>6, <2>1 DEF NoEntry
  <2>3. QED
    BY <1>6, <2>2
<1>7. QED
  BY <1>5, <1>6

\* Every tree is its own copy.
LEMMA OwnCopy ==
    ASSUME NEW h, NEW r, GoodTree(h, r),
           NEW m, m = [p \in DOMAIN h |-> p]
    PROVE  /\ m \in Bijections(DOMAIN h, DOMAIN h) /\ m[r] = r
           /\ \A p \in DOMAIN h :
                 h[p].children = [i \in DOMAIN h[p].children |-> m[h[p].children[i]]]
<1>1. m \in Bijections(DOMAIN h, DOMAIN h) /\ m[r] = r
  BY DEF Bijections, GoodTree
<1>2. ASSUME NEW p \in DOMAIN h
      PROVE  h[p].children = [i \in DOMAIN h[p].children |-> m[h[p].children[i]]]
  <2>1. PICK list \in Seq(DOMAIN h) : list = h[p].children
    BY GoodRecord
  <2>2. list = [i \in DOMAIN list |-> list[i]]
    OBVIOUS
  <2>3. \A i \in DOMAIN list : m[list[i]] = list[i]
    <3>1. \A i \in DOMAIN list : list[i] \in DOMAIN h
      OBVIOUS
    <3>2. QED
      BY <3>1
  <2>4. list = [i \in DOMAIN list |-> m[list[i]]]
    BY <2>2, <2>3
  <2>5. QED
    BY <2>1, <2>4
<1>3. QED
  BY <1>1, <1>2

\* fclose: what the program has built is on disk.
LEMMA SaveCloseInv ==
    ASSUME DiskInv, SaveClose
    PROVE  DiskInv'
<1>1. /\ phase = "saving" /\ todo = <<>> /\ phase' = "running" /\ mft' = stream
      /\ stream' = <<>> /\ dirty' = FALSE /\ unsaved' = suspect
      /\ saved' = [inode |-> inode, root |-> root]
      /\ UNCHANGED <<bat, inode, root, num_inode_ids, pc, parent, node, child, freed, suspect>>
      /\ UNCHANGED <<todo, killed>>
  BY DEF SaveClose, memory
<1>2. IInv /\ RunTree /\ pc = "idle" /\ root # NULL
  BY <1>1 DEF DiskInv, RunInv, SaveInv
<1>3. IInv' /\ RunTree'
  BY <1>1, <1>2, SameRun DEF vars
<1>4. PICK T : Written(inode, root, T, stream) /\ T[Len(stream)] = <<>>
  BY <1>1 DEF DiskInv, SaveInv
<1>5. PICK h, r, file : h = inode /\ r = root /\ file = stream
  OBVIOUS
<1>6. Written(h, r, T, file) /\ T[Len(file)] = <<>>
  BY <1>4, <1>5
<1>7. SavedInv'
  <2>1. IsFiniteSet(DOMAIN h) /\ Cardinality(DOMAIN h) <= MaxInodeIds
    <3>1. num_inode_ids \in 0 .. MaxInodeIds /\ MaxInodeIds \in Nat
      BY <1>2, InodeAssumption DEF IInv, TypeOK
    <3>2. IsFiniteSet(DOMAIN h) /\ Cardinality(DOMAIN h) <= num_inode_ids
      BY <1>2, <1>5 DEF RunTree, Counted
    <3>3. Cardinality(DOMAIN h) \in Nat
      BY <3>2, FS_CardinalityType
    <3>4. QED
      BY <3>1, <3>2, <3>3
  <2>2. Complete(h, r, T, file)
    BY <1>6, <2>1 DEF Complete
  <2>3. saved'.inode = h /\ saved'.root = r /\ mft' = file
    BY <1>1, <1>5
  <2>4. QED
    BY <2>2, <2>3 DEF SavedInv
<1>8. DiskAgrees'
  <2>1. PICK w : Places(h, file, w)
    BY <1>6, FileHasPlaces
  <2>2. BatMatchesTree /\ Places(inode, file, w)
    BY <1>2, <1>5, <2>1 DEF IInv
  <2>3. \A b \in Blocks \ suspect : IF bat[b] = 1 THEN OneEntry(file, b) ELSE NoEntry(file, b)
    BY <1>2, <2>2, SavedAgrees
  <2>4. bat' = bat /\ mft' = file /\ unsaved' = suspect
    BY <1>1, <1>5
  <2>5. \A b \in Blocks \ unsaved' : AgreesOn(b)'
    BY <2>3, <2>4, AgreesIs
  <2>6. QED
    BY <2>5 DEF DiskAgrees
<1>9. LoadRestoresTree'
  <2>1. PICK m : m = [p \in DOMAIN h |-> p]
    OBVIOUS
  <2>2. GoodTree(h, r)
    BY <1>6 DEF Written
  <2>3. /\ m \in Bijections(DOMAIN h, DOMAIN h) /\ m[r] = r
        /\ \A p \in DOMAIN h :
              h[p].children = [i \in DOMAIN h[p].children |-> m[h[p].children[i]]]
    BY <2>1, <2>2, OwnCopy
  <2>4. saved'.inode = h /\ saved'.root = r /\ inode' = h /\ root' = r
    BY <1>1, <1>5
  <2>5. IsCopy(m)'
    BY <2>1, <2>3, <2>4 DEF IsCopy
  <2>6. QED
    BY <2>3, <2>4, <2>5 DEF LoadRestoresTree
<1>10. DownInv' /\ RunInv' /\ SaveInv' /\ LoadInv'
  BY <1>1, <1>3 DEF DownInv, RunInv, SaveInv, LoadInv
<1>11. HistoryInv'
  BY <1>1 DEF DiskInv, HistoryInv
<1>12. /\ phase' \in {"down", "formatting", "running", "saving", "loading"}
      /\ bat' \in Table \cup {EmptyFile} /\ unsaved' \subseteq Blocks /\ killed' \in BOOLEAN /\ dirty' \in BOOLEAN
  BY <1>1, <1>2 DEF DiskInv, IInv, TypeOK
<1>13. QED
  BY <1>7, <1>8, <1>9, <1>10, <1>11, <1>12 DEF DiskInv

-------------------------------------------------------------------------------
(* load_inodes *)

\* No child of the inode that is read has been read before it.
LEMMA KidsAreNew ==
    ASSUME NEW h, NEW r, GoodTree(h, r), NEW done \in SUBSET DOMAIN h,
           NEW s, StackOK(h, r, done, s), NEW q \in DOMAIN h \ done
    PROVE  Kids(h, q) \cap (done \cup {q}) = {}
<1> SUFFICES ASSUME NEW x \in Kids(h, q), x \in done \cup {q} PROVE FALSE
    OBVIOUS
<1>1. x # r /\ x # q
  BY GoodRecord
<1>2. PICK p \in done : x \in Kids(h, p)
  BY <1>1 DEF StackOK
<1>3. p = q
  BY <1>2 DEF GoodTree, TreeLinks, Kids
<1>4. QED
  BY <1>2, <1>3

\* The child that is read next is the first one not read.
LEMMA NextChild ==
    ASSUME NEW h, NEW r, GoodTree(h, r), NEW done \in SUBSET DOMAIN h,
           NEW s \in Seq(DOMAIN h), StackOK(h, r, done, s), s # <<>>,
           NEW p \in done, NEW list, NEW m, ReadChildren(list, h[p].children, done, m),
           NEW c \in DOMAIN h[p].children, h[p].children[c] = Head(s)
    PROVE  IsNext(c, list)
<1>1. PICK old \in Seq(DOMAIN h) : old = h[p].children
  BY GoodRecord
<1>2. /\ Len(old) \in Nat /\ DOMAIN old = 1 .. Len(old) /\ c \in DOMAIN old
      /\ Len(list) \in Nat /\ Len(list) <= Len(old)
      /\ \A i \in DOMAIN old : i <= Len(list) <=> old[i] \in done
  BY <1>1 DEF ReadChildren
<1>3. /\ \A i, j \in DOMAIN old : old[i] = old[j] => i = j
      /\ \A i \in DOMAIN old : old[i] \in Kids(h, p)
  BY <1>1 DEF GoodTree, TreeLinks, Kids
<1>4. /\ Head(s) = s[1] /\ 1 \in DOMAIN s /\ DOMAIN s = 1 .. Len(s) /\ Len(s) \in Nat
      /\ s[1] \in Waiting(s)
  BY DEF Waiting
<1>5. old[c] = s[1] /\ old[c] \notin done
  BY <1>1, <1>4 DEF StackOK
<1>6. c > Len(list)
  BY <1>2, <1>5
<1>7. ASSUME c # Len(list) + 1 PROVE FALSE
  <2>1. PICK j \in DOMAIN old : j = Len(list) + 1 /\ j < c
    BY <1>2, <1>6, <1>7
  <2>2. old[j] \notin done /\ old[j] # s[1]
    BY <1>2, <1>3, <1>5, <2>1
  <2>3. old[j] \in Waiting(s)
    BY <1>3, <2>2 DEF StackOK
  <2>4. PICK y \in DOMAIN s : s[y] = old[j]
    BY <2>3 DEF Waiting
  <2>5. 1 < y
    BY <1>4, <2>2, <2>4
  <2>6. c < j
    BY <1>1, <1>2, <1>4, <1>5, <2>4, <2>5 DEF StackOK
  <2>7. QED
    BY <1>2, <2>1, <2>6
<1>8. QED
  BY <1>7 DEF IsNext

\* Reading an inode that is no child leaves the children read as they are.
LEMMA StillRead ==
    ASSUME NEW old \in Seq(Ptr), NEW list, NEW done, NEW m,
           ReadChildren(list, old, done, m), NEW q, \A i \in DOMAIN old : old[i] # q,
           NEW m2, Agree(m2, m, done)
    PROVE  ReadChildren(list, old, done \cup {q}, m2)
<1>1. /\ list \in Seq(Ptr) /\ Len(list) <= Len(old)
      /\ Len(list) \in Nat /\ Len(old) \in Nat
      /\ DOMAIN list = 1 .. Len(list) /\ DOMAIN old = 1 .. Len(old)
      /\ \A i \in DOMAIN old : i <= Len(list) <=> old[i] \in done
      /\ \A i \in DOMAIN list : list[i] = m[old[i]]
  BY DEF ReadChildren
<1>2. \A i \in DOMAIN list : i \in DOMAIN old /\ old[i] \in done
  BY <1>1
<1>3. QED
  BY <1>1, <1>2 DEF ReadChildren, Agree

\* The inode itself has no children at first.
LEMMA NoneRead ==
    ASSUME NEW old \in Seq(Ptr), NEW done, \A i \in DOMAIN old : old[i] \notin done,
           NEW m
    PROVE  ReadChildren(<<>>, old, done, m)
<1>1. PICK list \in Seq(Ptr) : list = <<>> /\ Len(list) = 0 /\ DOMAIN list = {}
  <2>1. <<>> \in Seq(Ptr)
    BY EmptySeq
  <2>2. Len(<<>>) = 0 /\ DOMAIN <<>> = {}
    OBVIOUS
  <2>3. QED
    BY <2>1, <2>2
<1>2. Len(old) \in Nat /\ DOMAIN old = 1 .. Len(old)
  OBVIOUS
<1>3. ReadChildren(list, old, done, m)
  BY <1>1, <1>2 DEF ReadChildren
<1>4. QED
  BY <1>1, <1>3

\* Its parent has one more.
LEMMA OneMoreRead ==
    ASSUME NEW old \in Seq(Ptr), Distinct(old),
           NEW list, NEW done, NEW m, ReadChildren(list, old, done, m),
           NEW c \in DOMAIN old, IsNext(c, list), NEW new \in Ptr,
           NEW m2, Agree(m2, m, done), m2[old[c]] = new
    PROVE  ReadChildren(Append(list, new), old, done \cup {old[c]}, m2)
<1>1. /\ list \in Seq(Ptr) /\ Len(list) \in Nat /\ Len(old) \in Nat
      /\ DOMAIN list = 1 .. Len(list) /\ DOMAIN old = 1 .. Len(old)
      /\ \A i \in DOMAIN old : i <= Len(list) <=> old[i] \in done
      /\ \A i \in DOMAIN list : list[i] = m[old[i]]
      /\ c = Len(list) + 1
  BY DEF ReadChildren, IsNext
<1>2. PICK longer : longer = Append(list, new)
  OBVIOUS
<1>3. /\ longer \in Seq(Ptr) /\ Len(longer) = Len(list) + 1
      /\ DOMAIN longer = DOMAIN list \cup {c} /\ longer[c] = new
      /\ \A i \in DOMAIN list : longer[i] = list[i]
  BY <1>1, <1>2, AppendEffect
<1>4. Len(longer) <= Len(old)
  BY <1>1, <1>3
<1>5. \A i \in DOMAIN old : i <= Len(longer) <=> old[i] \in done \cup {old[c]}
  <2> SUFFICES ASSUME NEW i \in DOMAIN old
               PROVE  i <= Len(longer) <=> old[i] \in done \cup {old[c]}
      OBVIOUS
  <2>1. i <= Len(longer) <=> i <= Len(list) \/ i = c
    BY <1>1, <1>3
  <2>2. old[i] = old[c] <=> i = c
    BY DEF Distinct
  <2>3. QED
    BY <1>1, <2>1, <2>2
<1>6. \A i \in DOMAIN longer : longer[i] = m2[old[i]]
  <2>1. \A i \in DOMAIN list : i \in DOMAIN old /\ old[i] \in done
    BY <1>1
  <2>2. QED
    BY <1>1, <1>3, <2>1 DEF Agree
<1>7. QED
  BY <1>2, <1>3, <1>4, <1>5, <1>6 DEF ReadChildren

\* The inode that is read gets an address of its own.
LEMMA OneMorePlace ==
    ASSUME NEW m, NEW done, OneToOne(m, done), NEW q, q \notin done,
           NEW h, NEW g, HeapCopied(h, done, m, g), NEW new \in Ptr \ DOMAIN g,
           NEW m2, m2 = MapWith(m, done, q, new)
    PROVE  OneToOne(m2, done \cup {q}) /\ NewPlace(m, done, q, new, g, m2)
<1>0. DOMAIN g = {m[p] : p \in done}
  BY DEF HeapCopied
<1>1. /\ DOMAIN m2 = done \cup {q} /\ m2[q] = new
      /\ \A p \in done : m2[p] = m[p] /\ m[p] \in DOMAIN g /\ m[p] # new
  BY <1>0 DEF MapWith
<1>2. OneToOne(m2, done \cup {q})
  <2>1. m2 \in [done \cup {q} -> Ptr]
    BY DEF MapWith, OneToOne
  <2>2. \A p, x \in done \cup {q} : m2[p] = m2[x] => p = x
    BY <1>1 DEF OneToOne
  <2>3. QED
    BY <2>1, <2>2 DEF OneToOne
<1>3. {m2[p] : p \in done \cup {q}} = DOMAIN g \cup {new}
  BY <1>0, <1>1
<1>4. QED
  BY <1>1, <1>2, <1>3 DEF NewPlace

\* The root is read, and is in no directory.
LEMMA RootCopied ==
    ASSUME NEW h, NEW r, GoodTree(h, r), NEW done \in SUBSET DOMAIN h,
           NEW s, StackOK(h, r, done, s), r \notin done,
           NEW m, NEW g, OneToOne(m, done), HeapCopied(h, done, m, g),
           NEW new \in Ptr \ DOMAIN g, NEW m2, m2 = MapWith(m, done, r, new),
           NEW fresh \in InodeRecord, fresh.children = <<>>, SameFields(fresh, h[r]),
           NEW g2, g2 = HeapWith(g, new, fresh)
    PROVE  HeapCopied(h, done \cup {r}, m2, g2)
<1>1. r \in DOMAIN h
  BY DEF GoodTree
<1>2. DOMAIN g = {m[p] : p \in done} /\ \A p \in DOMAIN g : g[p] \in InodeRecord
  BY DEF HeapCopied
<1>3. /\ m2[r] = new /\ \A p \in done : m2[p] = m[p] /\ m[p] \in DOMAIN g /\ m[p] # new
      /\ {m2[p] : p \in done \cup {r}} = DOMAIN g \cup {new}
  <2>1. NewPlace(m, done, r, new, g, m2)
    BY OneMorePlace
  <2>2. QED
    BY <2>1 DEF NewPlace
<1>4. /\ g2[new] = fresh /\ \A p \in DOMAIN g : g2[p] = g[p]
      /\ g2 \in [DOMAIN g \cup {new} -> InodeRecord]
  BY <1>2 DEF HeapWith
<1>5. ASSUME NEW q \in done \cup {r}
      PROVE  /\ SameFields(g2[m2[q]], h[q])
             /\ ReadChildren(g2[m2[q]].children, h[q].children, done \cup {r}, m2)
  <2>1. PICK old \in Seq(Ptr) : old = h[q].children
    BY <1>1, GoodRecord
  <2>2. CASE q = r
    <3>1. \A i \in DOMAIN old : old[i] \notin done \cup {r}
      <4>1. Kids(h, r) \cap (done \cup {r}) = {}
        BY <1>1, KidsAreNew
      <4>2. QED
        BY <2>1, <2>2, <4>1 DEF Kids
    <3>2. ReadChildren(<<>>, old, done \cup {r}, m2)
      BY <3>1, NoneRead
    <3>3. QED
      BY <1>3, <1>4, <2>1, <2>2, <3>2
  <2>3. CASE q # r
    <3>1. q \in done /\ g2[m2[q]] = g[m[q]]
      BY <1>3, <1>4, <2>3
    <3>2. \A i \in DOMAIN old : old[i] # r
      BY <2>1, <3>1 DEF GoodTree, TreeLinks
    <3>3. PICK list : list = g[m[q]].children
      OBVIOUS
    <3>4. ReadChildren(list, old, done, m)
      BY <2>1, <3>1, <3>3 DEF HeapCopied
    <3>5. Agree(m2, m, done)
      BY <1>3 DEF Agree
    <3>6. ReadChildren(list, old, done \cup {r}, m2)
      BY <3>2, <3>4, <3>5, StillRead
    <3>7. SameFields(g[m[q]], h[q])
      BY <3>1 DEF HeapCopied
    <3>8. QED
      BY <2>1, <3>1, <3>3, <3>6, <3>7
  <2>4. QED
    BY <2>2, <2>3
<1>6. QED
  BY <1>3, <1>4, <1>5 DEF HeapCopied

\* An inode is read into its directory, behind the children it has.
LEMMA ChildCopied ==
    ASSUME NEW h, NEW r, GoodTree(h, r), NEW done \in SUBSET DOMAIN h,
           NEW s \in Seq(DOMAIN h), StackOK(h, r, done, s), s # <<>>,
           NEW q \in DOMAIN h \ done, q = Head(s), NEW p \in done, q \in Kids(h, p),
           NEW m, NEW g, OneToOne(m, done), HeapCopied(h, done, m, g),
           NEW new \in Ptr \ DOMAIN g, NEW m2, m2 = MapWith(m, done, q, new),
           NEW fresh \in InodeRecord, fresh.children = <<>>, SameFields(fresh, h[q]),
           NEW g2, g2 = [HeapWith(g, new, fresh) EXCEPT ![m[p]].children = Append(@, new)]
    PROVE  HeapCopied(h, done \cup {q}, m2, g2)
<1>1. DOMAIN g = {m[x] : x \in done} /\ \A x \in DOMAIN g : g[x] \in InodeRecord
  BY DEF HeapCopied
<1>2. /\ m2[q] = new /\ \A x \in done : m2[x] = m[x] /\ m[x] \in DOMAIN g /\ m[x] # new
      /\ {m2[x] : x \in done \cup {q}} = DOMAIN g \cup {new}
  <2>1. NewPlace(m, done, q, new, g, m2)
    BY OneMorePlace
  <2>2. QED
    BY <2>1 DEF NewPlace
<1>3. PICK list : list = g[m[p]].children
  OBVIOUS
<1>4. ReadChildren(list, h[p].children, done, m) /\ list \in Seq(Ptr)
  BY <1>3 DEF HeapCopied, ReadChildren
<1>5. PICK longer \in Seq(Ptr) : longer = Append(list, new)
  BY <1>4, AppendEffect
<1>6. /\ DOMAIN g2 = DOMAIN g \cup {new} /\ g2[new] = fresh
      /\ \A x \in DOMAIN g \ {m[p]} : g2[x] = g[x]
      /\ g2[m[p]].children = longer /\ SameFields(g2[m[p]], g[m[p]])
      /\ g2 \in [DOMAIN g \cup {new} -> InodeRecord]
  <2>1. PICK e : e = HeapWith(g, new, fresh)
    OBVIOUS
  <2>2. /\ e \in [DOMAIN g \cup {new} -> InodeRecord] /\ e[new] = fresh
        /\ \A x \in DOMAIN g : e[x] = g[x]
    BY <1>1, <2>1 DEF HeapWith
  <2>3. PICK a \in DOMAIN g : a = m[p] /\ a # new
    BY <1>2
  <2>4. PICK parents : parents = [g[a] EXCEPT !.children = longer]
    OBVIOUS
  <2>5. /\ parents \in InodeRecord /\ parents.children = longer
        /\ SameFields(parents, g[a])
    BY <1>1, <2>4 DEF InodeRecord, SameFields
  <2>6. g2 = [e EXCEPT ![a] = parents]
    BY <1>3, <1>5, <2>1, <2>2, <2>3, <2>4
  <2>7. /\ DOMAIN g2 = DOMAIN g \cup {new} /\ g2[new] = fresh /\ g2[a] = parents
        /\ \A x \in DOMAIN g \ {a} : g2[x] = g[x]
    BY <2>2, <2>3, <2>6
  <2>8. g2 \in [DOMAIN g \cup {new} -> InodeRecord]
    BY <2>2, <2>5, <2>6
  <2>9. QED
    BY <2>3, <2>5, <2>7, <2>8
<1>7. ASSUME NEW x \in done \cup {q}
      PROVE  /\ SameFields(g2[m2[x]], h[x])
             /\ ReadChildren(g2[m2[x]].children, h[x].children, done \cup {q}, m2)
  <2>1. PICK old \in Seq(Ptr) : old = h[x].children
    BY GoodRecord
  <2>2. Agree(m2, m, done)
    BY <1>2 DEF Agree
  <2>3. CASE x = q
    <3>1. \A i \in DOMAIN old : old[i] \notin done \cup {q}
      <4>1. Kids(h, q) \cap (done \cup {q}) = {}
        BY KidsAreNew
      <4>2. QED
        BY <2>1, <2>3, <4>1 DEF Kids
    <3>2. ReadChildren(<<>>, old, done \cup {q}, m2)
      BY <3>1, NoneRead
    <3>3. QED
      BY <1>2, <1>6, <2>1, <2>3, <3>2
  <2>4. CASE x = p
    <3>1. PICK c \in DOMAIN old : old[c] = q
      BY <2>1, <2>4 DEF Kids
    <3>2. ReadChildren(list, old, done, m)
      BY <1>4, <2>1, <2>4
    <3>3. IsNext(c, list)
      <4>1. c \in DOMAIN h[p].children /\ h[p].children[c] = Head(s)
        BY <2>1, <2>4, <3>1
      <4>2. QED
        BY <1>4, <4>1, NextChild
    <3>4. Distinct(old)
      BY <2>1, <2>4 DEF GoodTree, TreeLinks, Distinct
    <3>5. ReadChildren(Append(list, new), old, done \cup {old[c]}, m2)
      <4>1. m2[old[c]] = new
        BY <1>2, <3>1
      <4>2. QED
        BY <2>2, <3>2, <3>3, <3>4, <4>1, OneMoreRead
    <3>6. SameFields(g[m[p]], h[p])
      BY DEF HeapCopied
    <3>7. SameFields(g2[m2[x]], h[x]) /\ g2[m2[x]].children = longer
      BY <1>2, <1>6, <2>4, <3>6 DEF SameFields
    <3>8. QED
      BY <1>5, <2>1, <3>1, <3>5, <3>7
  <2>5. CASE x # q /\ x # p
    <3>1. x \in done /\ m[x] \in DOMAIN g /\ m[x] # m[p]
      BY <1>2, <2>5 DEF OneToOne
    <3>2. g2[m2[x]] = g[m[x]]
      BY <1>2, <1>6, <3>1
    <3>3. \A i \in DOMAIN old : old[i] # q
      BY <2>1, <2>5 DEF GoodTree, TreeLinks, Kids
    <3>4. PICK few : few = g[m[x]].children
      OBVIOUS
    <3>5. ReadChildren(few, old, done, m)
      BY <2>1, <3>1, <3>4 DEF HeapCopied
    <3>6. ReadChildren(few, old, done \cup {q}, m2)
      BY <2>2, <3>3, <3>5, StillRead
    <3>7. SameFields(g[m[x]], h[x])
      BY <3>1 DEF HeapCopied
    <3>8. QED
      BY <2>1, <3>2, <3>4, <3>6, <3>7
  <2>6. QED
    BY <2>3, <2>4, <2>5
<1>8. QED
  BY <1>2, <1>6, <1>7 DEF HeapCopied

\* Where the children of the inode that is read belong is known from then on.
LEMMA PlacesGoOn ==
    ASSUME NEW h, NEW r, GoodTree(h, r), NEW done, NEW s \in Seq(DOMAIN h),
           NEW t, Pops(h, s, t), NEW m, NEW places, PlacesKnown(h, r, done, s, m, places),
           NEW new \in Ptr, NEW m2, Agree(m2, m, done), m2[Head(s)] = new
    PROVE  PlacesKnown(h, r, done \cup {Head(s)}, t, m2, PlacesAfter(h, s, places, new))
<1>1. s # <<>> /\ Head(s) \in DOMAIN h /\ Len(s) \in Nat /\ Len(s) > 0 /\ DOMAIN s = 1 .. Len(s)
  BY DEF Pops
<1>2. PICK a \in Seq(DOMAIN h) : a = h[Head(s)].children
  BY <1>1, GoodRecord
<1>3. PICK n \in Nat : n = Len(a) /\ DOMAIN a = 1 .. n
  OBVIOUS
<1>4. /\ DOMAIN t = 1 .. n + Len(s) - 1 /\ Len(t) = n + Len(s) - 1
      /\ \A i \in 1 .. n + Len(s) - 1 : t[i] = IF i <= n THEN a[i] ELSE s[i - n + 1]
  <2>1. t = a \o Tail(s)
    BY <1>2 DEF Pops
  <2>2. QED
    BY <1>1, <1>3, <2>1, PushEffect
<1>5. /\ places \in Seq(Ptr \cup {NULL}) /\ Len(places) = Len(s) /\ places # <<>>
      /\ DOMAIN places = DOMAIN s
  BY <1>1 DEF PlacesKnown
<1>6. PICK b : b = [i \in 1 .. n |-> new]
  OBVIOUS
<1>7. b \in Seq(Ptr \cup {NULL}) /\ Len(b) = n /\ \A i \in 1 .. n : b[i] = new
  BY <1>6
<1>8. PICK after : after = PlacesAfter(h, s, places, new) /\ after = b \o Tail(places)
  BY <1>2, <1>3, <1>6 DEF PlacesAfter
<1>9. /\ after \in Seq(Ptr \cup {NULL}) /\ Len(after) = n + Len(s) - 1
      /\ DOMAIN after = 1 .. n + Len(s) - 1
      /\ \A i \in 1 .. n + Len(s) - 1 : after[i] = IF i <= n THEN b[i] ELSE places[i - n + 1]
  BY <1>5, <1>7, <1>8, PushEffect
<1>10. ASSUME NEW i \in DOMAIN after
       PROVE  \/ t[i] = r /\ after[i] = NULL
              \/ \E p \in done \cup {Head(s)} : t[i] \in Kids(h, p) /\ after[i] = m2[p]
  <2>1. CASE i <= n
    <3>1. i \in 1 .. n /\ i \in 1 .. n + Len(s) - 1
      BY <1>9, <2>1
    <3>2. t[i] = a[i] /\ after[i] = new
      BY <1>4, <1>7, <1>9, <2>1, <3>1
    <3>3. t[i] \in Kids(h, Head(s))
      BY <1>2, <1>3, <3>1, <3>2 DEF Kids
    <3>4. QED
      BY <3>2, <3>3
  <2>2. CASE ~(i <= n)
    <3>1. PICK j \in DOMAIN s : j = i - n + 1
      BY <1>1, <1>9, <2>2
    <3>2. t[i] = s[j] /\ after[i] = places[j]
      BY <1>4, <1>9, <2>2, <3>1
    <3>3. \/ s[j] = r /\ places[j] = NULL
          \/ \E p \in done : s[j] \in Kids(h, p) /\ places[j] = m[p]
      BY <1>5, <3>1 DEF PlacesKnown
    <3>4. QED
      BY <3>2, <3>3 DEF Agree
  <2>3. QED
    BY <2>1, <2>2
<1>11. PlacesKnown(h, r, done \cup {Head(s)}, t, m2, after)
  BY <1>4, <1>9, <1>10 DEF PlacesKnown
<1>12. QED
  BY <1>8, <1>11

\* One call of create_inode.
LEMMA LoadGoesOn ==
    ASSUME NEW h, NEW r, GoodTree(h, r), NEW done \in SUBSET DOMAIN h,
           NEW s \in Seq(DOMAIN h), StackOK(h, r, done, s), NEW t, Pops(h, s, t),
           NEW m, NEW g, NEW top, NEW places, Copied(h, r, done, s, m, g, top, places),
           NEW new \in Ptr \ DOMAIN g, NEW fresh, FreshFor(fresh, h[Head(s)]),
           NEW g2, NEW top2, Reads(g, top, Head(places), new, fresh, g2, top2)
    PROVE  CopiedFurther(h, r, done, s, t, g2, top2, PlacesAfter(h, s, places, new))
<1>1. s # <<>> /\ Head(s) = s[1] /\ 1 \in DOMAIN s /\ Len(s) \in Nat /\ DOMAIN s = 1 .. Len(s)
  BY DEF Pops
<1>2. /\ OneToOne(m, done) /\ HeapCopied(h, done, m, g)
      /\ PlacesKnown(h, r, done, s, m, places)
      /\ top = IF r \in done THEN m[r] ELSE NULL
  BY DEF Copied
<1>3. Head(s) \in DOMAIN h /\ Head(s) \notin done
  BY StackStep
<1>4. PICK q \in DOMAIN h \ done : q = Head(s)
  BY <1>3
<1>5. PICK m2 : m2 = MapWith(m, done, q, new)
  OBVIOUS
<1>6. OneToOne(m2, done \cup {q})
  BY <1>2, <1>4, <1>5, OneMorePlace
<1>7. Agree(m2, m, done) /\ m2[q] = new
  BY <1>4, <1>5 DEF MapWith, Agree
<1>8. PlacesKnown(h, r, done \cup {Head(s)}, t, m2, PlacesAfter(h, s, places, new))
  <2>1. m2[Head(s)] = new
    BY <1>4, <1>7
  <2>2. QED
    BY <1>2, <1>7, <2>1, PlacesGoOn
<1>9. /\ Head(places) = places[1] /\ 1 \in DOMAIN places
      /\ \/ q = r /\ Head(places) = NULL
         \/ \E p \in done : q \in Kids(h, p) /\ Head(places) = m[p]
  <2>1. places \in Seq(Ptr \cup {NULL}) /\ Len(places) = Len(s)
    BY <1>2 DEF PlacesKnown
  <2>2. Head(places) = places[1] /\ 1 \in DOMAIN places
    BY <1>1, <2>1
  <2>3. QED
    BY <1>1, <1>2, <1>4, <2>2 DEF PlacesKnown
<1>10. fresh \in InodeRecord /\ fresh.children = <<>> /\ SameFields(fresh, h[q])
  BY <1>4 DEF FreshFor
<1>11. HeapCopied(h, done \cup {q}, m2, g2) /\ top2 = IF r \in done \cup {q} THEN m2[r] ELSE NULL
  <2>1. CASE q = r /\ Head(places) = NULL
    <3>1. top2 = new /\ g2 = HeapWith(g, new, fresh)
      BY <2>1 DEF Reads
    <3>2. r \notin done /\ m2 = MapWith(m, done, r, new) /\ SameFields(fresh, h[r])
      BY <1>4, <1>5, <1>10, <2>1
    <3>3. HeapCopied(h, done \cup {r}, m2, g2)
      BY <1>2, <1>10, <3>1, <3>2, RootCopied
    <3>4. QED
      BY <1>7, <2>1, <3>1, <3>3
  <2>2. ASSUME NEW p \in done, q \in Kids(h, p), Head(places) = m[p]
        PROVE  HeapCopied(h, done \cup {q}, m2, g2)
               /\ top2 = IF r \in done \cup {q} THEN m2[r] ELSE NULL
    <3>1. m[p] # NULL /\ q # r
      BY <1>2, <2>2, GoodRecord, InodeAssumption DEF OneToOne
    <3>2. /\ top2 = top
          /\ g2 = [HeapWith(g, new, fresh) EXCEPT ![m[p]].children = Append(@, new)]
      BY <2>2, <3>1 DEF Reads
    <3>3. HeapCopied(h, done \cup {q}, m2, g2)
      BY <1>1, <1>2, <1>4, <1>5, <1>10, <2>2, <3>2, ChildCopied
    <3>4. top2 = IF r \in done \cup {q} THEN m2[r] ELSE NULL
      BY <1>2, <1>7, <3>1, <3>2 DEF Agree
    <3>5. QED
      BY <3>3, <3>4
  <2>3. QED
    BY <1>9, <2>1, <2>2
<1>12. Copied(h, r, done \cup {Head(s)}, t, m2, g2, top2, PlacesAfter(h, s, places, new))
  BY <1>4, <1>6, <1>8, <1>11 DEF Copied
<1>13. QED
  BY <1>12 DEF CopiedFurther

\* What a walk is like behind k records.
LEMMA WalkAt ==
    ASSUME NEW h, NEW r, NEW n \in Nat, NEW T, Walk(h, r, T, n), NEW k \in 0 .. n
    PROVE  /\ T[k] \in Seq(DOMAIN h) /\ Visited(T, k) \in SUBSET DOMAIN h
           /\ StackOK(h, r, Visited(T, k), T[k])
<1>1. T[k] \in Seq(DOMAIN h) /\ StackOK(h, r, Visited(T, k), T[k])
  BY DEF Walk
<1>2. ASSUME NEW j \in 0 .. k - 1 PROVE Head(T[j]) \in DOMAIN h
  <2>1. j \in 0 .. n /\ j \in 0 .. n - 1
    OBVIOUS
  <2>2. T[j] \in Seq(DOMAIN h) /\ T[j] # <<>>
    BY <2>1 DEF Walk
  <2>3. QED
    BY <2>2
<1>3. QED
  BY <1>1, <1>2 DEF Visited

\* What comes next in a walk.
LEMMA WalkNext ==
    ASSUME NEW h, NEW r, NEW n \in Nat, NEW T, Walk(h, r, T, n), NEW k \in 0 .. n - 1,
           NEW l, l = k + 1
    PROVE  Pops(h, T[k], T[l]) /\ Visited(T, l) = Visited(T, k) \cup {Head(T[k])}
<1>1. Pops(h, T[k], T[l])
  BY DEF Walk, Pops
<1>2. 0 .. l - 1 = (0 .. k - 1) \cup {k}
  OBVIOUS
<1>3. QED
  BY <1>1, <1>2 DEF Visited

\* fopen, and nothing has been read.
LEMMA LoadOpenInv ==
    ASSUME DiskInv, LoadOpen
    PROVE  DiskInv'
<1>1. /\ phase = "down" /\ mft # <<>> /\ phase' = "loading" /\ stream' = mft /\ todo' = <<NULL>>
      /\ UNCHANGED <<bat, inode, root, num_inode_ids, pc, parent, node, child, freed, suspect>>
      /\ UNCHANGED <<mft, unsaved, saved, dirty, killed>>
  BY DEF LoadOpen, memory, disk
<1>2. AtRest /\ inode = NoInodes /\ DOMAIN inode = {} /\ root = NULL /\ num_inode_ids = 0
  BY <1>1 DEF DiskInv, DownInv, NoInodes
<1>3. AtRest'
  BY <1>1, <1>2 DEF AtRest
<1>4. PICK h, r, file : h = saved.inode /\ r = saved.root /\ file = mft
  OBVIOUS
<1>5. PICK T : Complete(h, r, T, file)
  BY <1>1, <1>4 DEF DiskInv, SavedInv
<1>6. file \in Seq(FileRecord) /\ Len(file) \in Nat /\ T[0] = <<r>>
  BY <1>5 DEF Complete, Written, Walk
<1>7. PICK g : g = inode /\ DOMAIN g = {}
  BY <1>2
<1>8. PICK m : m = [q \in {} |-> NULL]
  OBVIOUS
<1>9. PICK k \in 0 .. Len(file) : k = 0
  BY <1>6
<1>10. Visited(T, k) = {}
  BY <1>9 DEF Visited
<1>11. Copied(h, r, {}, <<r>>, m, inode, NULL, <<NULL>>)
  <2>1. OneToOne(m, {})
    BY <1>8 DEF OneToOne
  <2>2. HeapCopied(h, {}, m, inode)
    BY <1>2 DEF HeapCopied, NoInodes
  <2>3. PlacesKnown(h, r, {}, <<r>>, m, <<NULL>>)
    BY DEF PlacesKnown
  <2>4. QED
    BY <2>1, <2>2, <2>3 DEF Copied
<1>12. LoadInv'
  <2>1. Copied(h, r, Visited(T, k), T[k], m, inode', root', todo')
    BY <1>1, <1>2, <1>6, <1>9, <1>10, <1>11
  <2>2. stream' = SubSeq(file, k + 1, Len(file))
    BY <1>1, <1>4, <1>6, <1>9, SubSeqFull
  <2>3. num_inode_ids' = k
    BY <1>1, <1>2, <1>9
  <2>4. saved'.inode = h /\ saved'.root = r /\ mft' = file
    BY <1>1, <1>4
  <2>5. QED
    BY <1>3, <1>5, <2>1, <2>2, <2>3, <2>4 DEF LoadInv
<1>13. SavedInv' /\ DiskAgrees'
  BY <1>1, SameFiles DEF DiskInv
<1>14. DownInv' /\ RunInv' /\ SaveInv' /\ HistoryInv' /\ LoadRestoresTree'
  BY <1>1 DEF DiskInv, DownInv, RunInv, SaveInv, HistoryInv, LoadRestoresTree
<1>15. /\ phase' \in {"down", "formatting", "running", "saving", "loading"}
      /\ bat' \in Table \cup {EmptyFile} /\ unsaved' \subseteq Blocks /\ killed' \in BOOLEAN /\ dirty' \in BOOLEAN
  BY <1>1 DEF DiskInv
<1>16. QED
  BY <1>12, <1>13, <1>14, <1>15 DEF DiskInv

\* What create_inode makes of a record.
LEMMA LoadedIsFresh ==
    ASSUME NEW x \in InodeRecord
    PROVE  FreshFor(Loaded(RecordOf(x)), x)
BY DEF FreshFor, Loaded, RecordOf, SameFields, InodeRecord

\* One call of create_inode.
LEMMA LoadInodeInv ==
    ASSUME DiskInv, LoadInode
    PROVE  DiskInv'
<1>1. /\ phase = "loading" /\ todo # <<>>
      /\ num_inode_ids' = num_inode_ids + 1 /\ stream' = Tail(stream)
      /\ UNCHANGED <<bat, suspect, pc, parent, node, child, freed>>
      /\ UNCHANGED <<mft, unsaved, saved, phase, dirty, killed>>
  BY DEF LoadInode, disk
<1>2. PICK new \in Ptr \ DOMAIN inode :
          /\ IF Head(todo) = NULL
             THEN root' = new /\ inode' = With(new, Loaded(Head(stream)))
             ELSE root' = root /\ AddInodeToParent(Head(todo), new, Loaded(Head(stream)))
          /\ todo' = [i \in 1 .. Head(stream).num_children |-> new] \o Tail(todo)
  BY DEF LoadInode
<1>3. AtRest /\ AtRest'
  BY <1>1 DEF DiskInv, LoadInv, AtRest
<1>4. PICK h, r, file : h = saved.inode /\ r = saved.root /\ file = mft
  OBVIOUS
<1>5. PICK g, top, places, rest : g = inode /\ top = root /\ places = todo /\ rest = stream
  OBVIOUS
<1>6. PICK T, m : \E k \in 0 .. Len(file) :
          /\ Complete(h, r, T, file)
          /\ Copied(h, r, Visited(T, k), T[k], m, g, top, places)
          /\ num_inode_ids = k
          /\ rest = SubSeq(file, k + 1, Len(file))
  BY <1>1, <1>4, <1>5 DEF DiskInv, LoadInv
<1>7. PICK k \in 0 .. Len(file) :
          /\ Complete(h, r, T, file)
          /\ Copied(h, r, Visited(T, k), T[k], m, g, top, places)
          /\ num_inode_ids = k
          /\ rest = SubSeq(file, k + 1, Len(file))
  BY <1>6
<1>8. PICK n \in Nat : n = Len(file) /\ DOMAIN file = 1 .. n
  BY <1>7 DEF Complete, Written
<1>9. /\ GoodTree(h, r) /\ file \in Seq(FileRecord) /\ Walk(h, r, T, n) /\ T[n] = <<>>
      /\ \A i \in 1 .. n : file[i] = RecordOf(h[Head(T[i - 1])])
  BY <1>7, <1>8 DEF Complete, Written
<1>10. k \in 0 .. n /\ k \in Nat
  BY <1>7, <1>8
<1>11. PICK s, done : s = T[k] /\ done = Visited(T, k)
  OBVIOUS
<1>12. s \in Seq(DOMAIN h) /\ done \in SUBSET DOMAIN h /\ StackOK(h, r, done, s)
  BY <1>9, <1>10, <1>11, WalkAt
<1>13. Copied(h, r, done, s, m, g, top, places)
  BY <1>7, <1>11
<1>14. s # <<>>
  <2>1. places # <<>> /\ places \in Seq(Ptr \cup {NULL}) /\ Len(places) = Len(s)
    BY <1>1, <1>5, <1>13 DEF Copied, PlacesKnown
  <2>2. QED
    BY <1>12, <2>1
<1>15. k \in 0 .. n - 1
  BY <1>9, <1>10, <1>11, <1>14
<1>16. PICK l \in 0 .. n : l = k + 1
  BY <1>15
<1>17. PICK t : t = T[l]
  OBVIOUS
<1>18. Pops(h, s, t) /\ Visited(T, l) = done \cup {Head(s)}
  BY <1>9, <1>11, <1>15, <1>16, <1>17, WalkNext
<1>19. PICK x \in InodeRecord : x = h[Head(s)]
  <2>1. Head(s) \in DOMAIN h
    BY <1>12, <1>14
  <2>2. QED
    BY <1>9, <2>1, GoodRecord
<1>20. Head(rest) = RecordOf(x) /\ Tail(rest) = SubSeq(file, l + 1, Len(file))
  <2>1. Head(rest) = file[l] /\ Tail(rest) = SubSeq(file, l + 1, Len(file))
    <3>1. l \in 1 .. Len(file) /\ Len(file) \in l .. Len(file)
      BY <1>8, <1>15, <1>16
    <3>2. rest = SubSeq(file, l, Len(file))
      BY <1>7, <1>16
    <3>3. file \in Seq(FileRecord)
      BY <1>9
    <3>4. QED
      BY <3>1, <3>2, <3>3, HeadTailOfSubSeq
  <2>2. l \in 1 .. n /\ l - 1 = k
    BY <1>15, <1>16
  <2>3. file[l] = RecordOf(x)
    BY <1>9, <1>11, <1>19, <2>2
  <2>4. QED
    BY <2>1, <2>3
<1>21. PICK fresh : fresh = Loaded(RecordOf(x))
  OBVIOUS
<1>22. FreshFor(fresh, h[Head(s)])
  BY <1>19, <1>21, LoadedIsFresh
<1>23. PICK g2, top2, places2 : g2 = inode' /\ top2 = root' /\ places2 = todo'
  OBVIOUS
<1>24. Reads(g, top, Head(places), new, fresh, g2, top2)
  <2>1. Loaded(Head(stream)) = fresh
    BY <1>5, <1>20, <1>21
  <2>2. With(new, fresh) = HeapWith(g, new, fresh)
    BY <1>5 DEF With, HeapWith
  <2>3. CASE Head(places) = NULL
    BY <1>2, <1>5, <1>23, <2>1, <2>2, <2>3 DEF Reads
  <2>4. CASE Head(places) # NULL
    BY <1>2, <1>5, <1>23, <2>1, <2>2, <2>4 DEF Reads, AddInodeToParent
  <2>5. QED
    BY <2>3, <2>4
<1>25. places2 = PlacesAfter(h, s, places, new)
  <2>1. Head(stream).num_children = Len(h[Head(s)].children)
    BY <1>5, <1>19, <1>20 DEF RecordOf
  <2>2. PICK c : c = Len(h[Head(s)].children)
    OBVIOUS
  <2>3. places2 = [i \in 1 .. c |-> new] \o Tail(places)
    BY <1>2, <1>5, <1>23, <2>1, <2>2
  <2>4. QED
    BY <2>2, <2>3 DEF PlacesAfter
<1>26. CopiedFurther(h, r, done, s, t, g2, top2, places2)
  <2>1. new \in Ptr \ DOMAIN g
    BY <1>5
  <2>2. QED
    BY <1>9, <1>12, <1>13, <1>18, <1>22, <1>24, <1>25, <2>1, LoadGoesOn
<1>27. PICK m2 : Copied(h, r, Visited(T, l), T[l], m2, g2, top2, places2)
  BY <1>17, <1>18, <1>26 DEF CopiedFurther
<1>28. LoadInv'
  <2>1. saved'.inode = h /\ saved'.root = r /\ mft' = file
    BY <1>1, <1>4
  <2>2. num_inode_ids' = l /\ stream' = SubSeq(file, l + 1, Len(file)) /\ l \in 0 .. Len(file)
    BY <1>1, <1>5, <1>7, <1>8, <1>16, <1>20
  <2>3. Copied(h, r, Visited(T, l), T[l], m2, inode', root', todo')
    BY <1>23, <1>27
  <2>4. Complete(h, r, T, file)
    BY <1>7
  <2>5. QED
    BY <1>3, <2>1, <2>2, <2>3, <2>4 DEF LoadInv
<1>29. SavedInv' /\ DiskAgrees'
  BY <1>1, SameFiles DEF DiskInv
<1>30. DownInv' /\ RunInv' /\ SaveInv' /\ HistoryInv' /\ LoadRestoresTree'
  BY <1>1 DEF DiskInv, DownInv, RunInv, SaveInv, HistoryInv, LoadRestoresTree
<1>31. /\ phase' \in {"down", "formatting", "running", "saving", "loading"}
      /\ bat' \in Table \cup {EmptyFile} /\ unsaved' \subseteq Blocks /\ killed' \in BOOLEAN /\ dirty' \in BOOLEAN
  BY <1>1 DEF DiskInv
<1>32. QED
  BY <1>28, <1>29, <1>30, <1>31 DEF DiskInv

\* A directory whose children have all been read has all of them.
LEMMA AllRead ==
    ASSUME NEW old \in Seq(Ptr), NEW done, \A i \in DOMAIN old : old[i] \in done,
           NEW list, NEW m, ReadChildren(list, old, done, m)
    PROVE  Len(list) = Len(old)
<1>1. /\ list \in Seq(Ptr) /\ Len(list) \in Nat /\ Len(old) \in Nat
      /\ DOMAIN list = 1 .. Len(list) /\ DOMAIN old = 1 .. Len(old) /\ Len(list) <= Len(old)
      /\ \A i \in DOMAIN old : i <= Len(list)
      /\ \A i \in DOMAIN list : list[i] = m[old[i]]
  BY DEF ReadChildren
<1>2. Len(list) = Len(old)
  <2>1. PICK n \in Nat, k \in Nat : n = Len(old) /\ k = Len(list)
    BY <1>1
  <2>2. k <= n /\ \A i \in 1 .. n : i <= k
    BY <1>1, <2>1
  <2>3. k = n
    BY <2>2
  <2>4. QED
    BY <2>1, <2>3
<1>3. QED
  BY <1>2

\* What the children of the inodes are when all have been read.
LEMMA AllCopied ==
    ASSUME NEW h, NEW r, GoodTree(h, r), NEW m, NEW g, HeapCopied(h, DOMAIN h, m, g),
           NEW p \in DOMAIN h
    PROVE  /\ SameFields(g[m[p]], h[p])
           /\ DOMAIN g[m[p]].children = DOMAIN h[p].children
           /\ g[m[p]].children = [i \in DOMAIN h[p].children |-> m[h[p].children[i]]]
           /\ Kids(g, m[p]) = {m[q] : q \in Kids(h, p)}
<1>1. PICK old : old = h[p].children
  OBVIOUS
<1>2. PICK list : list = g[m[p]].children
  OBVIOUS
<1>3. old \in Seq(Ptr) /\ \A i \in DOMAIN old : old[i] \in DOMAIN h
  BY <1>1, GoodRecord DEF GoodTree, TreeLinks
<1>4. ReadChildren(list, old, DOMAIN h, m) /\ SameFields(g[m[p]], h[p])
  BY <1>1, <1>2 DEF HeapCopied
<1>5. DOMAIN list = DOMAIN old /\ list = [i \in DOMAIN old |-> m[old[i]]]
  <2>1. Len(list) = Len(old)
    BY <1>3, <1>4, AllRead
  <2>2. /\ list \in Seq(Ptr) /\ DOMAIN list = 1 .. Len(list) /\ DOMAIN old = 1 .. Len(old)
        /\ \A i \in DOMAIN list : list[i] = m[old[i]]
    BY <1>3, <1>4 DEF ReadChildren
  <2>3. list = [i \in DOMAIN list |-> list[i]]
    BY <2>2
  <2>4. QED
    BY <2>1, <2>2, <2>3
<1>6. Kids(g, m[p]) = {m[q] : q \in Kids(h, p)}
  <2>1. Kids(g, m[p]) = {list[i] : i \in DOMAIN list} /\ Kids(h, p) = {old[i] : i \in DOMAIN old}
    BY <1>1, <1>2 DEF Kids
  <2>2. {list[i] : i \in DOMAIN list} = {m[q] : q \in {old[i] : i \in DOMAIN old}}
    BY <1>5
  <2>3. QED
    BY <2>1, <2>2
<1>7. QED
  BY <1>1, <1>2, <1>4, <1>5, <1>6

\* The copy of a tree is a tree.
LEMMA CopyIsTree ==
    ASSUME NEW h, NEW r, GoodTree(h, r), NEW m, OneToOne(m, DOMAIN h),
           NEW g, HeapCopied(h, DOMAIN h, m, g)
    PROVE  GoodTree(g, m[r])
<1>1. /\ r \in DOMAIN h /\ TreeLinks(h, r) /\ TreeNames(h) /\ TreeReach(h, r)
      /\ \A p \in DOMAIN h : Kids(h, p) \subseteq DOMAIN h
  BY GoodRecord DEF GoodTree
<1>2. /\ DOMAIN g = {m[p] : p \in DOMAIN h} /\ \A x \in DOMAIN g : g[x] \in InodeRecord
      /\ \A x \in DOMAIN g : \E p \in DOMAIN h : x = m[p]
  BY DEF HeapCopied
<1>3. /\ \A p \in DOMAIN h : m[p] \in Ptr
      /\ \A p, q \in DOMAIN h : m[p] = m[q] => p = q
  BY DEF OneToOne
<1>4. \A p \in DOMAIN h :
          /\ DOMAIN g[m[p]].children = DOMAIN h[p].children
          /\ \A i \in DOMAIN h[p].children : g[m[p]].children[i] = m[h[p].children[i]]
          /\ Kids(g, m[p]) = {m[q] : q \in Kids(h, p)}
          /\ g[m[p]].name = h[p].name /\ g[m[p]].is_directory = h[p].is_directory
  <2> SUFFICES ASSUME NEW p \in DOMAIN h
               PROVE  /\ DOMAIN g[m[p]].children = DOMAIN h[p].children
                      /\ \A i \in DOMAIN h[p].children : g[m[p]].children[i] = m[h[p].children[i]]
                      /\ Kids(g, m[p]) = {m[q] : q \in Kids(h, p)}
                      /\ g[m[p]].name = h[p].name /\ g[m[p]].is_directory = h[p].is_directory
      OBVIOUS
  <2>1. /\ SameFields(g[m[p]], h[p])
        /\ DOMAIN g[m[p]].children = DOMAIN h[p].children
        /\ g[m[p]].children = [i \in DOMAIN h[p].children |-> m[h[p].children[i]]]
        /\ Kids(g, m[p]) = {m[q] : q \in Kids(h, p)}
    BY AllCopied
  <2>2. \A i \in DOMAIN h[p].children : g[m[p]].children[i] = m[h[p].children[i]]
    BY <2>1
  <2>3. QED
    BY <2>1, <2>2 DEF SameFields
<1>5. TreeLinks(g, m[r])
  <2>1. ASSUME NEW x \in DOMAIN g, NEW i \in DOMAIN g[x].children
        PROVE  g[x].is_directory /\ g[x].children[i] \in DOMAIN g \ {m[r], x}
    <3>1. PICK p \in DOMAIN h : x = m[p]
      BY <1>2
    <3>2. i \in DOMAIN h[p].children /\ g[x].children[i] = m[h[p].children[i]]
      BY <1>4, <2>1, <3>1
    <3>3. h[p].is_directory /\ h[p].children[i] \in DOMAIN h \ {r, p}
      BY <1>1, <3>2 DEF TreeLinks
    <3>4. QED
      BY <1>1, <1>2, <1>3, <1>4, <3>1, <3>2, <3>3
  <2>2. ASSUME NEW x \in DOMAIN g, NEW y \in DOMAIN g,
               NEW i \in DOMAIN g[x].children, NEW j \in DOMAIN g[y].children,
               g[x].children[i] = g[y].children[j]
        PROVE  x = y /\ i = j
    <3>1. PICK p \in DOMAIN h : x = m[p]
      BY <1>2
    <3>2. PICK q \in DOMAIN h : y = m[q]
      BY <1>2
    <3>3. /\ i \in DOMAIN h[p].children /\ g[x].children[i] = m[h[p].children[i]]
          /\ j \in DOMAIN h[q].children /\ g[y].children[j] = m[h[q].children[j]]
      BY <1>4, <2>2, <3>1, <3>2
    <3>4. h[p].children[i] \in DOMAIN h /\ h[q].children[j] \in DOMAIN h
      BY <1>1, <3>3 DEF TreeLinks
    <3>5. h[p].children[i] = h[q].children[j]
      BY <1>3, <2>2, <3>3, <3>4
    <3>6. QED
      BY <1>1, <3>1, <3>2, <3>3, <3>5 DEF TreeLinks
  <2>3. QED
    BY <2>1, <2>2 DEF TreeLinks
<1>6. TreeNames(g)
  <2> SUFFICES ASSUME NEW x \in DOMAIN g, NEW y \in Kids(g, x)
               PROVE  /\ g[y].name # g[x].name
                      /\ \A z \in Kids(g, x) : g[z].name = g[y].name => z = y
      BY DEF TreeNames
  <2>1. PICK p \in DOMAIN h : x = m[p]
    BY <1>2
  <2>2. PICK q \in Kids(h, p) : y = m[q]
    BY <1>4, <2>1
  <2>3. q \in DOMAIN h /\ g[y].name = h[q].name /\ g[x].name = h[p].name
    BY <1>1, <1>4, <2>1, <2>2
  <2>4. h[q].name # h[p].name /\ \A s \in Kids(h, p) : h[s].name = h[q].name => s = q
    BY <1>1 DEF TreeNames
  <2>5. ASSUME NEW z \in Kids(g, x), g[z].name = g[y].name PROVE z = y
    <3>1. PICK s \in Kids(h, p) : z = m[s]
      BY <1>4, <2>1
    <3>2. s \in DOMAIN h /\ g[z].name = h[s].name
      BY <1>1, <1>4, <3>1
    <3>3. QED
      BY <2>2, <2>3, <2>4, <2>5, <3>1, <3>2
  <2>6. QED
    BY <2>3, <2>4, <2>5
<1>7. TreeReach(g, m[r])
  <2> SUFFICES ASSUME NEW S \in SUBSET DOMAIN g, m[r] \in S,
                      \A x \in S : Kids(g, x) \subseteq S
               PROVE  S = DOMAIN g
      BY DEF TreeReach
  <2>1. PICK R : R = {p \in DOMAIN h : m[p] \in S}
    OBVIOUS
  <2>2. R \in SUBSET DOMAIN h /\ r \in R
    BY <1>1, <2>1
  <2>3. ASSUME NEW p \in R, NEW q \in Kids(h, p) PROVE q \in R
    <3>1. p \in DOMAIN h /\ q \in DOMAIN h /\ m[p] \in S
      BY <1>1, <2>1
    <3>2. m[q] \in Kids(g, m[p])
      BY <1>4, <3>1
    <3>3. QED
      BY <2>1, <3>1, <3>2
  <2>4. R = DOMAIN h
    BY <1>1, <2>2, <2>3 DEF TreeReach
  <2>5. QED
    BY <1>2, <2>1, <2>4
<1>8. QED
  BY <1>1, <1>2, <1>3, <1>5, <1>6, <1>7 DEF GoodTree

\* It has as many inodes as the tree.
LEMMA CopyIsCounted ==
    ASSUME NEW h, NEW m, OneToOne(m, DOMAIN h), NEW g, HeapCopied(h, DOMAIN h, m, g),
           IsFiniteSet(DOMAIN h)
    PROVE  /\ m \in Bijections(DOMAIN h, DOMAIN g)
           /\ IsFiniteSet(DOMAIN g) /\ Cardinality(DOMAIN g) = Cardinality(DOMAIN h)
<1>1. DOMAIN g = {m[p] : p \in DOMAIN h}
  BY DEF HeapCopied
<1>2. m \in [DOMAIN h -> DOMAIN g] /\ \A p, q \in DOMAIN h : m[p] = m[q] => p = q
  BY <1>1 DEF OneToOne
<1>3. m \in Bijections(DOMAIN h, DOMAIN g)
  BY <1>1, <1>2 DEF Bijections
<1>4. m \in Bijection(DOMAIN h, DOMAIN g)
  BY <1>1, <1>2 DEF Bijection, Injection, Surjection, IsInjective
<1>5. QED
  BY <1>3, <1>4, FS_Bijection DEF ExistsBijection

\* And as many as the file has records.
LEMMA RecordsCounted ==
    ASSUME NEW h, NEW file, Len(file) \in Nat, DOMAIN file = 1 .. Len(file),
           NEW w, Places(h, file, w)
    PROVE  Cardinality(DOMAIN h) = Len(file)
<1>1. /\ w \in [1 .. Len(file) -> DOMAIN h]
      /\ \A k, l \in 1 .. Len(file) : w[k] = w[l] => k = l
      /\ \A p \in DOMAIN h : \E k \in 1 .. Len(file) : w[k] = p
  BY DEF Places
<1>2. w \in Bijection(1 .. Len(file), DOMAIN h)
  BY <1>1 DEF Bijection, Injection, Surjection, IsInjective
<1>3. QED
  BY <1>2, FS_CountingElements DEF ExistsBijection

\* The records are those of the copy as well.
LEMMA CopyHasPlaces ==
    ASSUME NEW h, NEW m, OneToOne(m, DOMAIN h), NEW g, HeapCopied(h, DOMAIN h, m, g),
           NEW file, NEW w, Places(h, file, w)
    PROVE  \E v : Places(g, file, v)
<1>1. PICK v : v = [k \in DOMAIN file |-> m[w[k]]]
  OBVIOUS
<1>2. DOMAIN g = {m[p] : p \in DOMAIN h}
  BY DEF HeapCopied
<1>3. \A p, q \in DOMAIN h : m[p] = m[q] => p = q
  BY DEF OneToOne
<1>4. /\ \A k \in DOMAIN file : w[k] \in DOMAIN h /\ file[k].blocks = h[w[k]].blocks
      /\ \A k, l \in DOMAIN file : w[k] = w[l] => k = l
      /\ \A p \in DOMAIN h : \E k \in DOMAIN file : w[k] = p
  BY DEF Places
<1>5. v \in [DOMAIN file -> DOMAIN g]
  BY <1>1, <1>2, <1>4
<1>6. \A k, l \in DOMAIN file : v[k] = v[l] => k = l
  BY <1>1, <1>3, <1>4
<1>7. \A x \in DOMAIN g : \E k \in DOMAIN file : v[k] = x
  BY <1>1, <1>2, <1>4
<1>8. \A p \in DOMAIN h : g[m[p]].blocks = h[p].blocks
  BY DEF HeapCopied, SameFields
<1>9. \A k \in DOMAIN file : file[k].blocks = g[v[k]].blocks
  BY <1>1, <1>4, <1>8
<1>10. Places(g, file, v)
  BY <1>5, <1>6, <1>7, <1>9 DEF Places
<1>11. QED
  BY <1>10

\* What is read from a file that agrees with the table agrees with it.
LEMMA ReadAgrees ==
    ASSUME NEW file, NEW v, Places(inode', file, v), pc' = "idle",
           \A p \in DOMAIN inode' : \A i \in DOMAIN inode'[p].blocks :
              inode'[p].blocks[i] \in Blocks,
           \A b \in Blocks \ suspect' :
              IF bat'[b] = 1 THEN OneEntry(file, b) ELSE NoEntry(file, b)
    PROVE  BatMatchesTree'
<1>1. PICK h, S, table : h = inode' /\ S = suspect' /\ table = bat'
  OBVIOUS
<1>2. \A p : Unfreed(p)' = DOMAIN h[p].blocks
  BY <1>1 DEF Unfreed
<1>3. /\ \A b \in Blocks \ S : IF table[b] = 1 THEN OneEntry(file, b) ELSE NoEntry(file, b)
      /\ Places(h, file, v)
      /\ \A p \in DOMAIN h : \A i \in DOMAIN h[p].blocks : h[p].blocks[i] \in Blocks
  BY <1>1
<1>4. \A p \in DOMAIN h : \E k \in DOMAIN file : v[k] = p /\ file[k].blocks = h[p].blocks
  BY <1>3 DEF Places
<1>5. ASSUME NEW p \in DOMAIN h, NEW i \in DOMAIN h[p].blocks
      PROVE  h[p].blocks[i] \in S \/ table[h[p].blocks[i]] = 1
  <2> SUFFICES ASSUME h[p].blocks[i] \notin S, table[h[p].blocks[i]] # 1 PROVE FALSE
      OBVIOUS
  <2>1. PICK b : b = h[p].blocks[i]
    OBVIOUS
  <2>2. NoEntry(file, b)
    BY <1>3, <2>1
  <2>3. PICK k \in DOMAIN file : file[k].blocks = h[p].blocks
    BY <1>4
  <2>4. QED
    BY <2>1, <2>2, <2>3 DEF NoEntry
<1>6. ASSUME NEW p \in DOMAIN h, NEW q \in DOMAIN h,
             NEW i \in DOMAIN h[p].blocks, NEW j \in DOMAIN h[q].blocks,
             h[p].blocks[i] = h[q].blocks[j]
      PROVE  h[p].blocks[i] \in S \/ (p = q /\ i = j)
  <2> SUFFICES ASSUME h[p].blocks[i] \notin S PROVE p = q /\ i = j
      OBVIOUS
  <2>1. PICK b : b = h[p].blocks[i]
    OBVIOUS
  <2>2. b \in Blocks \ S /\ h[q].blocks[j] = b /\ table[b] = 1
    BY <1>3, <1>5, <1>6, <2>1
  <2>3. OneEntry(file, b)
    BY <1>3, <2>2
  <2>4. PICK k \in DOMAIN file : v[k] = p /\ file[k].blocks = h[p].blocks
    BY <1>4
  <2>5. PICK l \in DOMAIN file : v[l] = q /\ file[l].blocks = h[q].blocks
    BY <1>4
  <2>6. i \in DOMAIN file[k].blocks /\ file[k].blocks[i] = b
    BY <2>1, <2>4
  <2>7. j \in DOMAIN file[l].blocks /\ file[l].blocks[j] = b
    BY <2>2, <2>5
  <2>8. k = l /\ i = j
    BY <2>3, <2>6, <2>7 DEF OneEntry
  <2>9. QED
    BY <2>4, <2>5, <2>8
<1>7. ASSUME NEW b \in Blocks \ S, table[b] = 1
      PROVE  \E p \in DOMAIN h : \E i \in DOMAIN h[p].blocks : h[p].blocks[i] = b
  <2>1. OneEntry(file, b)
    BY <1>3, <1>7
  <2>2. PICK k \in DOMAIN file : \E i \in DOMAIN file[k].blocks : file[k].blocks[i] = b
    BY <2>1 DEF OneEntry
  <2>3. v[k] \in DOMAIN h /\ file[k].blocks = h[v[k]].blocks
    BY <1>3 DEF Places
  <2>4. QED
    BY <2>2, <2>3
<1>8. HeldBlocksAreMarked'
  BY <1>1, <1>2, <1>5 DEF HeldBlocksAreMarked
<1>9. NoBlockHeldTwice'
  BY <1>1, <1>2, <1>6 DEF NoBlockHeldTwice
<1>10. MarkedBlocksAreHeld'
  BY <1>1, <1>2, <1>7 DEF MarkedBlocksAreHeld
<1>11. QED
  BY <1>8, <1>9, <1>10 DEF BatMatchesTree

\* All records have been read when no place is left to fill.
LEMMA LoadEnds ==
    ASSUME NEW h, NEW r, NEW T, NEW file, Complete(h, r, T, file),
           NEW k \in 0 .. Len(file), NEW m, NEW g, NEW top,
           Copied(h, r, Visited(T, k), T[k], m, g, top, <<>>)
    PROVE  ReadAll(h, r, file, k, m, g, top)
<1>1. PICK n \in Nat : n = Len(file)
  BY DEF Complete, Written
<1>2. GoodTree(h, r) /\ Walk(h, r, T, n) /\ T[n] = <<>>
  BY <1>1 DEF Complete, Written
<1>3. /\ OneToOne(m, Visited(T, k)) /\ HeapCopied(h, Visited(T, k), m, g)
      /\ Len(<<>>) = Len(T[k]) /\ top = IF r \in Visited(T, k) THEN m[r] ELSE NULL
  BY DEF Copied, PlacesKnown
<1>4. k \in 0 .. n /\ k \in Nat
  BY <1>1
<1>5. T[k] \in Seq(DOMAIN h)
  BY <1>2, <1>4, WalkAt
<1>6. T[k] = <<>>
  BY <1>3, <1>5, EmptySeq
<1>7. k = n
  <2> SUFFICES ASSUME k # n PROVE FALSE
      OBVIOUS
  <2>1. k \in 0 .. n - 1
    BY <1>4
  <2>2. T[k] # <<>>
    BY <1>2, <2>1 DEF Walk
  <2>3. QED
    BY <1>6, <2>2
<1>8. Visited(T, k) = DOMAIN h
  BY <1>2, <1>7, WalkEnds
<1>9. QED
  BY <1>1, <1>2, <1>3, <1>7, <1>8 DEF GoodTree, ReadAll

\* The tree that has been read is a tree of Inode.
LEMMA LoadedTree ==
    ASSUME NEW h, NEW r, GoodTree(h, r), IsFiniteSet(DOMAIN h),
           Cardinality(DOMAIN h) <= MaxInodeIds, num_inode_ids' = Cardinality(DOMAIN h),
           NEW m, OneToOne(m, DOMAIN h), HeapCopied(h, DOMAIN h, m, inode'), root' = m[r],
           bat' \in Table \cup {EmptyFile}, suspect' \subseteq Blocks, pc' = "idle", parent' = NULL,
           node' = NULL, child' = NULL, freed' = 0
    PROVE  TypeOK' /\ LinksOK' /\ NewestId' /\ RunTree'
<1>1. PICK g, top : g = inode' /\ top = root' /\ top = m[r]
  OBVIOUS
<1>2. GoodTree(g, top)
  BY <1>1, CopyIsTree
<1>3. IsFiniteSet(DOMAIN g) /\ Cardinality(DOMAIN g) = Cardinality(DOMAIN h)
  BY <1>1, CopyIsCounted
<1>4. Cardinality(DOMAIN h) \in 0 .. MaxInodeIds
  BY InodeAssumption, FS_CardinalityType
<1>5. inode' \in [DOMAIN inode' -> InodeRecord]
  <2>1. g \in [DOMAIN g -> InodeRecord]
    BY <1>1 DEF HeapCopied
  <2>2. QED
    BY <1>1, <2>1
<1>6. DOMAIN inode' \subseteq Ptr /\ root' \in DOMAIN inode'
  BY <1>1, <1>2 DEF GoodTree
<1>7. TypeOK'
  BY <1>4, <1>5, <1>6 DEF TypeOK
<1>8. /\ \A q : ~Creating(q)' /\ TreeLinks(g, top)
  BY <1>2 DEF Creating, GoodTree
<1>9. LinksOK' /\ NewestId'
  BY <1>1, <1>8 DEF LinksOK, NewestId, TreeLinks
<1>10. TreeIsGood'
  <2>1. Settled' = inode'
    BY <1>7, AllSettledNext
  <2>2. root' # NULL
    BY <1>6, InodeAssumption
  <2>3. QED
    BY <1>1, <1>2, <2>1, <2>2 DEF TreeIsGood
<1>11. Counted'
  BY <1>1, <1>3, <1>4 DEF Counted
<1>12. CreatedFile' /\ DeletedLeaf'
  BY DEF CreatedFile, DeletedLeaf
<1>13. QED
  BY <1>7, <1>9, <1>10, <1>11, <1>12 DEF RunTree

\* fclose: the tree is in memory, and what the files differ on is what it and
\* the table differ on.
LEMMA LoadCloseInv ==
    ASSUME DiskInv, LoadClose
    PROVE  DiskInv'
<1>1. /\ phase = "loading" /\ todo = <<>> /\ phase' = "running"
      /\ suspect' = unsaved /\ stream' = <<>>
      /\ UNCHANGED <<bat, inode, root, num_inode_ids, pc, parent, node, child, freed>>
      /\ UNCHANGED <<mft, unsaved, saved, dirty, killed, todo>>
  BY DEF LoadClose, memory, disk
<1>2. AtRest
  BY <1>1 DEF DiskInv, LoadInv
<1>3. PICK h, r, file : h = saved.inode /\ r = saved.root /\ file = mft
  OBVIOUS
<1>4. PICK T, m : \E k \in 0 .. Len(file) :
          /\ Complete(h, r, T, file)
          /\ Copied(h, r, Visited(T, k), T[k], m, inode, root, <<>>)
          /\ num_inode_ids = k
  BY <1>1, <1>3 DEF DiskInv, LoadInv
<1>5. PICK k \in 0 .. Len(file) :
          /\ Complete(h, r, T, file)
          /\ Copied(h, r, Visited(T, k), T[k], m, inode, root, <<>>)
          /\ num_inode_ids = k
  BY <1>4
<1>6. PICK g, top : g = inode /\ top = root
  OBVIOUS
<1>7. k = Len(file) /\ OneToOne(m, DOMAIN h) /\ HeapCopied(h, DOMAIN h, m, g) /\ top = m[r]
  <2>1. Complete(h, r, T, file) /\ Copied(h, r, Visited(T, k), T[k], m, g, top, <<>>)
    BY <1>5, <1>6
  <2>2. k \in 0 .. Len(file)
    OBVIOUS
  <2>3. ReadAll(h, r, file, k, m, g, top)
    BY <2>1, <2>2, LoadEnds
  <2>4. QED
    BY <2>3 DEF ReadAll
<1>8. /\ GoodTree(h, r) /\ Written(h, r, T, file) /\ T[Len(file)] = <<>>
      /\ IsFiniteSet(DOMAIN h) /\ Cardinality(DOMAIN h) <= MaxInodeIds
      /\ Len(file) \in Nat /\ DOMAIN file = 1 .. Len(file)
  BY <1>5 DEF Complete, Written
<1>9. PICK w : Places(h, file, w)
  BY <1>8, FileHasPlaces
<1>10. Cardinality(DOMAIN h) = Len(file)
  BY <1>8, <1>9, RecordsCounted
<1>11. num_inode_ids' = Cardinality(DOMAIN h)
  BY <1>1, <1>5, <1>7, <1>10
<1>12. HeapCopied(h, DOMAIN h, m, inode') /\ root' = m[r]
  BY <1>1, <1>6, <1>7
<1>13. /\ bat' \in Table \cup {EmptyFile} /\ suspect' \subseteq Blocks /\ pc' = "idle" /\ parent' = NULL
       /\ node' = NULL /\ child' = NULL /\ freed' = 0
  BY <1>1, <1>2 DEF DiskInv, AtRest
<1>14. TypeOK' /\ LinksOK' /\ NewestId' /\ RunTree'
  BY <1>7, <1>8, <1>11, <1>12, <1>13, LoadedTree
<1>15. BatMatchesTree'
  <2>1. \E v : Places(g, file, v)
    BY <1>7, <1>9, CopyHasPlaces
  <2>2. PICK v : Places(inode', file, v)
    BY <1>1, <1>6, <2>1
  <2>3. ASSUME NEW p \in DOMAIN inode', NEW i \in DOMAIN inode'[p].blocks
        PROVE  inode'[p].blocks[i] \in Blocks
    <3>1. inode'[p] \in InodeRecord
      BY <1>14 DEF TypeOK
    <3>2. inode'[p].blocks \in Seq(Blocks)
      BY <3>1 DEF InodeRecord
    <3>3. QED
      BY <3>2
  <2>4. \A b \in Blocks \ suspect' : IF bat'[b] = 1 THEN OneEntry(file, b) ELSE NoEntry(file, b)
    <3>1. \A b \in Blocks \ unsaved : AgreesOn(b)
      BY DEF DiskInv, DiskAgrees
    <3>2. QED
      BY <1>1, <1>3, <3>1, AgreesIs
  <2>5. QED
    BY <1>13, <2>2, <2>3, <2>4, ReadAgrees
<1>16. RunInv'
  BY <1>14, <1>15 DEF RunInv, IInv
<1>17. LoadRestoresTree'
  <2>1. m \in Bijections(DOMAIN h, DOMAIN g)
    BY <1>7, <1>8, CopyIsCounted
  <2>2. \A p \in DOMAIN h :
            /\ SameFields(g[m[p]], h[p])
            /\ g[m[p]].children = [i \in DOMAIN h[p].children |-> m[h[p].children[i]]]
    BY <1>7, <1>8, AllCopied
  <2>3. saved'.inode = h /\ saved'.root = r /\ inode' = g /\ root' = m[r]
    BY <1>1, <1>3, <1>6, <1>12
  <2>4. IsCopy(m)'
    BY <2>2, <2>3 DEF IsCopy, SameFields
  <2>5. QED
    BY <2>1, <2>3, <2>4 DEF LoadRestoresTree
<1>18. HistoryInv'
  BY <1>1, <1>2 DEF DiskInv, HistoryInv, AtRest
<1>19. SavedInv' /\ DiskAgrees'
  BY <1>1, SameFiles DEF DiskInv
<1>20. DownInv' /\ SaveInv' /\ LoadInv'
  BY <1>1 DEF DownInv, SaveInv, LoadInv
<1>21. /\ phase' \in {"down", "formatting", "running", "saving", "loading"}
       /\ bat' \in Table \cup {EmptyFile} /\ unsaved' \subseteq Blocks /\ killed' \in BOOLEAN /\ dirty' \in BOOLEAN
  BY <1>1 DEF DiskInv
<1>22. QED
  BY <1>16, <1>17, <1>18, <1>19, <1>20, <1>21 DEF DiskInv

\* A program with nothing in memory has no part in the table, but for the
\* blocks that are excepted.
LEMMA EmptyHeap ==
    ASSUME inode' = NoInodes, root' = NULL, num_inode_ids' \in 0 .. MaxInodeIds,
           bat' \in Table \cup {EmptyFile}, suspect' \subseteq Blocks, pc' = "idle",
           parent' = NULL, node' = NULL, child' = NULL, freed' = 0,
           \A b \in Blocks \ suspect' : bat'[b] # 1
    PROVE  IInv' /\ RunTree'
<1>1. DOMAIN inode' = {}
  BY DEF NoInodes
<1>2. CreatedFile' /\ DeletedLeaf' /\ NewestId'
  BY <1>1 DEF CreatedFile, DeletedLeaf, NewestId
<1>3. TypeOK'
  BY <1>1 DEF NoInodes, TypeOK
<1>4. LinksOK'
  BY <1>1 DEF LinksOK
<1>5. BatMatchesTree'
  BY <1>1 DEF BatMatchesTree, HeldBlocksAreMarked, NoBlockHeldTwice, MarkedBlocksAreHeld
<1>6. TreeIsGood' /\ Counted'
  <2>1. IsFiniteSet({}) /\ Cardinality({}) = 0
    BY FS_EmptySet
  <2>2. QED
    BY <1>1, <2>1 DEF TreeIsGood, Counted
<1>7. QED
  BY <1>2, <1>3, <1>4, <1>5, <1>6 DEF IInv, RunTree

\* What create_inode makes of an empty file, if anything, is a tree of one file.
LEMMA LoadEmptyInv ==
    ASSUME DiskInv, LoadEmpty
    PROVE  DiskInv'
<1>1. /\ phase = "down" /\ mft = <<>> /\ phase' = "running"
      /\ num_inode_ids' = (IF exists THEN 1 ELSE 0) /\ suspect' = unsaved
      /\ UNCHANGED <<bat, pc, parent, node, child, freed>>
      /\ UNCHANGED <<mft, unsaved, saved, dirty, killed, todo, stream>>
  BY DEF LoadEmpty, disk
<1>2. AtRest /\ inode = NoInodes /\ DOMAIN inode = {} /\ root = NULL
  BY <1>1 DEF DiskInv, DownInv, NoInodes
<1>3. /\ bat' \in Table \cup {EmptyFile} /\ suspect' \subseteq Blocks /\ pc' = "idle" /\ parent' = NULL
      /\ node' = NULL /\ child' = NULL /\ freed' = 0
  BY <1>1, <1>2 DEF DiskInv, AtRest
<1>4. num_inode_ids' \in 0 .. MaxInodeIds
  BY <1>1, InodeAssumption
<1>5. \A b \in Blocks \ suspect' : bat'[b] # 1
  <2>1. \A b \in Blocks \ unsaved : AgreesOn(b)
    BY DEF DiskInv, DiskAgrees
  <2>2. \A b : ~OneEntry(mft, b)
    BY <1>1 DEF OneEntry
  <2>3. QED
    BY <1>1, <2>1, <2>2, AgreesIs
<1>6. \A q : ~Creating(q)'
  BY <1>3 DEF Creating
<1>7. CreatedFile' /\ DeletedLeaf' /\ NewestId'
  BY <1>3, <1>6 DEF CreatedFile, DeletedLeaf, NewestId
<1>8. ASSUME UNCHANGED <<inode, root>>
      PROVE  IInv' /\ RunTree'
  BY <1>2, <1>3, <1>4, <1>5, <1>8, EmptyHeap
<1>9. ASSUME NEW new \in Ptr, NEW name \in Names, exists,
             inode' = With(new, Unread(name)), root' = new
      PROVE  IInv' /\ RunTree'
  <2>1. PICK record : record = Unread(name)
    OBVIOUS
  <2>2. record \in InodeRecord /\ record.children = <<>> /\ record.blocks = <<>>
    BY <2>1 DEF Unread, NewFile, InodeRecord
  <2>3. PICK g : g = inode'
    OBVIOUS
  <2>4. g \in [{new} -> InodeRecord] /\ DOMAIN g = {new} /\ g[new] = record
    <3>1. g = [q \in {new} |-> record]
      BY <1>2, <1>9, <2>1, <2>3 DEF With
    <3>2. QED
      BY <2>2, <3>1
  <2>5. TypeOK'
    BY <1>3, <1>4, <1>9, <2>3, <2>4 DEF TypeOK
  <2>6. LinksOK'
    BY <1>3, <2>2, <2>3, <2>4 DEF LinksOK
  <2>7. BatMatchesTree'
    <3>1. \A p \in DOMAIN inode' : Unfreed(p)' = {}
      BY <2>2, <2>3, <2>4 DEF Unfreed
    <3>2. QED
      BY <1>5, <3>1
         DEF BatMatchesTree, HeldBlocksAreMarked, NoBlockHeldTwice, MarkedBlocksAreHeld
  <2>8. TreeIsGood'
    <3>1. GoodTree(g, new)
      BY <2>2, <2>4, SingleTree
    <3>2. Settled' = inode'
      BY <1>3, <2>5, AllSettledNext
    <3>3. QED
      BY <1>9, <2>3, <3>1, <3>2, InodeAssumption DEF TreeIsGood
  <2>9. Counted'
    <3>1. IsFiniteSet({new}) /\ Cardinality({new}) = 1
      BY FS_Singleton
    <3>2. QED
      BY <1>1, <1>9, <2>3, <2>4, <3>1 DEF Counted
  <2>10. QED
    BY <1>7, <2>5, <2>6, <2>7, <2>8, <2>9 DEF IInv, RunTree
<1>10. IInv' /\ RunTree'
  BY <1>8, <1>9 DEF LoadEmpty
<1>11. SavedInv' /\ DiskAgrees'
  BY <1>1, SameFiles DEF DiskInv
<1>12. HistoryInv'
  BY <1>1, <1>2 DEF DiskInv, HistoryInv, AtRest
<1>13. DownInv' /\ RunInv' /\ SaveInv' /\ LoadInv' /\ LoadRestoresTree'
  BY <1>1, <1>10 DEF DownInv, RunInv, SaveInv, LoadInv, LoadRestoresTree
<1>14. /\ phase' \in {"down", "formatting", "running", "saving", "loading"}
       /\ bat' \in Table \cup {EmptyFile} /\ unsaved' \subseteq Blocks /\ killed' \in BOOLEAN /\ dirty' \in BOOLEAN
  BY <1>1 DEF DiskInv
<1>15. QED
  BY <1>10, <1>11, <1>12, <1>13, <1>14 DEF DiskInv

-------------------------------------------------------------------------------
(* Programs *)

\* Until the new table is there nothing is said of any block.
LEMMA StartCreateInv ==
    ASSUME DiskInv, StartCreate
    PROVE  DiskInv'
<1>1. /\ phase = "down" /\ phase' = "formatting" /\ bat' = EmptyFile /\ unsaved' = Blocks
      /\ UNCHANGED <<inode, root, num_inode_ids, pc, parent, node, child, freed, suspect>>
      /\ UNCHANGED <<stream, todo, mft, dirty, killed, saved>>
  BY DEF StartCreate, memory
<1>2. AtRest /\ inode = NoInodes /\ root = NULL /\ num_inode_ids = 0
  BY <1>1 DEF DiskInv, DownInv
<1>3. DownInv'
  BY <1>1, <1>2 DEF DownInv, AtRest
<1>4. SavedInv' /\ HistoryInv'
  BY <1>1 DEF DiskInv, SavedInv, HistoryInv
<1>5. RunInv' /\ SaveInv' /\ LoadInv' /\ LoadRestoresTree' /\ DiskAgrees'
  BY <1>1 DEF RunInv, SaveInv, LoadInv, LoadRestoresTree, DiskAgrees
<1>6. /\ phase' \in {"down", "formatting", "running", "saving", "loading"}
      /\ bat' \in Table \cup {EmptyFile} /\ unsaved' \subseteq Blocks
      /\ killed' \in BOOLEAN /\ dirty' \in BOOLEAN
  BY <1>1 DEF DiskInv
<1>7. QED
  BY <1>3, <1>4, <1>5, <1>6 DEF DiskInv

\* Formatting makes the blocks that the old records name the ones to except.
LEMMA FormatInv ==
    ASSUME DiskInv, Format
    PROVE  DiskInv'
<1>1. /\ phase = "formatting" /\ phase' = "running" /\ bat' = FormattedTable /\ dirty' = TRUE
      /\ suspect' = {} /\ unsaved' = RecordedBlocks /\ killed' = FALSE
      /\ UNCHANGED <<inode, root, num_inode_ids, pc, parent, node, child, freed>>
      /\ UNCHANGED <<stream, todo, mft, saved>>
  BY DEF Format, memory
<1>2. AtRest /\ inode = NoInodes /\ DOMAIN inode = {} /\ root = NULL /\ num_inode_ids = 0
  BY <1>1 DEF DiskInv, DownInv, NoInodes
<1>3. bat' \in Table /\ \A b \in Blocks : bat'[b] # 1
  BY <1>1 DEF Table, FormattedTable
<1>4. IInv' /\ RunTree'
  <2>1. num_inode_ids' \in 0 .. MaxInodeIds
    BY <1>1, <1>2, InodeAssumption
  <2>2. QED
    BY <1>1, <1>2, <1>3, <2>1, EmptyHeap DEF AtRest
<1>5. RecordedBlocks \subseteq Blocks
  <2>1. CASE mft = <<>>
    BY <2>1 DEF RecordedBlocks
  <2>2. CASE mft # <<>>
    <3>1. PICK file \in Seq(FileRecord) : file = mft
      BY <2>2 DEF DiskInv, SavedInv, Complete, Written
    <3>2. \A k \in DOMAIN file : file[k].blocks \in Seq(Blocks)
      <4>1. \A k \in DOMAIN file : file[k] \in FileRecord
        OBVIOUS
      <4>2. QED
        BY <4>1 DEF FileRecord
    <3>3. \A k \in DOMAIN file : \A i \in DOMAIN file[k].blocks : file[k].blocks[i] \in Blocks
      BY <3>2
    <3>4. QED
      BY <3>1, <3>3 DEF RecordedBlocks
  <2>3. QED
    BY <2>1, <2>2
<1>6. DiskAgrees'
  <2>1. ASSUME NEW b \in Blocks, b \notin RecordedBlocks PROVE AgreesOn(b)'
    <3>1. bat'[b] # 1
      BY <1>1 DEF FormattedTable
    <3>2. NoEntry(mft', b)
      BY <1>1, <2>1 DEF NoEntry, RecordedBlocks
    <3>3. QED
      BY <3>1, <3>2, AgreesIs
  <2>2. QED
    BY <1>1, <2>1 DEF DiskAgrees
<1>7. SavedInv'
  BY <1>1 DEF DiskInv, SavedInv
<1>8. DownInv' /\ RunInv' /\ SaveInv' /\ LoadInv' /\ HistoryInv' /\ LoadRestoresTree'
  BY <1>1, <1>4 DEF DownInv, RunInv, SaveInv, LoadInv, HistoryInv, LoadRestoresTree
<1>9. /\ phase' \in {"down", "formatting", "running", "saving", "loading"}
      /\ bat' \in Table \cup {EmptyFile} /\ unsaved' \subseteq Blocks /\ killed' \in BOOLEAN /\ dirty' \in BOOLEAN
  BY <1>1, <1>3, <1>5
<1>10. QED
  BY <1>6, <1>7, <1>8, <1>9 DEF DiskInv

\* A create_fs whose disk is not formatted has lost what is marked there.
LEMMA NotFormattedInv ==
    ASSUME DiskInv, FormatFails \/ FormatRefused
    PROVE  DiskInv'
<1>1. /\ phase \in {"down", "formatting"} /\ phase' = "running"
      /\ dirty' = TRUE /\ killed' = TRUE
      /\ UNCHANGED <<bat, inode, root, num_inode_ids, pc, parent, node, child, freed>>
      /\ UNCHANGED <<stream, todo, mft, unsaved, saved>>
  BY DEF FormatFails, FormatRefused, memory, disk
<1>2. AtRest /\ inode = NoInodes /\ root = NULL /\ num_inode_ids = 0
  BY <1>1 DEF DiskInv, DownInv
<1>3. suspect' \subseteq Blocks /\ \A b \in Blocks \ suspect' : bat'[b] # 1
  BY <1>1, <1>2 DEF FormatFails, FormatRefused, AtRest
<1>4. IInv' /\ RunTree'
  <2>1. num_inode_ids' \in 0 .. MaxInodeIds /\ bat' \in Table \cup {EmptyFile}
    BY <1>1, <1>2, InodeAssumption DEF DiskInv
  <2>2. QED
    BY <1>1, <1>2, <1>3, <2>1, EmptyHeap DEF AtRest
<1>5. SavedInv' /\ DiskAgrees'
  BY <1>1, SameFiles DEF DiskInv
<1>6. DownInv' /\ RunInv' /\ SaveInv' /\ LoadInv' /\ HistoryInv' /\ LoadRestoresTree'
  BY <1>1, <1>4 DEF DownInv, RunInv, SaveInv, LoadInv, HistoryInv, LoadRestoresTree
<1>7. /\ phase' \in {"down", "formatting", "running", "saving", "loading"}
      /\ bat' \in Table \cup {EmptyFile} /\ unsaved' \subseteq Blocks
      /\ killed' \in BOOLEAN /\ dirty' \in BOOLEAN
  BY <1>1 DEF DiskInv
<1>8. QED
  BY <1>4, <1>5, <1>6, <1>7 DEF DiskInv

\* A step of a call writes to the table alone: the blocks it changes there are
\* the ones to except.
LEMMA CallInv ==
    ASSUME CallersFind, DiskInv, Call
    PROVE  DiskInv'
<1>1. /\ phase = "running" /\ Next /\ dirty' = TRUE /\ phase' = phase
      /\ unsaved' = unsaved \cup {b \in Blocks : bat'[b] # bat[b]}
      /\ killed' = (killed \/ suspect' # suspect)
      /\ UNCHANGED <<mft, stream, todo, saved>>
  BY DEF Call, Perform
<1>2. IInv /\ RunTree
  BY <1>1 DEF DiskInv, RunInv
<1>3. IInv'
  BY <1>1, <1>2, NextIInv
<1>4. RunTree'
  BY <1>1, <1>2, NextRun
<1>5. DiskAgrees'
  <2>1. ASSUME NEW b \in Blocks, b \notin unsaved' PROVE AgreesOn(b)'
    <3>1. b \notin unsaved /\ bat'[b] = bat[b]
      BY <1>1, <2>1
    <3>2. AgreesOn(b)
      BY <3>1 DEF DiskInv, DiskAgrees
    <3>3. QED
      BY <1>1, <3>1, <3>2, AgreesIs
  <2>2. QED
    BY <2>1 DEF DiskAgrees
<1>6. SavedInv'
  BY <1>1 DEF DiskInv, SavedInv
<1>7. HistoryInv'
  BY <1>1 DEF DiskInv, HistoryInv
<1>8. DownInv' /\ RunInv' /\ SaveInv' /\ LoadInv' /\ LoadRestoresTree'
  BY <1>1, <1>3, <1>4 DEF DownInv, RunInv, SaveInv, LoadInv, LoadRestoresTree
<1>9. /\ phase' \in {"down", "formatting", "running", "saving", "loading"}
      /\ bat' \in Table \cup {EmptyFile} /\ unsaved' \subseteq Blocks /\ killed' \in BOOLEAN /\ dirty' \in BOOLEAN
  <2>1. killed' \in BOOLEAN
    BY <1>1 DEF DiskInv
  <2>2. bat' \in Table \cup {EmptyFile}
    BY <1>3 DEF IInv, TypeOK
  <2>3. QED
    BY <1>1, <2>1, <2>2 DEF DiskInv
<1>10. QED
  BY <1>5, <1>6, <1>7, <1>8, <1>9 DEF DiskInv

\* Whenever a program ends the files are left as they are.
LEMMA ExitInv ==
    ASSUME DiskInv, Exit, UNCHANGED <<bat, disk>>, killed' \in BOOLEAN,
           ~killed' => unsaved = {}
    PROVE  DiskInv'
<1>1. /\ inode' = NoInodes /\ root' = NULL /\ num_inode_ids' = 0 /\ pc' = "idle"
      /\ parent' = NULL /\ node' = NULL /\ child' = NULL /\ freed' = 0 /\ suspect' = Blocks
      /\ phase' = "down" /\ dirty' = FALSE /\ UNCHANGED <<bat, mft, unsaved, saved>>
  BY DEF Exit, disk
<1>2. DownInv'
  BY <1>1 DEF DownInv, AtRest
<1>3. SavedInv' /\ DiskAgrees'
  BY <1>1, SameFiles DEF DiskInv
<1>4. RunInv' /\ SaveInv' /\ LoadInv' /\ HistoryInv' /\ LoadRestoresTree'
  BY <1>1 DEF RunInv, SaveInv, LoadInv, HistoryInv, LoadRestoresTree
<1>5. /\ phase' \in {"down", "formatting", "running", "saving", "loading"}
      /\ bat' \in Table \cup {EmptyFile} /\ unsaved' \subseteq Blocks /\ killed' \in BOOLEAN /\ dirty' \in BOOLEAN
  BY <1>1 DEF DiskInv
<1>6. QED
  BY <1>2, <1>3, <1>4, <1>5 DEF DiskInv

\* A program that shuts down has saved what it did.
LEMMA ShutdownInv ==
    ASSUME DiskInv, Shutdown
    PROVE  DiskInv'
<1>1. /\ phase = "running" /\ ~dirty /\ Exit /\ UNCHANGED <<bat, disk>> /\ killed' = killed
  BY DEF Shutdown, Quit
<1>2. killed' \in BOOLEAN /\ (~killed' => unsaved = {})
  BY <1>1 DEF DiskInv, HistoryInv
<1>3. QED
  BY <1>1, <1>2, ExitInv

\* A program that is killed has not; the history says so.
LEMMA KillInv ==
    ASSUME DiskInv, Kill
    PROVE  DiskInv'
<1>1. Exit /\ UNCHANGED <<bat, disk>> /\ killed' = TRUE
  BY DEF Kill
<1>2. killed' \in BOOLEAN /\ (~killed' => unsaved = {})
  BY <1>1
<1>3. QED
  BY <1>1, <1>2, ExitInv

\* A program that is killed in a write of the table leaves none, so that no
\* block is left of which anything is said.
LEMMA KillInWriteInv ==
    ASSUME DiskInv, KillInWrite
    PROVE  DiskInv'
<1>1. /\ inode' = NoInodes /\ root' = NULL /\ num_inode_ids' = 0 /\ pc' = "idle"
      /\ parent' = NULL /\ node' = NULL /\ child' = NULL /\ freed' = 0 /\ suspect' = Blocks
      /\ phase' = "down" /\ dirty' = FALSE /\ bat' = EmptyFile /\ unsaved' = Blocks
      /\ killed' = TRUE /\ UNCHANGED <<mft, saved>>
  BY DEF KillInWrite, Exit
<1>2. DownInv'
  BY <1>1 DEF DownInv, AtRest
<1>3. SavedInv' /\ DiskAgrees'
  BY <1>1 DEF DiskInv, SavedInv, DiskAgrees
<1>4. RunInv' /\ SaveInv' /\ LoadInv' /\ HistoryInv' /\ LoadRestoresTree'
  BY <1>1 DEF RunInv, SaveInv, LoadInv, HistoryInv, LoadRestoresTree
<1>5. /\ phase' \in {"down", "formatting", "running", "saving", "loading"}
      /\ bat' \in Table \cup {EmptyFile} /\ unsaved' \subseteq Blocks
      /\ killed' \in BOOLEAN /\ dirty' \in BOOLEAN
  BY <1>1
<1>6. QED
  BY <1>2, <1>3, <1>4, <1>5 DEF DiskInv

\* A step that changes nothing.
LEMMA StillInv ==
    ASSUME DiskInv, UNCHANGED allVars
    PROVE  DiskInv'
<1>1. /\ UNCHANGED vars /\ UNCHANGED <<mft, phase, stream, todo, dirty, unsaved, killed, saved>>
      /\ UNCHANGED <<bat, inode, root, num_inode_ids, pc, parent, node, child, freed, suspect>>
  BY DEF allVars, vars
<1>2. RunInv'
  BY <1>1, SameRun DEF DiskInv, RunInv
<1>3. SavedInv' /\ DiskAgrees'
  BY <1>1, SameFiles DEF DiskInv
<1>4. DownInv'
  BY <1>1 DEF DiskInv, DownInv, AtRest
<1>5. SaveInv'
  BY <1>1 DEF DiskInv, SaveInv
<1>6. LoadInv'
  BY <1>1 DEF DiskInv, LoadInv, AtRest
<1>7. HistoryInv'
  BY <1>1 DEF DiskInv, HistoryInv
<1>8. LoadRestoresTree'
  <2> SUFFICES ASSUME phase' = "running", ~dirty', mft' # <<>>
               PROVE  \E m \in Bijections(DOMAIN saved'.inode, DOMAIN inode') : IsCopy(m)'
      BY DEF LoadRestoresTree
  <2>1. PICK m \in Bijections(DOMAIN saved.inode, DOMAIN inode) : IsCopy(m)
    BY <1>1 DEF DiskInv, LoadRestoresTree
  <2>2. IsCopy(m)'
    BY <1>1, <2>1 DEF IsCopy
  <2>3. QED
    BY <1>1, <2>1, <2>2
<1>9. /\ phase' \in {"down", "formatting", "running", "saving", "loading"}
      /\ bat' \in Table \cup {EmptyFile} /\ unsaved' \subseteq Blocks /\ killed' \in BOOLEAN /\ dirty' \in BOOLEAN
  BY <1>1 DEF DiskInv
<1>10. QED
  BY <1>2, <1>3, <1>4, <1>5, <1>6, <1>7, <1>8, <1>9 DEF DiskInv

\* Before the first program there is neither file.
LEMMA InitDiskInv == DiskInit => DiskInv
<1> SUFFICES ASSUME DiskInit PROVE DiskInv
    OBVIOUS
<1>1. /\ bat = EmptyFile /\ mft = <<>> /\ unsaved = {} /\ killed = FALSE
      /\ inode = NoInodes /\ root = NULL /\ num_inode_ids = 0 /\ pc = "idle"
      /\ parent = NULL /\ node = NULL /\ child = NULL /\ freed = 0 /\ suspect = Blocks
      /\ phase = "down" /\ dirty = FALSE
  BY DEF DiskInit, NoProcess
<1>2. DownInv
  BY <1>1 DEF DownInv, AtRest
<1>3. DiskAgrees
  <2>1. \A b \in Blocks : bat[b] # 1
    BY <1>1 DEF EmptyFile, NoByte
  <2>2. \A b : NoEntry(mft, b)
    BY <1>1 DEF NoEntry
  <2>3. QED
    BY <2>1, <2>2, AgreesIs DEF DiskAgrees
<1>4. RunInv /\ SaveInv /\ LoadInv /\ SavedInv /\ HistoryInv /\ LoadRestoresTree
  BY <1>1 DEF RunInv, SaveInv, LoadInv, SavedInv, HistoryInv, LoadRestoresTree
<1>5. QED
  BY <1>1, <1>2, <1>3, <1>4 DEF DiskInv

\* Every step of every program keeps the invariant.
LEMMA NextDiskInv ==
    ASSUME CallersFind, DiskInv, [DiskNext]_allVars
    PROVE  DiskInv'
<1>1. CASE StartCreate
  BY <1>1, StartCreateInv
<1>2. CASE Shutdown
  BY <1>2, ShutdownInv
<1>3. CASE Kill
  BY <1>3, KillInv
<1>4. CASE Call
  BY <1>4, CallInv
<1>5. CASE SaveOpen
  BY <1>5, SaveOpenInv
<1>6. CASE LoadOpen
  BY <1>6, LoadOpenInv
<1>7. CASE LoadEmpty
  BY <1>7, LoadEmptyInv
<1>8. CASE SaveInode
  BY <1>8, SaveInodeInv
<1>9. CASE SaveClose
  BY <1>9, SaveCloseInv
<1>10. CASE LoadInode
  BY <1>10, LoadInodeInv
<1>11. CASE LoadClose
  BY <1>11, LoadCloseInv
<1>12. CASE Format
  BY <1>12, FormatInv
<1>13. CASE FormatFails \/ FormatRefused
  BY <1>13, NotFormattedInv
<1>14. CASE KillInWrite
  BY <1>14, KillInWriteInv
<1>15. CASE UNCHANGED allVars
  BY <1>15, StillInv
<1>16. QED
  BY <1>1, <1>2, <1>3, <1>4, <1>5, <1>6, <1>7, <1>8, <1>9, <1>10, <1>11, <1>12, <1>13,
     <1>14, <1>15 DEF DiskNext, ProgramStep

\* The invariant holds of all sequences of programs.
LEMMA DiskStaysRight == ASSUME CallersFind PROVE DiskSpec => []DiskInv
<1>1. DiskInit => DiskInv
  BY InitDiskInv
<1>2. DiskInv /\ [DiskNext]_allVars => DiskInv'
  BY NextDiskInv
<1>3. QED
  BY <1>1, <1>2, PTL DEF DiskSpec

\* While no program runs, or one still loads, no block is claimed to agree.
LEMMA NoPartAgrees == DiskInv => BatMatchesTree
<1> SUFFICES ASSUME DiskInv PROVE BatMatchesTree
    OBVIOUS
<1>1. CASE phase \in {"running", "saving"}
  BY <1>1 DEF DiskInv, RunInv, IInv
<1>2. CASE phase \in {"down", "formatting"}
  BY <1>2 DEF DiskInv, DownInv, AtRest, NoInodes, BatMatchesTree, HeldBlocksAreMarked,
              NoBlockHeldTwice, MarkedBlocksAreHeld
<1>3. CASE phase = "loading"
  <2>1. suspect = Blocks
    BY <1>3 DEF DiskInv, LoadInv, AtRest
  <2>2. \A p \in DOMAIN inode : inode[p] \in InodeRecord
    BY <1>3 DEF DiskInv, LoadInv, Copied, HeapCopied
  <2>3. \A p \in DOMAIN inode : inode[p].blocks \in Seq(Blocks)
    BY <2>2 DEF InodeRecord
  <2>4. \A p \in DOMAIN inode : \A i \in Unfreed(p) : inode[p].blocks[i] \in Blocks
    BY <2>3 DEF Unfreed
  <2>5. QED
    BY <2>1, <2>4 DEF BatMatchesTree, HeldBlocksAreMarked, NoBlockHeldTwice, MarkedBlocksAreHeld
<1>4. QED
  BY <1>1, <1>2, <1>3 DEF DiskInv

\* The two files of the disk are written at different times, by programs that
\* may be killed at any step, also while fopen "w" has emptied one of them.  As
\* long as no write of the table was broken off, a block that was neither
\* allocated nor freed since the last save, nor marked when a save was broken
\* off, is in exactly one record of the master file table if it is marked, and
\* in none if it is not: for disks, trees and files of any size.
THEOREM DiskAgreesHolds == ASSUME CallersFind PROVE DiskSpec => []DiskAgrees
<1>1. DiskInv => DiskAgrees
  BY DEF DiskInv
<1>2. QED
  BY <1>1, DiskStaysRight, PTL

\* create_fs, load_fs and del_fs save before they end: if none of them was
\* killed, the two files agree on every block when no program runs.
THEOREM CleanRunsKeepDiskHolds == ASSUME CallersFind PROVE DiskSpec => []CleanRunsKeepDisk
<1>1. DiskInv => CleanRunsKeepDisk
  BY DEF DiskInv, DownInv, AtRest, HistoryInv, DiskAgrees, CleanRunsKeepDisk
<1>2. QED
  BY <1>1, DiskStaysRight, PTL

\* load_inodes builds the tree that save_inodes has written, child by child,
\* with its names, ids and blocks, whatever the shape of the tree.
THEOREM LoadRestoresTreeHolds == ASSUME CallersFind PROVE DiskSpec => []LoadRestoresTree
<1>1. DiskInv => LoadRestoresTree
  BY DEF DiskInv
<1>2. QED
  BY <1>1, DiskStaysRight, PTL

\* What Inode promises of one program holds in any sequence of programs: the
\* marks in the table are those of the files in memory, also after a load, but
\* for the blocks on which the two files differed.
THEOREM TableMatchesLoadedTree == ASSUME CallersFind PROVE DiskSpec => []BatMatchesTree
BY NoPartAgrees, DiskStaysRight, PTL

===============================================================================
