------------------------------- MODULE FreeList --------------------------------
(*****************************************************************************)
(* sl_list.c and first_fit.c: a memory of numbered units, the list of its    *)
(* free blocks and the allocator that takes the first block large enough.    *)
(* The program may allocate and free in any order, what main does is one     *)
(* such order.                                                               *)
(*                                                                           *)
(* Simplifications: the linked list is a sequence of its elements; malloc    *)
(* succeeds; an allocation that returns NULL changes nothing and is no step. *)
(*                                                                           *)
(* find_first computes what is left of a block behind the first one of the   *)
(* list from the wrong element, the one in front of it.  The module has that *)
(* as it is in the source; the history variable cuts counts how often it has *)
(* happened, and the properties say what holds before and what even after.   *)
(*                                                                           *)
(* A definition named Mutant... is a plausible bug: what the definition that *)
(* follows it would be if the code were wrong in that place.                 *)
(*****************************************************************************)
EXTENDS Integers, Sequences, SequencesExt, BagsExt

CONSTANTS
    MemorySize,  \* units of memory, 16 in first_fit.c
    Sizes,       \* sizes a caller asks for
    MaxCuts      \* bound on cuts: the list may grow with every one of them

ASSUME FreeListAssumption ==
    /\ MemorySize \in Nat \ {0}
    /\ Sizes \subseteq Nat \ {0}
    /\ MaxCuts \in Nat

VARIABLES
    free_mem,  \* the elements of the list, in its order
    held,      \* the bag of elements callers have got and not given back
    cuts       \* history: cuts of a block that was not the first of the list

vars == <<free_mem, held, cuts>>

Element(start, size) == [start |-> start, size |-> size]

Init ==
    /\ free_mem = <<Element(0, MemorySize)>>
    /\ held = EmptyBag
    /\ cuts = 0

-------------------------------------------------------------------------------
(* find_first and first_fit_alloc *)

\* The i-th element is the first one that is large enough.
FirstFit(i, size) ==
    /\ i \in DOMAIN free_mem
    /\ free_mem[i].size >= size
    /\ \A j \in 1 .. i - 1 : free_mem[j].size < size

\* The block moves instead of becoming shorter.
MutantRest(i, size) ==
    LET from == IF i = 1 THEN 1 ELSE i - 1
    IN Element(free_mem[from].start + size, free_mem[from].size)

\* What the i-th element becomes.  Behind the first element the loop stands
\* on the element in front of the one that fits, and reads that.
Rest(i, size) ==
    LET from == IF i = 1 THEN 1 ELSE i - 1
    IN Element(free_mem[from].start + size, free_mem[from].size - size)

FirstFitAlloc(size) ==
    \E i \in DOMAIN free_mem :
       /\ FirstFit(i, size)
       /\ held' = BagAdd(held, Element(free_mem[i].start, size))
       /\ free_mem' = IF Rest(i, size).size = 0 THEN RemoveAt(free_mem, i)
                      ELSE ReplaceAt(free_mem, i, Rest(i, size))
       /\ i > 1 => cuts < MaxCuts
       /\ cuts' = IF i > 1 THEN cuts + 1 ELSE cuts

-------------------------------------------------------------------------------
(* list_insert_and_merge and first_fit_free *)

Touch(list, k) ==
    /\ k \in 1 .. Len(list) - 1
    /\ list[k].start + list[k].size = list[k + 1].start

\* The element that was merged is not taken out of the list.
MutantCompress(list, k) ==
    IF Touch(list, k) THEN [list EXCEPT ![k].size = @ + list[k + 1].size] ELSE list

\* list_compress of the k-th element.
Compress(list, k) ==
    IF Touch(list, k)
    THEN RemoveAt([list EXCEPT ![k].size = @ + list[k + 1].size], k + 1)
    ELSE list

\* The loop goes to the last element that starts before elem; to the first
\* one also if it starts at the same unit.
IsPlace(list, elem, k) ==
    /\ k \in 0 .. Len(list)
    /\ k = 0 <=> list = <<>> \/ list[1].start > elem.start
    /\ \A j \in 2 .. k : list[j].start < elem.start
    /\ k \in 1 .. Len(list) - 1 => list[k + 1].start >= elem.start

\* Only the element behind the new one is merged with it.
MutantInsertAndMerge(elem) ==
    \E k \in 0 .. Len(free_mem) :
       /\ IsPlace(free_mem, elem, k)
       /\ free_mem' = Compress(InsertAt(free_mem, k + 1, elem), k + 1)

InsertAndMerge(elem) ==
    \E k \in 0 .. Len(free_mem) :
       /\ IsPlace(free_mem, elem, k)
       /\ free_mem' = Compress(Compress(InsertAt(free_mem, k + 1, elem), k + 1), k)

FirstFitFree(elem) ==
    /\ InsertAndMerge(elem)
    /\ held' = BagRemove(held, elem)
    /\ UNCHANGED cuts

Next ==
    \/ \E size \in Sizes : FirstFitAlloc(size)
    \/ \E elem \in DOMAIN held : FirstFitFree(elem)

Spec == Init /\ [][Next]_vars

-------------------------------------------------------------------------------
(* Properties *)

Memory == 0 .. MemorySize - 1

\* The units of an element: none if its size is not positive.
Units(elem) == elem.start .. elem.start + elem.size - 1

FreeUnits == UNION {Units(free_mem[i]) : i \in DOMAIN free_mem}

HeldUnits == UNION {Units(elem) : elem \in DOMAIN held}

\* The type invariant: whatever is handed out is a block inside the memory,
\* and so is every free block that has units.
TypeOK ==
    /\ free_mem \in Seq([start : Int, size : Int])
    /\ DOMAIN held \subseteq [start : Memory, size : Sizes]
    /\ held \in [DOMAIN held -> Nat \ {0}]
    /\ cuts \in 0 .. MaxCuts
    /\ FreeUnits \cup HeldUnits \subseteq Memory

\* No unit is in two hands, nor free while somebody has it, even after
\* find_first has spoilt the list: the blocks of negative size it leaves
\* behind can cost memory in later merges, they never return any twice.
NoUnitTwice ==
    /\ \A elem \in DOMAIN held : held[elem] = 1
    /\ \A e, f \in DOMAIN held : e # f => Units(e) \cap Units(f) = {}
    /\ HeldUnits \cap FreeUnits = {}

\* As long as every allocation was served by the first block, the list is
\* what its comments promise: sorted, blocks that touch are merged, so that an
\* allocation fails only if there is no hole of its size, and all units that
\* nobody has are in it.
ListIsExact ==
    cuts = 0 =>
       /\ FreeUnits \cup HeldUnits = Memory
       /\ \A i \in DOMAIN free_mem : free_mem[i].size > 0
       /\ \A i \in 1 .. Len(free_mem) - 1 :
             free_mem[i].start + free_mem[i].size < free_mem[i + 1].start

\* sl_list.c:151-155: find_first leaves "e->start and e->size changed to
\* reflect that size units have been removed at the start of block e": no
\* unit disappears, each is in the list or held by a caller.
NoUnitLost == FreeUnits \cup HeldUnits = Memory

===============================================================================
