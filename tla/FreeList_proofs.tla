--------------------------- MODULE FreeList_proofs ----------------------------
(*****************************************************************************)
(* Proofs about FreeList for a memory of any size, requests of any sizes and *)
(* any number of wrong cuts.                                                 *)
(*****************************************************************************)
EXTENDS FreeList, TLAPS

Elements == [start : Int, size : Int]

UnitsOf(list) == UNION {Units(list[i]) : i \in DOMAIN list}

Disjoint(list) ==
    \A i, j \in DOMAIN list : i # j => Units(list[i]) \cap Units(list[j]) = {}

-------------------------------------------------------------------------------
(* Lists *)

\* RemoveAt takes out one element and keeps the order of the others.
LEMMA RemoveAtEffect ==
    ASSUME NEW list \in Seq(Elements), NEW k \in DOMAIN list
    PROVE  /\ RemoveAt(list, k) \in Seq(Elements)
           /\ DOMAIN RemoveAt(list, k) = 1 .. Len(list) - 1
           /\ \A j \in 1 .. Len(list) - 1 :
                 RemoveAt(list, k)[j] = list[IF j < k THEN j ELSE j + 1]
<1> DEFINE left == SubSeq(list, 1, k - 1)
           right == SubSeq(list, k + 1, Len(list))
<1>1. /\ left \in Seq(Elements) /\ Len(left) = k - 1
      /\ \A j \in 1 .. k - 1 : left[j] = list[j]
  OBVIOUS
<1>2. /\ right \in Seq(Elements) /\ Len(right) = Len(list) - k
      /\ \A j \in 1 .. Len(list) - k : right[j] = list[j + k]
  OBVIOUS
<1>3. RemoveAt(list, k) = left \o right
  BY DEF RemoveAt
<1> HIDE DEF left, right
<1>4. k \in Nat /\ Len(list) \in Nat /\ 1 <= k /\ k <= Len(list)
  OBVIOUS
<1>5. QED
  BY <1>1, <1>2, <1>3, <1>4

\* What SMT knows of a concatenation, apart from the sequences it is used for.
LEMMA ConcatEffect ==
    ASSUME NEW s \in Seq(Elements), NEW t \in Seq(Elements)
    PROVE  s \o t \in Seq(Elements) /\ Len(s \o t) = Len(s) + Len(t)
OBVIOUS

\* InsertAt puts one element in and keeps the order of the others.
LEMMA InsertAtEffect ==
    ASSUME NEW list \in Seq(Elements), NEW k \in 1 .. Len(list) + 1, NEW elem \in Elements
    PROVE  /\ InsertAt(list, k, elem) \in Seq(Elements)
           /\ DOMAIN InsertAt(list, k, elem) = 1 .. Len(list) + 1
           /\ \A j \in 1 .. Len(list) + 1 :
                 InsertAt(list, k, elem)[j] =
                     IF j = k THEN elem ELSE list[IF j < k THEN j ELSE j - 1]
<1> DEFINE left == SubSeq(list, 1, k - 1)
           right == SubSeq(list, k, Len(list))
           front == left \o <<elem>>
<1>1. /\ left \in Seq(Elements) /\ Len(left) = k - 1
      /\ \A j \in 1 .. k - 1 : left[j] = list[j]
  OBVIOUS
<1>2. /\ right \in Seq(Elements) /\ Len(right) = Len(list) + 1 - k
      /\ \A j \in 1 .. Len(list) + 1 - k : right[j] = list[j + k - 1]
  OBVIOUS
<1> HIDE DEF left, right
<1>3. /\ front \in Seq(Elements) /\ Len(front) = k /\ front[k] = elem
      /\ \A j \in 1 .. k - 1 : front[j] = left[j]
  BY <1>1
<1>4. InsertAt(list, k, elem) = front \o right
  BY DEF InsertAt, left, right
<1> HIDE DEF front
<1>5. k \in Nat /\ Len(list) \in Nat /\ 1 <= k /\ k <= Len(list) + 1
  OBVIOUS
<1>6. front \o right \in Seq(Elements) /\ Len(front \o right) = Len(list) + 1
  <2>1. /\ front \o right \in Seq(Elements)
        /\ Len(front \o right) = Len(front) + Len(right)
    BY <1>2, <1>3, ConcatEffect
  <2>2. QED
    BY <1>2, <1>3, <1>5, <2>1
<1>7. ASSUME NEW j \in 1 .. Len(list) + 1
      PROVE  (front \o right)[j] = IF j = k THEN elem ELSE list[IF j < k THEN j ELSE j - 1]
  <2>1. CASE j <= k
    <3>1. (front \o right)[j] = front[j]
      BY <1>2, <1>3, <1>5, <2>1
    <3>2. CASE j = k
      BY <1>3, <3>1, <3>2
    <3>3. CASE j # k
      BY <1>1, <1>3, <1>5, <2>1, <3>1, <3>3
    <3>4. QED
      BY <3>2, <3>3
  <2>2. CASE j > k
    <3>1. (front \o right)[j] = right[j - k]
      BY <1>2, <1>3, <1>5, <2>2
    <3>2. QED
      BY <1>2, <1>5, <2>2, <3>1
  <2>3. j <= k \/ j > k
    BY <1>5
  <2>4. QED
    BY <2>1, <2>2, <2>3
<1>8. QED
  BY <1>4, <1>6, <1>7

\* A list of parts of disjoint blocks, each part from a block of its own, is
\* one of disjoint blocks.
LEMMA PartsAreDisjoint ==
    ASSUME NEW list \in Seq(Elements), NEW new \in Seq(Elements), Disjoint(list),
           NEW from \in [DOMAIN new -> DOMAIN list],
           \A j \in DOMAIN new : Units(new[j]) \subseteq Units(list[from[j]]),
           \A i, j \in DOMAIN new : from[i] = from[j] => i = j
    PROVE  Disjoint(new) /\ UnitsOf(new) \subseteq UnitsOf(list)
BY DEF Disjoint, UnitsOf

\* Taking an element out of the list leaves disjoint blocks.
LEMMA RemoveAtDisjoint ==
    ASSUME NEW list \in Seq(Elements), NEW k \in DOMAIN list, Disjoint(list)
    PROVE  /\ Disjoint(RemoveAt(list, k))
           /\ UnitsOf(RemoveAt(list, k)) \subseteq UnitsOf(list) \ Units(list[k])
<1> DEFINE new == RemoveAt(list, k)
           from == [j \in DOMAIN new |-> IF j < k THEN j ELSE j + 1]
<1>1. /\ new \in Seq(Elements)
      /\ DOMAIN new = 1 .. Len(list) - 1
      /\ \A j \in DOMAIN new : new[j] = list[from[j]]
  BY RemoveAtEffect
<1>2. from \in [DOMAIN new -> DOMAIN list]
  BY <1>1
<1>3. \A i, j \in DOMAIN new : from[i] = from[j] => i = j
  BY <1>1
<1> HIDE DEF new, from
<1>4. Disjoint(new) /\ UnitsOf(new) \subseteq UnitsOf(list)
  BY <1>1, <1>2, <1>3, PartsAreDisjoint
<1>5. UnitsOf(new) \cap Units(list[k]) = {}
  <2>1. \A j \in DOMAIN new : from[j] \in DOMAIN list /\ from[j] # k
    BY <1>1, <1>2 DEF from
  <2>2. \A j \in DOMAIN new : Units(new[j]) \cap Units(list[k]) = {}
    BY <1>1, <2>1 DEF Disjoint
  <2>3. QED
    BY <2>2 DEF UnitsOf
<1>6. QED
  BY <1>4, <1>5 DEF new

\* A block that has a part of its units left leaves disjoint blocks.
LEMMA ReplaceAtDisjoint ==
    ASSUME NEW list \in Seq(Elements), NEW k \in DOMAIN list, Disjoint(list),
           NEW elem \in Elements, Units(elem) \subseteq Units(list[k])
    PROVE  /\ ReplaceAt(list, k, elem) \in Seq(Elements)
           /\ Disjoint(ReplaceAt(list, k, elem))
           /\ UnitsOf(ReplaceAt(list, k, elem))
                 \subseteq (UnitsOf(list) \ Units(list[k])) \cup Units(elem)
<1> DEFINE new == ReplaceAt(list, k, elem)
           from == [j \in DOMAIN new |-> j]
<1>1. /\ new \in Seq(Elements)
      /\ DOMAIN new = DOMAIN list
      /\ \A j \in DOMAIN new : new[j] = IF j = k THEN elem ELSE list[j]
  BY DEF ReplaceAt
<1>2. /\ from \in [DOMAIN new -> DOMAIN list]
      /\ \A j \in DOMAIN new : from[j] = j
  BY <1>1
<1> HIDE DEF new, from
<1>3. Disjoint(new)
  BY <1>1, <1>2, PartsAreDisjoint
<1>4. ASSUME NEW j \in DOMAIN new, j # k
      PROVE  Units(new[j]) \subseteq UnitsOf(list) \ Units(list[k])
  BY <1>1, <1>4 DEF Disjoint, UnitsOf
<1>5. UnitsOf(new) \subseteq (UnitsOf(list) \ Units(list[k])) \cup Units(elem)
  BY <1>1, <1>4 DEF UnitsOf
<1>6. QED
  BY <1>1, <1>3, <1>5 DEF new

\* So does putting in a block none of whose units is in the list.
LEMMA InsertAtDisjoint ==
    ASSUME NEW list \in Seq(Elements), Disjoint(list),
           NEW k \in 1 .. Len(list) + 1, NEW elem \in Elements,
           Units(elem) \cap UnitsOf(list) = {}
    PROVE  /\ InsertAt(list, k, elem) \in Seq(Elements)
           /\ Disjoint(InsertAt(list, k, elem))
           /\ UnitsOf(InsertAt(list, k, elem)) \subseteq UnitsOf(list) \cup Units(elem)
<1> DEFINE new == InsertAt(list, k, elem)
           from(j) == IF j < k THEN j ELSE j - 1
<1>1. /\ new \in Seq(Elements)
      /\ DOMAIN new = 1 .. Len(list) + 1
      /\ \A j \in 1 .. Len(list) + 1 : new[j] = IF j = k THEN elem ELSE list[from(j)]
  BY InsertAtEffect
<1>2. /\ \A j \in DOMAIN new \ {k} : from(j) \in DOMAIN list
      /\ \A i, j \in DOMAIN new \ {k} : from(i) = from(j) => i = j
  BY <1>1
<1> HIDE DEF new, from
<1>3. \A j \in DOMAIN new \ {k} : Units(new[j]) \subseteq UnitsOf(list)
  BY <1>1, <1>2 DEF UnitsOf
<1>4. ASSUME NEW i \in DOMAIN new, NEW j \in DOMAIN new, i # j
      PROVE  Units(new[i]) \cap Units(new[j]) = {}
  <2>1. CASE i = k \/ j = k
    BY <1>1, <1>3, <1>4, <2>1
  <2>2. CASE i # k /\ j # k
    BY <1>1, <1>2, <1>4, <2>2 DEF Disjoint
  <2>3. QED
    BY <2>1, <2>2
<1>5. UnitsOf(new) \subseteq UnitsOf(list) \cup Units(elem)
  BY <1>1, <1>3 DEF UnitsOf
<1>6. QED
  BY <1>1, <1>4, <1>5 DEF Disjoint, new

\* Two elements that touch, of whatever sizes, become one without new units.
LEMMA TouchUnits ==
    ASSUME NEW a \in Elements, NEW b \in Elements, a.start + a.size = b.start
    PROVE  /\ Element(a.start, a.size + b.size) \in Elements
           /\ Units(Element(a.start, a.size + b.size)) \subseteq Units(a) \cup Units(b)
BY DEF Elements, Element, Units

\* list_compress never invents a unit, not even next to a block of negative
\* size: what it makes of two elements that touch has units of these two only.
LEMMA CompressDisjoint ==
    ASSUME NEW list \in Seq(Elements), Disjoint(list), NEW k \in Nat
    PROVE  /\ Compress(list, k) \in Seq(Elements)
           /\ Disjoint(Compress(list, k))
           /\ UnitsOf(Compress(list, k)) \subseteq UnitsOf(list)
<1>1. CASE ~Touch(list, k)
  BY <1>1 DEF Compress
<1>2. CASE Touch(list, k)
  <2> DEFINE big == [list EXCEPT ![k].size = @ + list[k + 1].size]
             new == RemoveAt(big, k + 1)
             from(j) == IF j < k + 1 THEN j ELSE j + 1
  <2>1. /\ k \in DOMAIN list /\ k + 1 \in DOMAIN list
        /\ list[k] \in Elements /\ list[k + 1] \in Elements
        /\ list[k].start + list[k].size = list[k + 1].start
    BY <1>2 DEF Touch
  <2>2. /\ big \in Seq(Elements) /\ DOMAIN big = DOMAIN list /\ Len(big) = Len(list)
        /\ big[k] = Element(list[k].start, list[k].size + list[k + 1].size)
        /\ \A j \in DOMAIN list \ {k} : big[j] = list[j]
    BY <2>1 DEF Elements, Element
  <2> HIDE DEF big
  <2>3. Units(big[k]) \subseteq Units(list[k]) \cup Units(list[k + 1])
    BY <2>1, <2>2, TouchUnits
  <2>4. /\ new \in Seq(Elements)
        /\ DOMAIN new = 1 .. Len(list) - 1
        /\ \A j \in 1 .. Len(list) - 1 : new[j] = big[from(j)]
    <3>1. /\ new \in Seq(Elements)
          /\ DOMAIN new = 1 .. Len(big) - 1
          /\ \A j \in 1 .. Len(big) - 1 : new[j] = big[IF j < k + 1 THEN j ELSE j + 1]
      BY <2>1, <2>2, RemoveAtEffect
    <3>2. QED
      BY <2>2, <3>1
  <2>5. /\ \A j \in DOMAIN new : from(j) \in DOMAIN list /\ from(j) # k + 1
        /\ \A i, j \in DOMAIN new : from(i) = from(j) => i = j
    BY <2>4
  <2> HIDE DEF new, from
  <2>6. \A j \in DOMAIN new :
            Units(new[j]) \subseteq Units(list[from(j)]) \cup
                                    (IF from(j) = k THEN Units(list[k + 1]) ELSE {})
    BY <2>2, <2>3, <2>4, <2>5
  <2>7. Disjoint(new)
    <3> SUFFICES ASSUME NEW i \in DOMAIN new, NEW j \in DOMAIN new, i # j
                 PROVE  Units(new[i]) \cap Units(new[j]) = {}
        BY DEF Disjoint
    <3>1. /\ from(i) \in DOMAIN list /\ from(j) \in DOMAIN list
          /\ from(i) # from(j) /\ from(i) # k + 1 /\ from(j) # k + 1
      BY <2>5
    <3>2. /\ Units(list[from(i)]) \cap Units(list[from(j)]) = {}
          /\ Units(list[from(i)]) \cap Units(list[k + 1]) = {}
          /\ Units(list[from(j)]) \cap Units(list[k + 1]) = {}
      BY <2>1, <3>1 DEF Disjoint
    <3>3. QED
      BY <2>6, <3>1, <3>2
  <2>8. UnitsOf(new) \subseteq UnitsOf(list)
    BY <2>1, <2>5, <2>6 DEF UnitsOf
  <2>9. Compress(list, k) = new
    BY <1>2 DEF Compress, new, big
  <2>10. QED
    BY <2>4, <2>7, <2>8, <2>9
<1>3. QED
  BY <1>1, <1>2

-------------------------------------------------------------------------------
(* The invariant *)

\* NoUnitTwice is not inductive: two blocks of the list that share a unit
\* would hand it out twice.
IInv == TypeOK /\ NoUnitTwice /\ Disjoint(free_mem)

LEMMA FreeUnitsOf == FreeUnits = UnitsOf(free_mem)
BY DEF FreeUnits, UnitsOf

LEMMA InitIInv == Init => IInv
<1> SUFFICES ASSUME Init PROVE IInv
    OBVIOUS
<1>1. /\ free_mem = <<Element(0, MemorySize)>> /\ DOMAIN held = {} /\ cuts = 0
      /\ held = EmptyBag
  BY DEF Init, EmptyBag, SetToBag
<1>2. /\ free_mem \in Seq(Elements) /\ DOMAIN free_mem = {1}
      /\ free_mem[1] = Element(0, MemorySize)
  BY <1>1, FreeListAssumption DEF Elements, Element
<1>3. Units(Element(0, MemorySize)) = Memory
  BY FreeListAssumption DEF Units, Element, Memory
<1>4. FreeUnits = Memory /\ HeldUnits = {}
  BY <1>1, <1>2, <1>3 DEF FreeUnits, HeldUnits
<1>5. held \in [DOMAIN held -> Nat \ {0}]
  BY <1>1 DEF EmptyBag, SetToBag
<1>6. TypeOK
  BY <1>1, <1>2, <1>4, <1>5, FreeListAssumption DEF TypeOK, Elements
<1>7. NoUnitTwice
  BY <1>1, <1>4 DEF NoUnitTwice
<1>8. Disjoint(free_mem)
  BY <1>2 DEF Disjoint
<1>9. QED
  BY <1>6, <1>7, <1>8 DEF IInv

\* What find_first makes of the first block and what it returns share no unit.
LEMMA CutUnits ==
    ASSUME NEW block \in Elements, NEW size \in Nat \ {0}, block.size >= size
    PROVE  LET elem == Element(block.start, size)
               rest == Element(block.start + size, block.size - size)
           IN /\ elem \in Elements /\ rest \in Elements
              /\ elem.start = block.start /\ elem.size = size /\ elem.start \in Units(elem)
              /\ Units(elem) \subseteq Units(block) /\ Units(rest) \subseteq Units(block)
              /\ Units(rest) \cap Units(elem) = {}
BY DEF Elements, Element, Units

\* What it makes of a block behind one that is too small has no units at all.
LEMMA WrongCutUnits ==
    ASSUME NEW before \in Elements, NEW size \in Nat \ {0}, before.size < size
    PROVE  LET rest == Element(before.start + size, before.size - size)
           IN rest \in Elements /\ Units(rest) = {}
BY DEF Elements, Element, Units

\* first_fit_alloc hands out the start of the block that fits, and what it
\* leaves of that block, or makes of it when it reads the wrong element, has
\* none of these units.
LEMMA AllocInv == ASSUME IInv, NEW size \in Sizes, FirstFitAlloc(size) PROVE IInv'
<1> USE DEF IInv
<1>1. PICK i \in DOMAIN free_mem :
          /\ FirstFit(i, size)
          /\ held' = BagAdd(held, Element(free_mem[i].start, size))
          /\ free_mem' = IF Rest(i, size).size = 0 THEN RemoveAt(free_mem, i)
                         ELSE ReplaceAt(free_mem, i, Rest(i, size))
          /\ i > 1 => cuts < MaxCuts
          /\ cuts' = IF i > 1 THEN cuts + 1 ELSE cuts
  BY DEF FirstFitAlloc
<1> DEFINE elem == Element(free_mem[i].start, size)
           rest == Rest(i, size)
<1>2. free_mem \in Seq(Elements) /\ size \in Nat \ {0}
  BY FreeListAssumption DEF TypeOK, Elements
<1>3. free_mem[i] \in Elements /\ free_mem[i].size >= size
  BY <1>1, <1>2 DEF FirstFit
<1>4. /\ elem \in Elements /\ rest \in Elements
      /\ elem.start = free_mem[i].start /\ elem.size = size /\ elem.start \in Units(elem)
      /\ Units(elem) \subseteq Units(free_mem[i])
      /\ Units(rest) \subseteq Units(free_mem[i])
      /\ Units(rest) \cap Units(elem) = {}
  <2>1. CASE i = 1
    <3>1. rest = Element(free_mem[i].start + size, free_mem[i].size - size)
      BY <2>1 DEF Rest
    <3> HIDE DEF rest
    <3>2. QED
      BY <1>2, <1>3, <3>1, CutUnits
  <2>2. CASE i # 1
    <3> DEFINE before == free_mem[i - 1]
    <3>1. i - 1 \in 1 .. i - 1 /\ i - 1 \in DOMAIN free_mem
      BY <1>2, <2>2
    <3>2. before \in Elements /\ before.size < size
      BY <1>1, <1>2, <3>1 DEF FirstFit
    <3>3. rest = Element(before.start + size, before.size - size)
      BY <2>2 DEF Rest
    <3> HIDE DEF rest, before
    <3>4. rest \in Elements /\ Units(rest) = {}
      BY <1>2, <3>2, <3>3, WrongCutUnits
    <3>5. QED
      BY <1>2, <1>3, <3>4, CutUnits
  <2>3. QED
    BY <2>1, <2>2
<1> HIDE DEF elem, rest
<1>5. /\ free_mem' \in Seq(Elements)
      /\ Disjoint(free_mem')
      /\ UnitsOf(free_mem') \subseteq UnitsOf(free_mem) \ Units(elem)
  <2>1. CASE rest.size = 0
    <3>1. free_mem' = RemoveAt(free_mem, i)
      BY <1>1, <2>1 DEF rest
    <3>2. QED
      BY <1>2, <1>4, <3>1, RemoveAtEffect, RemoveAtDisjoint
  <2>2. CASE rest.size # 0
    <3>1. free_mem' = ReplaceAt(free_mem, i, rest)
      BY <1>1, <2>2 DEF rest
    <3>2. UnitsOf(free_mem') \subseteq (UnitsOf(free_mem) \ Units(free_mem[i])) \cup Units(rest)
      BY <1>2, <1>4, <3>1, ReplaceAtDisjoint
    <3>3. Units(free_mem[i]) \subseteq UnitsOf(free_mem)
      BY DEF UnitsOf
    <3>4. QED
      BY <1>2, <1>4, <3>1, <3>2, <3>3, ReplaceAtDisjoint
  <2>3. QED
    BY <2>1, <2>2
<1>6. Units(elem) \subseteq FreeUnits /\ FreeUnits' \subseteq FreeUnits \ Units(elem)
  BY <1>4, <1>5 DEF FreeUnits, UnitsOf
<1>7. elem \notin DOMAIN held /\ \A e \in DOMAIN held : Units(e) \cap Units(elem) = {}
  <2>1. \A e \in DOMAIN held : Units(e) \subseteq HeldUnits
    BY DEF HeldUnits
  <2>2. QED
    BY <1>4, <1>6, <2>1 DEF NoUnitTwice
<1>8. /\ DOMAIN held' = DOMAIN held \cup {elem}
      /\ held'[elem] = 1
      /\ \A e \in DOMAIN held : held'[e] = held[e]
      /\ held' \in [DOMAIN held' -> Nat \ {0}]
  BY <1>1, <1>7 DEF BagAdd, TypeOK, elem
<1>9. HeldUnits' = HeldUnits \cup Units(elem)
  BY <1>8 DEF HeldUnits
<1>10. TypeOK'
  <2>1. cuts' \in 0 .. MaxCuts
    BY <1>1, FreeListAssumption DEF TypeOK
  <2>2. elem \in [start : Memory, size : Sizes]
    BY <1>4, <1>6 DEF TypeOK, Elements
  <2>3. QED
    BY <1>5, <1>6, <1>8, <1>9, <2>1, <2>2 DEF TypeOK, Elements
<1>11. NoUnitTwice'
  BY <1>6, <1>7, <1>8, <1>9 DEF NoUnitTwice
<1>12. QED
  BY <1>5, <1>10, <1>11

\* What comes back was in nobody else's hands and not in the list.
LEMMA FreeInv == ASSUME IInv, NEW elem \in DOMAIN held, FirstFitFree(elem) PROVE IInv'
<1> USE DEF IInv
<1>1. PICK k \in 0 .. Len(free_mem) :
          free_mem' = Compress(Compress(InsertAt(free_mem, k + 1, elem), k + 1), k)
  BY DEF FirstFitFree, InsertAndMerge
<1>2. held' = BagRemove(held, elem) /\ cuts' = cuts
  BY DEF FirstFitFree
<1>3. /\ free_mem \in Seq(Elements) /\ elem \in Elements
      /\ k \in Nat /\ k + 1 \in Nat /\ k + 1 \in 1 .. Len(free_mem) + 1
  BY <1>1, FreeListAssumption DEF TypeOK, Elements, Memory
<1>4. Units(elem) \cap UnitsOf(free_mem) = {} /\ Units(elem) \subseteq HeldUnits
  BY FreeUnitsOf DEF NoUnitTwice, HeldUnits
<1> DEFINE once == InsertAt(free_mem, k + 1, elem)
           twice == Compress(once, k + 1)
<1>5. /\ once \in Seq(Elements) /\ Disjoint(once)
      /\ UnitsOf(once) \subseteq UnitsOf(free_mem) \cup Units(elem)
  BY <1>3, <1>4, InsertAtDisjoint
<1> HIDE DEF once
<1>6. twice \in Seq(Elements) /\ Disjoint(twice) /\ UnitsOf(twice) \subseteq UnitsOf(once)
  BY <1>3, <1>5, CompressDisjoint
<1> HIDE DEF twice
<1>7. free_mem' = Compress(twice, k)
  BY <1>1 DEF once, twice
<1>8. /\ free_mem' \in Seq(Elements) /\ Disjoint(free_mem')
      /\ UnitsOf(free_mem') \subseteq UnitsOf(twice)
  BY <1>3, <1>6, <1>7, CompressDisjoint
<1>9. FreeUnits' \subseteq FreeUnits \cup Units(elem)
  BY <1>5, <1>6, <1>8 DEF FreeUnits, UnitsOf
<1>10. /\ DOMAIN held' = DOMAIN held \ {elem}
       /\ \A e \in DOMAIN held' : held'[e] = held[e]
       /\ held' \in [DOMAIN held' -> Nat \ {0}]
  BY <1>2 DEF BagRemove, NoUnitTwice, TypeOK
<1>11. HeldUnits' \subseteq HeldUnits /\ HeldUnits' \cap Units(elem) = {}
  BY <1>10 DEF HeldUnits, NoUnitTwice
<1>12. TypeOK'
  BY <1>2, <1>4, <1>8, <1>9, <1>10, <1>11 DEF TypeOK, Elements
<1>13. NoUnitTwice'
  BY <1>9, <1>10, <1>11 DEF NoUnitTwice
<1>14. QED
  BY <1>8, <1>12, <1>13

LEMMA NextIInv == IInv /\ [Next]_vars => IInv'
<1> SUFFICES ASSUME IInv, [Next]_vars PROVE IInv'
    OBVIOUS
<1>1. ASSUME NEW size \in Sizes, FirstFitAlloc(size) PROVE IInv'
  BY <1>1, AllocInv
<1>2. ASSUME NEW elem \in DOMAIN held, FirstFitFree(elem) PROVE IInv'
  BY <1>2, FreeInv
<1>3. CASE UNCHANGED vars
  BY <1>3 DEF vars, IInv, TypeOK, NoUnitTwice, Disjoint, FreeUnits, HeldUnits
<1>4. QED
  BY <1>1, <1>2, <1>3 DEF Next

LEMMA SpecIInv == Spec => []IInv
BY InitIInv, NextIInv, PTL DEF Spec

-------------------------------------------------------------------------------
(* The list while nothing was cut wrongly *)

\* The blocks have units, come in their order and do not touch, except that an
\* element of at may touch the one behind it.
OrderedBut(list, at) ==
    /\ \A i \in DOMAIN list : list[i].size > 0
    /\ \A i, j \in DOMAIN list :
          i < j => list[i].start + list[i].size <= list[j].start
    /\ \A i, j \in DOMAIN list :
          i < j /\ list[i].start + list[i].size = list[j].start => j = i + 1 /\ i \in at

\* A block that is taken out leaves the others in order and apart, and takes
\* its own units only.
LEMMA OrderedRemoveAt ==
    ASSUME NEW list \in Seq(Elements), OrderedBut(list, {}), NEW k \in DOMAIN list,
           Disjoint(list)
    PROVE  /\ OrderedBut(RemoveAt(list, k), {})
           /\ UnitsOf(RemoveAt(list, k)) = UnitsOf(list) \ Units(list[k])
<1> DEFINE new == RemoveAt(list, k)
           from(j) == IF j < k THEN j ELSE j + 1
<1>1. /\ new \in Seq(Elements)
      /\ DOMAIN new = 1 .. Len(list) - 1
      /\ \A j \in DOMAIN new : new[j] = list[from(j)]
  BY RemoveAtEffect
<1>2. /\ \A j \in DOMAIN new : from(j) \in DOMAIN list
      /\ \A i, j \in DOMAIN new : i < j => from(i) < from(j)
  BY <1>1
<1>3. \A j \in DOMAIN list \ {k} : \E i \in DOMAIN new : from(i) = j
  <2> SUFFICES ASSUME NEW j \in DOMAIN list \ {k}
               PROVE  \E i \in DOMAIN new : from(i) = j
      OBVIOUS
  <2>1. CASE j < k
    <3>1. j \in DOMAIN new /\ from(j) = j
      BY <1>1, <2>1
    <3>2. QED
      BY <3>1
  <2>2. CASE j > k
    <3>1. j - 1 \in DOMAIN new /\ from(j - 1) = j
      BY <1>1, <2>2
    <3>2. QED
      BY <3>1
  <2>3. QED
    BY <2>1, <2>2
<1> HIDE DEF new, from
<1>4. OrderedBut(new, {})
  BY <1>1, <1>2 DEF OrderedBut
<1>5. UnitsOf(list) \ Units(list[k]) \subseteq UnitsOf(new)
  <2> SUFFICES ASSUME NEW j \in DOMAIN list \ {k} PROVE Units(list[j]) \subseteq UnitsOf(new)
      BY DEF UnitsOf
  <2>1. QED
    BY <1>1, <1>3 DEF UnitsOf
<1>6. QED
  BY <1>4, <1>5, RemoveAtDisjoint DEF new

\* So does a first block that becomes shorter from the front.
LEMMA OrderedReplaceFirst ==
    ASSUME NEW list \in Seq(Elements), OrderedBut(list, {}), 1 \in DOMAIN list,
           NEW elem \in Elements, elem.size > 0, 
           elem.start + elem.size = list[1].start + list[1].size
    PROVE  /\ OrderedBut(ReplaceAt(list, 1, elem), {})
           /\ (UnitsOf(list) \ Units(list[1])) \cup Units(elem)
                 \subseteq UnitsOf(ReplaceAt(list, 1, elem))
<1> DEFINE new == ReplaceAt(list, 1, elem)
<1>1. /\ new \in Seq(Elements)
      /\ DOMAIN new = DOMAIN list
      /\ \A j \in DOMAIN new : new[j] = IF j = 1 THEN elem ELSE list[j]
  BY DEF ReplaceAt
<1> HIDE DEF new
<1>2. \A j \in DOMAIN new : new[j].size > 0
  BY <1>1 DEF OrderedBut
<1>3. \A i, j \in DOMAIN new :
         i < j => /\ new[i].start + new[i].size = list[i].start + list[i].size
                  /\ new[j].start = list[j].start
  BY <1>1
<1>4. OrderedBut(new, {})
  BY <1>1, <1>2, <1>3 DEF OrderedBut
<1>5. \A j \in DOMAIN list : Units(new[j]) \subseteq UnitsOf(new)
  BY <1>1 DEF UnitsOf
<1>6. (UnitsOf(list) \ Units(list[1])) \cup Units(elem) \subseteq UnitsOf(new)
  BY <1>1, <1>5 DEF UnitsOf
<1>7. QED
  BY <1>4, <1>6 DEF new

\* The loop of list_insert_and_merge finds the place in an ordered list: what
\* comes before it ends before the new element, what comes behind it begins
\* behind the new element.
LEMMA OrderedPlace ==
    ASSUME NEW list \in Seq(Elements), OrderedBut(list, {}),
           NEW elem \in Elements, elem.size > 0, Units(elem) \cap UnitsOf(list) = {},
           NEW k \in 0 .. Len(list), IsPlace(list, elem, k)
    PROVE  \A j \in DOMAIN list :
              /\ j <= k => list[j].start + list[j].size <= elem.start
              /\ j > k => elem.start + elem.size <= list[j].start
<1> SUFFICES ASSUME NEW j \in DOMAIN list
             PROVE  /\ j <= k => list[j].start + list[j].size <= elem.start
                    /\ j > k => elem.start + elem.size <= list[j].start
    OBVIOUS
<1>1. list[j] \in Elements /\ list[j].size > 0 /\ Units(elem) \cap Units(list[j]) = {}
  BY DEF OrderedBut, UnitsOf
<1>2. list[j].start \in Units(list[j]) /\ elem.start \in Units(elem)
  BY <1>1 DEF Elements, Units
<1>3. CASE j <= k
  <2>1. list[j].start <= elem.start
    <3>1. CASE j = 1
      <4>1. ~(list[1].start > elem.start)
        BY <1>3, <3>1 DEF IsPlace
      <4>2. PICK a \in Elements : a = list[j]
        BY <1>1
      <4>3. ~(a.start > elem.start)
        BY <3>1, <4>1, <4>2
      <4>4. a.start <= elem.start
        BY <4>3 DEF Elements
      <4>5. QED
        BY <4>2, <4>4
    <3>2. CASE j # 1
      <4>1. j \in 2 .. k
        BY <1>3, <3>2
      <4>2. list[j].start < elem.start
        BY <4>1 DEF IsPlace
      <4>3. QED
        BY <1>1, <4>2 DEF Elements
    <3>3. QED
      BY <3>1, <3>2
  <2>2. elem.start \notin Units(list[j])
    BY <1>1, <1>2
  <2>3. list[j].start + list[j].size <= elem.start
    BY <1>1, <2>1, <2>2 DEF Units, Elements
  <2>4. QED
    BY <1>3, <2>3
<1>4. CASE j > k
  <2>1. k + 1 \in DOMAIN list /\ list[k + 1] \in Elements /\ list[k + 1].size > 0
    BY <1>4 DEF OrderedBut
  <2>2. list[k + 1].start >= elem.start
    <3>1. CASE k = 0
      BY <2>1, <3>1 DEF IsPlace, Elements
    <3>2. CASE k # 0
      BY <2>1, <3>2 DEF IsPlace
    <3>3. QED
      BY <3>1, <3>2
  <2>3. list[j].start >= list[k + 1].start
    <3>1. CASE j = k + 1
      BY <1>1, <3>1 DEF Elements
    <3>2. CASE j # k + 1
      <4>1. list[k + 1].start + list[k + 1].size <= list[j].start
        BY <1>4, <2>1, <3>2 DEF OrderedBut
      <4>2. QED
        BY <1>1, <2>1, <4>1 DEF Elements
    <3>3. QED
      BY <3>1, <3>2
  <2>4. list[j].start \notin Units(elem)
    BY <1>1, <1>2
  <2>5. elem.start + elem.size <= list[j].start
    BY <1>1, <2>1, <2>2, <2>3, <2>4 DEF Units, Elements
  <2>6. QED
    BY <1>4, <2>5
<1>5. QED
  BY <1>3, <1>4

\* A block put in at its place may touch the one in front of it and the one
\* behind it, no other two touch.
LEMMA OrderedInsertAt ==
    ASSUME NEW list \in Seq(Elements), OrderedBut(list, {}),
           NEW elem \in Elements, elem.size > 0, NEW k \in 0 .. Len(list),
           \A j \in DOMAIN list :
              /\ j <= k => list[j].start + list[j].size <= elem.start
              /\ j > k => elem.start + elem.size <= list[j].start
    PROVE  /\ OrderedBut(InsertAt(list, k + 1, elem), {k, k + 1})
           /\ UnitsOf(list) \cup Units(elem) \subseteq UnitsOf(InsertAt(list, k + 1, elem))
<1> DEFINE new == InsertAt(list, k + 1, elem)
           from(j) == IF j < k + 1 THEN j ELSE j - 1
<1>1. /\ new \in Seq(Elements)
      /\ DOMAIN new = 1 .. Len(list) + 1
      /\ \A j \in DOMAIN new : new[j] = IF j = k + 1 THEN elem ELSE list[from(j)]
  <2>1. PICK n \in 1 .. Len(list) + 1 : n = k + 1
    OBVIOUS
  <2>2. /\ new \in Seq(Elements)
        /\ DOMAIN new = 1 .. Len(list) + 1
        /\ \A j \in 1 .. Len(list) + 1 : new[j] = IF j = k + 1 THEN elem ELSE list[from(j)]
    <3>1. /\ InsertAt(list, n, elem) \in Seq(Elements)
          /\ DOMAIN InsertAt(list, n, elem) = 1 .. Len(list) + 1
          /\ \A j \in 1 .. Len(list) + 1 :
                InsertAt(list, n, elem)[j] =
                    IF j = n THEN elem ELSE list[IF j < n THEN j ELSE j - 1]
      BY InsertAtEffect
    <3>2. QED
      BY <2>1, <3>1
  <2>3. QED
    BY <2>2
<1>2. /\ k + 1 \in DOMAIN new
      /\ \A j \in DOMAIN new \ {k + 1} :
            /\ from(j) \in DOMAIN list
            /\ j < k + 1 => from(j) <= k
            /\ j > k + 1 => from(j) > k
      /\ \A i, j \in DOMAIN new \ {k + 1} :
            /\ i < j => from(i) < from(j)
            /\ i < j /\ from(j) = from(i) + 1 => j = i + 1 \/ i = k
  BY <1>1
<1>3. \A j \in DOMAIN list : \E i \in DOMAIN new \ {k + 1} : from(i) = j
  <2> SUFFICES ASSUME NEW j \in DOMAIN list
               PROVE  \E i \in DOMAIN new \ {k + 1} : from(i) = j
      OBVIOUS
  <2>1. CASE j <= k
    <3>1. j \in DOMAIN new \ {k + 1} /\ from(j) = j
      BY <1>1, <2>1
    <3>2. QED
      BY <3>1
  <2>2. CASE j > k
    <3>1. j + 1 \in DOMAIN new \ {k + 1} /\ from(j + 1) = j
      BY <1>1, <2>2
    <3>2. QED
      BY <3>1
  <2>3. QED
    BY <2>1, <2>2
<1> HIDE DEF new, from
<1>4. \A j \in DOMAIN new : new[j].size > 0
  BY <1>1, <1>2 DEF OrderedBut
<1>5. ASSUME NEW i \in DOMAIN new, NEW j \in DOMAIN new, i < j
      PROVE  /\ new[i].start + new[i].size <= new[j].start
             /\ new[i].start + new[i].size = new[j].start => j = i + 1 /\ i \in {k, k + 1}
  <2>0. i \in Nat /\ j \in Nat /\ k \in Nat /\ DOMAIN new = 1 .. Len(list) + 1 /\ Len(list) \in Nat
    BY <1>1
  <2>1. CASE i = k + 1
    <3>1. new[i] = elem /\ new[j] = list[from(j)] /\ from(j) \in DOMAIN list /\ from(j) > k
      BY <1>1, <1>2, <1>5, <2>0, <2>1
    <3>2. elem.start + elem.size <= list[from(j)].start
      BY <3>1
    <3>3. from(j) = j - 1
      BY <1>5, <2>0, <2>1 DEF from
    <3>4. ASSUME j # i + 1 PROVE elem.start + elem.size < list[from(j)].start
      <4>1. k + 1 \in DOMAIN list /\ k + 1 < from(j) /\ k + 1 > k
        BY <1>5, <2>0, <2>1, <3>1, <3>3, <3>4
      <4>2. elem.start + elem.size <= list[k + 1].start /\ list[k + 1].size > 0
        BY <4>1 DEF OrderedBut
      <4>3. list[k + 1].start + list[k + 1].size <= list[from(j)].start
        BY <3>1, <4>1 DEF OrderedBut
      <4>4. list[k + 1] \in Elements /\ list[from(j)] \in Elements
        BY <3>1, <4>1
      <4>5. PICK a \in Elements : a = list[k + 1]
        BY <4>4
      <4>6. PICK b \in Elements : b = list[from(j)]
        BY <4>4
      <4>7. QED
        BY <4>2, <4>3, <4>5, <4>6 DEF Elements
    <3>5. list[from(j)] \in Elements
      BY <3>1
    <3>6. QED
      BY <2>1, <3>1, <3>2, <3>4, <3>5 DEF Elements
  <2>2. CASE j = k + 1
    <3>1. new[j] = elem /\ new[i] = list[from(i)] /\ from(i) \in DOMAIN list /\ from(i) <= k
      BY <1>1, <1>2, <1>5, <2>0, <2>2
    <3>2. list[from(i)].start + list[from(i)].size <= elem.start
      BY <3>1
    <3>3. from(i) = i
      BY <1>5, <2>0, <2>2 DEF from
    <3>4. ASSUME i # k PROVE list[from(i)].start + list[from(i)].size < elem.start
      <4>1. k \in DOMAIN list /\ from(i) < k /\ k <= k
        BY <1>5, <2>0, <2>2, <3>1, <3>3, <3>4
      <4>2. list[k].start + list[k].size <= elem.start /\ list[k].size > 0
        BY <4>1 DEF OrderedBut
      <4>3. list[from(i)].start + list[from(i)].size <= list[k].start
        BY <3>1, <4>1 DEF OrderedBut
      <4>4. list[k] \in Elements /\ list[from(i)] \in Elements
        BY <3>1, <4>1
      <4>5. QED
        BY <4>2, <4>3, <4>4 DEF Elements
    <3>5. list[from(i)] \in Elements
      BY <3>1
    <3>6. QED
      BY <2>2, <2>0, <3>1, <3>2, <3>4, <3>5 DEF Elements
  <2>3. CASE i # k + 1 /\ j # k + 1
    <3>1. /\ new[i] = list[from(i)] /\ new[j] = list[from(j)]
          /\ from(i) \in DOMAIN list /\ from(j) \in DOMAIN list /\ from(i) < from(j)
      BY <1>1, <1>2, <1>5, <2>3
    <3>2. QED
      BY <3>1 DEF OrderedBut
  <2>4. QED
    BY <2>1, <2>2, <2>3
<1>6. OrderedBut(new, {k, k + 1})
  BY <1>4, <1>5 DEF OrderedBut
<1>7. UnitsOf(list) \cup Units(elem) \subseteq UnitsOf(new)
  <2>1. Units(elem) \subseteq UnitsOf(new)
    BY <1>1, <1>2 DEF UnitsOf
  <2>2. ASSUME NEW j \in DOMAIN list PROVE Units(list[j]) \subseteq UnitsOf(new)
    <3>1. PICK i \in DOMAIN new \ {k + 1} : from(i) = j
      BY <1>3
    <3>2. new[i] = list[j]
      BY <1>1, <3>1
    <3>3. QED
      BY <3>2 DEF UnitsOf
  <2>3. UnitsOf(list) \subseteq UnitsOf(new)
    BY <2>2 DEF UnitsOf
  <2>4. QED
    BY <2>1, <2>3
<1>8. QED
  BY <1>6, <1>7 DEF new

\* Two blocks with units that touch have exactly the units of the block they
\* become.
LEMMA JoinUnits ==
    ASSUME NEW a \in Elements, NEW b \in Elements, a.start + a.size = b.start,
           a.size > 0, b.size > 0
    PROVE  Units(Element(a.start, a.size + b.size)) = Units(a) \cup Units(b)
BY DEF Elements, Element, Units

\* list_compress merges the last two elements that may touch.
LEMMA OrderedCompress ==
    ASSUME NEW list \in Seq(Elements), NEW k \in Nat, NEW at \in SUBSET (0 .. k),
           OrderedBut(list, at)
    PROVE  /\ OrderedBut(Compress(list, k), at \ {k})
           /\ UnitsOf(list) \subseteq UnitsOf(Compress(list, k))
<1>1. CASE ~Touch(list, k)
  <2>1. Compress(list, k) = list
    BY <1>1 DEF Compress
  <2>2. ASSUME NEW i \in DOMAIN list, NEW j \in DOMAIN list, i < j,
               list[i].start + list[i].size = list[j].start
        PROVE  j = i + 1 /\ i \in at \ {k}
    <3>1. j = i + 1 /\ i \in at
      BY <2>2 DEF OrderedBut
    <3>2. i \in 1 .. Len(list) - 1
      BY <3>1
    <3>3. QED
      BY <1>1, <2>2, <3>1, <3>2 DEF Touch
  <2>3. QED
    BY <2>1, <2>2 DEF OrderedBut
<1>2. CASE Touch(list, k)
  <2> DEFINE big == [list EXCEPT ![k].size = @ + list[k + 1].size]
             new == RemoveAt(big, k + 1)
             from(j) == IF j < k + 1 THEN j ELSE j + 1
  <2>1. /\ k \in DOMAIN list /\ k + 1 \in DOMAIN list
        /\ list[k] \in Elements /\ list[k + 1] \in Elements
        /\ list[k].start + list[k].size = list[k + 1].start
        /\ list[k].size > 0 /\ list[k + 1].size > 0
    BY <1>2 DEF Touch, OrderedBut
  <2>2. /\ big \in Seq(Elements) /\ DOMAIN big = DOMAIN list /\ Len(big) = Len(list)
        /\ big[k] = Element(list[k].start, list[k].size + list[k + 1].size)
        /\ \A j \in DOMAIN list \ {k} : big[j] = list[j]
    BY <2>1 DEF Elements, Element
  <2> HIDE DEF big
  <2>3. /\ Units(big[k]) = Units(list[k]) \cup Units(list[k + 1])
        /\ big[k].start = list[k].start /\ big[k].size > 0
        /\ big[k].start + big[k].size = list[k + 1].start + list[k + 1].size
    <3>1. big[k].start = list[k].start /\ big[k].size = list[k].size + list[k + 1].size
      BY <2>2 DEF Element
    <3>2. Units(big[k]) = Units(list[k]) \cup Units(list[k + 1])
      BY <2>1, <2>2, JoinUnits
    <3>3. QED
      BY <2>1, <3>1, <3>2 DEF Elements
  <2>4. /\ new \in Seq(Elements)
        /\ DOMAIN new = 1 .. Len(list) - 1
        /\ \A j \in 1 .. Len(list) - 1 : new[j] = big[from(j)]
    <3>1. /\ new \in Seq(Elements)
          /\ DOMAIN new = 1 .. Len(big) - 1
          /\ \A j \in 1 .. Len(big) - 1 : new[j] = big[IF j < k + 1 THEN j ELSE j + 1]
      <4>1. k + 1 \in DOMAIN big
        BY <2>1, <2>2
      <4>2. QED
        BY <2>2, <4>1, RemoveAtEffect
    <3>2. QED
      BY <2>2, <3>1
  <2>5. /\ \A j \in DOMAIN new : from(j) \in DOMAIN list /\ from(j) # k + 1
        /\ \A i, j \in DOMAIN new :
              i < j => /\ from(i) < from(j)
                       /\ i # k => (from(j) = from(i) + 1 => j = i + 1)
                       /\ i <= k => from(i) = i
                       /\ i >= k => k + 1 < from(j)
                       /\ i > k => from(i) > k + 1
    <3>1. k \in Nat /\ \A j \in DOMAIN new : j \in Nat /\ 1 <= j /\ j <= Len(list) - 1
      BY <2>4
    <3>2. Len(list) \in Nat /\ DOMAIN list = 1 .. Len(list)
      OBVIOUS
    <3>3. \A j \in DOMAIN new : from(j) \in DOMAIN list /\ from(j) # k + 1
      BY <3>1, <3>2
    <3> HIDE DEF new
    <3>4. QED
      BY <3>1, <3>3
  <2>6. \A j \in DOMAIN list \ {k + 1} : \E i \in DOMAIN new : from(i) = j
    <3> SUFFICES ASSUME NEW j \in DOMAIN list \ {k + 1}
                 PROVE  \E i \in DOMAIN new : from(i) = j
        OBVIOUS
    <3>1. CASE j < k + 1
      <4>1. j \in DOMAIN new /\ from(j) = j
        BY <2>1, <2>4, <3>1
      <4>2. QED
        BY <4>1
    <3>2. CASE j > k + 1
      <4>1. j - 1 \in DOMAIN new /\ from(j - 1) = j
        BY <2>1, <2>4, <3>2
      <4>2. QED
        BY <4>1
    <3>3. QED
      BY <2>1, <3>1, <3>2
  <2> HIDE DEF new, from
  <2>7. \A j \in DOMAIN new :
           /\ new[j] = big[from(j)] /\ new[j] \in Elements
           /\ new[j].size > 0 /\ new[j].start = list[from(j)].start
    <3> SUFFICES ASSUME NEW j \in DOMAIN new
                 PROVE  /\ new[j] = big[from(j)] /\ new[j] \in Elements
                        /\ new[j].size > 0 /\ new[j].start = list[from(j)].start
        OBVIOUS
    <3>1. new[j] = big[from(j)] /\ from(j) \in DOMAIN list
      BY <2>4, <2>5
    <3>2. CASE from(j) = k
      BY <2>3, <2>4, <3>1, <3>2
    <3>3. CASE from(j) # k
      BY <2>2, <2>4, <3>1, <3>3 DEF OrderedBut
    <3>4. QED
      BY <3>2, <3>3
  <2>8. ASSUME NEW i \in DOMAIN new, NEW j \in DOMAIN new, i < j
        PROVE  /\ new[i].start + new[i].size <= new[j].start
               /\ new[i].start + new[i].size = new[j].start => j = i + 1 /\ i \in at \ {k}
    <3>1. /\ from(i) \in DOMAIN list /\ from(j) \in DOMAIN list
          /\ from(i) < from(j) /\ new[j].start = list[from(j)].start
      BY <2>5, <2>7, <2>8
    <3>2. CASE from(i) = k
      <4>1. i = k
        BY <2>1, <2>4, <2>5, <2>8, <3>2
      <4>2. k + 1 < from(j)
        BY <2>1, <2>5, <2>8, <4>1
      <4>3. list[k + 1].start + list[k + 1].size <= list[from(j)].start
        BY <2>1, <3>1, <4>2 DEF OrderedBut
      <4>4. list[k + 1].start + list[k + 1].size # list[from(j)].start
        <5>1. k + 1 \notin at
          OBVIOUS
        <5>2. QED
          BY <2>1, <3>1, <4>2, <5>1 DEF OrderedBut
      <4>5. new[i] = big[k]
        BY <2>7, <3>2
      <4>6. QED
        BY <2>3, <3>1, <4>3, <4>4, <4>5
    <3>3. CASE from(i) # k
      <4>1. new[i] = list[from(i)]
        BY <2>2, <2>7, <3>1, <3>3
      <4>2. list[from(i)].start + list[from(i)].size <= list[from(j)].start
        BY <3>1 DEF OrderedBut
      <4>3. ASSUME list[from(i)].start + list[from(i)].size = list[from(j)].start
            PROVE  j = i + 1 /\ i \in at \ {k}
        <5>1. from(j) = from(i) + 1 /\ from(i) \in at
          BY <3>1, <4>3 DEF OrderedBut
        <5>2. i # k
          BY <2>1, <2>5, <2>8, <3>3
        <5>3. j = i + 1
          BY <2>5, <2>8, <5>1, <5>2
        <5>4. i < k
          <6>1. from(i) <= k /\ from(i) \in Nat
            BY <3>1, <5>1
          <6>2. i \in Nat /\ (i > k => from(i) > k + 1)
            BY <2>4, <2>5, <2>8
          <6>3. QED
            BY <5>2, <6>1, <6>2
        <5>5. from(i) = i
          BY <2>1, <2>4, <2>5, <2>8, <5>4
        <5>6. QED
          BY <5>1, <5>2, <5>3, <5>5
      <4>4. QED
        BY <3>1, <4>1, <4>2, <4>3
    <3>4. QED
      BY <3>2, <3>3
  <2>9. OrderedBut(new, at \ {k})
    BY <2>7, <2>8 DEF OrderedBut
  <2>10. UnitsOf(list) \subseteq UnitsOf(new)
    <3> SUFFICES ASSUME NEW j \in DOMAIN list PROVE Units(list[j]) \subseteq UnitsOf(new)
        BY DEF UnitsOf
    <3>1. CASE j \in {k, k + 1}
      <4>1. PICK i \in DOMAIN new : from(i) = k
        BY <2>1, <2>6
      <4>2. new[i] = big[k]
        BY <2>7, <4>1
      <4>3. QED
        BY <2>3, <3>1, <4>2 DEF UnitsOf
    <3>2. CASE j \notin {k, k + 1}
      <4>1. PICK i \in DOMAIN new : from(i) = j
        BY <2>6, <3>2
      <4>2. new[i] = list[j]
        BY <2>2, <2>7, <3>2, <4>1
      <4>3. QED
        BY <4>2 DEF UnitsOf
    <3>3. QED
      BY <3>1, <3>2
  <2>11. Compress(list, k) = new
    BY <1>2 DEF Compress, new, big
  <2>12. QED
    BY <2>9, <2>10, <2>11
<1>3. QED
  BY <1>1, <1>2

\* The blocks are apart and nothing is missing, as long as no cut was wrong.
ExactIn(list, taken, wrong) ==
    wrong = 0 => OrderedBut(list, {}) /\ Memory \subseteq UnitsOf(list) \cup taken

ExactInv == IInv /\ ExactIn(free_mem, HeldUnits, cuts)

\* The invariant speaks of every two blocks, ListIsExact of neighbours.
LEMMA ExactInvImplies == ExactInv => ListIsExact
<1> SUFFICES ASSUME ExactInv, cuts = 0
             PROVE  /\ FreeUnits \cup HeldUnits = Memory
                    /\ \A i \in DOMAIN free_mem : free_mem[i].size > 0
                    /\ \A i \in 1 .. Len(free_mem) - 1 :
                          free_mem[i].start + free_mem[i].size < free_mem[i + 1].start
    BY DEF ListIsExact
<1>1. OrderedBut(free_mem, {}) /\ Memory \subseteq UnitsOf(free_mem) \cup HeldUnits
  BY DEF ExactInv, ExactIn
<1>2. FreeUnits \cup HeldUnits = Memory
  BY <1>1, FreeUnitsOf DEF ExactInv, IInv, TypeOK
<1>3. free_mem \in Seq(Elements)
  BY DEF ExactInv, IInv, TypeOK, Elements
<1>4. ASSUME NEW i \in 1 .. Len(free_mem) - 1
      PROVE  free_mem[i].start + free_mem[i].size < free_mem[i + 1].start
  <2>1. i \in DOMAIN free_mem /\ i + 1 \in DOMAIN free_mem /\ i < i + 1
    BY <1>3
  <2>2. free_mem[i] \in Elements /\ free_mem[i + 1] \in Elements
    BY <1>3, <2>1
  <2>3. QED
    BY <1>1, <2>1, <2>2 DEF OrderedBut, Elements
<1>5. QED
  BY <1>1, <1>2, <1>4 DEF OrderedBut

\* The list begins with the whole memory.
LEMMA InitExact == Init => ExactInv
<1> SUFFICES ASSUME Init PROVE ExactInv
    OBVIOUS
<1>1. free_mem = <<Element(0, MemorySize)>>
  BY DEF Init
<1>2. DOMAIN free_mem = {1} /\ free_mem[1] = Element(0, MemorySize)
  BY <1>1
<1>3. Units(Element(0, MemorySize)) = Memory /\ Element(0, MemorySize).size > 0
  BY FreeListAssumption DEF Units, Element, Memory
<1>4. OrderedBut(free_mem, {})
  BY <1>2, <1>3 DEF OrderedBut
<1>5. Memory \subseteq UnitsOf(free_mem)
  BY <1>2, <1>3 DEF UnitsOf
<1>6. QED
  BY <1>4, <1>5, InitIInv DEF ExactInv, ExactIn

\* The first block becomes shorter from the front, by what the caller gets.
LEMMA AllocExact ==
    ASSUME ExactInv, NEW size \in Sizes, FirstFitAlloc(size), cuts' = 0
    PROVE  OrderedBut(free_mem', {}) /\ Memory \subseteq UnitsOf(free_mem') \cup HeldUnits'
<1>1. PICK i \in DOMAIN free_mem :
          /\ FirstFit(i, size)
          /\ held' = BagAdd(held, Element(free_mem[i].start, size))
          /\ free_mem' = IF Rest(i, size).size = 0 THEN RemoveAt(free_mem, i)
                         ELSE ReplaceAt(free_mem, i, Rest(i, size))
          /\ cuts' = IF i > 1 THEN cuts + 1 ELSE cuts
  BY DEF FirstFitAlloc
<1>2. /\ free_mem \in Seq(Elements) /\ size \in Nat \ {0} /\ cuts \in Nat
      /\ held \in [DOMAIN held -> Nat \ {0}] /\ Disjoint(free_mem)
  BY FreeListAssumption DEF ExactInv, IInv, TypeOK, Elements
<1>3. i = 1 /\ cuts = 0 /\ 1 \in DOMAIN free_mem
  BY <1>1, <1>2
<1>4. OrderedBut(free_mem, {}) /\ Memory \subseteq UnitsOf(free_mem) \cup HeldUnits
  BY <1>3 DEF ExactInv, ExactIn
<1>5. PICK first \in Elements : first = free_mem[1] /\ first.size >= size
  <2>1. free_mem[1] \in Elements
    BY <1>2, <1>3
  <2>2. free_mem[1].size >= size
    BY <1>1, <1>3 DEF FirstFit
  <2>3. QED
    BY <2>1, <2>2
<1>6. PICK elem \in Elements :
          elem = Element(first.start, size) /\ elem.start = first.start /\ elem.size = size
  <2>1. /\ Element(first.start, size) \in Elements
        /\ Element(first.start, size).start = first.start
        /\ Element(first.start, size).size = size
    BY <1>2, <1>5 DEF Element, Elements
  <2>2. QED
    BY <2>1
<1>7. PICK rest \in Elements :
          /\ rest = Rest(1, size)
          /\ rest.start = first.start + size /\ rest.size = first.size - size
  <2>1. Rest(1, size) = Element(first.start + size, first.size - size)
    BY <1>5 DEF Rest
  <2>2. Element(first.start + size, first.size - size) \in Elements
    BY <1>2, <1>5 DEF Element, Elements
  <2>3. /\ Element(first.start + size, first.size - size).start = first.start + size
        /\ Element(first.start + size, first.size - size).size = first.size - size
    BY DEF Element
  <2>4. QED
    BY <2>1, <2>2, <2>3
<1>8. Units(first) = Units(elem) \cup Units(rest)
  <2>1. /\ first.start \in Int /\ first.size \in Int /\ size \in Int
        /\ first.size >= size /\ size > 0
    BY <1>2, <1>5 DEF Elements
  <2>2. Units(elem) = first.start .. first.start + size - 1
    BY <1>6 DEF Units
  <2>3. Units(rest) = first.start + size .. first.start + first.size - 1
    <3>1. Units(rest) = rest.start .. rest.start + rest.size - 1
      BY DEF Units
    <3>2. rest.start + rest.size - 1 = first.start + first.size - 1
      BY <1>7, <2>1
    <3>3. QED
      BY <1>7, <3>1, <3>2
  <2>4. Units(first) = first.start .. first.start + first.size - 1
    BY DEF Units
  <2>5. QED
    BY <2>1, <2>2, <2>3, <2>4
<1>9. HeldUnits' = HeldUnits \cup Units(elem)
  <2>1. DOMAIN held' = DOMAIN held \cup {elem}
    BY <1>1, <1>2, <1>3, <1>5, <1>6 DEF BagAdd
  <2>2. QED
    BY <2>1 DEF HeldUnits
<1>10. /\ OrderedBut(free_mem', {})
       /\ (UnitsOf(free_mem) \ Units(first)) \cup Units(rest) \subseteq UnitsOf(free_mem')
  <2>1. CASE rest.size = 0
    <3>1. free_mem' = RemoveAt(free_mem, 1)
      BY <1>1, <1>3, <1>7, <2>1
    <3>2. Units(rest) = {}
      BY <1>7, <2>1 DEF Units, Elements
    <3>3. QED
      BY <1>2, <1>3, <1>4, <1>5, <3>1, <3>2, OrderedRemoveAt
  <2>2. CASE rest.size # 0
    <3>1. free_mem' = ReplaceAt(free_mem, 1, rest)
      BY <1>1, <1>3, <1>7, <2>2
    <3>2. rest.size > 0 /\ rest.start + rest.size = first.start + first.size
      BY <1>2, <1>5, <1>7, <2>2 DEF Elements
    <3>3. QED
      BY <1>2, <1>3, <1>4, <1>5, <3>1, <3>2, OrderedReplaceFirst
  <2>3. QED
    BY <2>1, <2>2
<1>11. QED
  BY <1>4, <1>8, <1>9, <1>10

\* Two merges are enough to have the blocks apart again.
LEMMA FreeExact ==
    ASSUME ExactInv, NEW elem \in DOMAIN held, FirstFitFree(elem), cuts' = 0
    PROVE  OrderedBut(free_mem', {}) /\ Memory \subseteq UnitsOf(free_mem') \cup HeldUnits'
<1>1. PICK k \in 0 .. Len(free_mem) :
          /\ IsPlace(free_mem, elem, k)
          /\ free_mem' = Compress(Compress(InsertAt(free_mem, k + 1, elem), k + 1), k)
  BY DEF FirstFitFree, InsertAndMerge
<1>2. held' = BagRemove(held, elem) /\ cuts = 0
  BY DEF FirstFitFree
<1>3. /\ free_mem \in Seq(Elements) /\ elem \in Elements /\ elem.size > 0
      /\ k \in Nat /\ k + 1 \in Nat /\ k + 1 \in 1 .. Len(free_mem) + 1
      /\ Disjoint(free_mem)
  BY <1>1, FreeListAssumption DEF ExactInv, IInv, TypeOK, Elements, Memory
<1>4. OrderedBut(free_mem, {}) /\ Memory \subseteq UnitsOf(free_mem) \cup HeldUnits
  BY <1>2 DEF ExactInv, ExactIn
<1>5. Units(elem) \cap UnitsOf(free_mem) = {}
  BY FreeUnitsOf DEF ExactInv, IInv, NoUnitTwice, HeldUnits
<1>6. PICK once \in Seq(Elements) :
          /\ once = InsertAt(free_mem, k + 1, elem) /\ Disjoint(once)
          /\ OrderedBut(once, {k, k + 1})
          /\ UnitsOf(free_mem) \cup Units(elem) \subseteq UnitsOf(once)
  <2>1. \A j \in DOMAIN free_mem :
           /\ j <= k => free_mem[j].start + free_mem[j].size <= elem.start
           /\ j > k => elem.start + elem.size <= free_mem[j].start
    BY <1>1, <1>3, <1>4, <1>5, OrderedPlace
  <2>2. /\ InsertAt(free_mem, k + 1, elem) \in Seq(Elements)
        /\ Disjoint(InsertAt(free_mem, k + 1, elem))
    BY <1>3, <1>5, InsertAtDisjoint
  <2>3. QED
    BY <1>3, <1>4, <2>1, <2>2, OrderedInsertAt
<1>7. PICK twice \in Seq(Elements) :
          /\ twice = Compress(once, k + 1)
          /\ OrderedBut(twice, {k}) /\ UnitsOf(once) \subseteq UnitsOf(twice)
  <2>1. {k, k + 1} \in SUBSET (0 .. k + 1) /\ {k, k + 1} \ {k + 1} = {k}
    BY <1>3
  <2>2. Compress(once, k + 1) \in Seq(Elements)
    BY <1>3, <1>6, CompressDisjoint
  <2>3. /\ OrderedBut(Compress(once, k + 1), {k, k + 1} \ {k + 1})
        /\ UnitsOf(once) \subseteq UnitsOf(Compress(once, k + 1))
    BY <1>3, <1>6, <2>1, OrderedCompress
  <2>4. QED
    BY <2>1, <2>2, <2>3
<1>8. free_mem' = Compress(twice, k)
  BY <1>1, <1>6, <1>7
<1>9. OrderedBut(free_mem', {}) /\ UnitsOf(twice) \subseteq UnitsOf(free_mem')
  <2>1. {k} \in SUBSET (0 .. k) /\ {k} \ {k} = {}
    BY <1>3
  <2>2. /\ OrderedBut(Compress(twice, k), {k} \ {k})
        /\ UnitsOf(twice) \subseteq UnitsOf(Compress(twice, k))
    BY <1>3, <1>7, <2>1, OrderedCompress
  <2>3. QED
    BY <1>8, <2>1, <2>2
<1>10. HeldUnits \subseteq HeldUnits' \cup Units(elem)
  <2>1. DOMAIN held' = DOMAIN held \ {elem}
    BY <1>2 DEF BagRemove, ExactInv, IInv, NoUnitTwice
  <2>2. QED
    BY <2>1 DEF HeldUnits
<1>11. QED
  BY <1>4, <1>6, <1>7, <1>9, <1>10

\* No step spoils the list but the cut of a block behind the first one.
LEMMA NextExact == ExactInv /\ [Next]_vars => ExactInv'
<1> SUFFICES ASSUME ExactInv, [Next]_vars PROVE ExactInv'
    OBVIOUS
<1>1. IInv'
  BY NextIInv DEF ExactInv
<1>2. ASSUME cuts' = 0
      PROVE  OrderedBut(free_mem', {}) /\ Memory \subseteq UnitsOf(free_mem') \cup HeldUnits'
  <2>1. ASSUME NEW size \in Sizes, FirstFitAlloc(size)
        PROVE  OrderedBut(free_mem', {}) /\ Memory \subseteq UnitsOf(free_mem') \cup HeldUnits'
    BY <1>2, <2>1, AllocExact
  <2>2. ASSUME NEW elem \in DOMAIN held, FirstFitFree(elem)
        PROVE  OrderedBut(free_mem', {}) /\ Memory \subseteq UnitsOf(free_mem') \cup HeldUnits'
    BY <1>2, <2>2, FreeExact
  <2>3. CASE UNCHANGED vars
    BY <1>2, <2>3 DEF vars, ExactInv, ExactIn, HeldUnits
  <2>4. QED
    BY <2>1, <2>2, <2>3 DEF Next
<1>3. QED
  BY <1>1, <1>2 DEF ExactInv, ExactIn

-------------------------------------------------------------------------------
(* The theorems *)

\* Blocks are handed out, and kept in the list, inside the memory only, for a
\* memory of any size.
THEOREM TypeCorrect == Spec => []TypeOK
BY SpecIInv, PTL DEF IInv

\* first_fit_alloc never hands out a unit that somebody has, and the list
\* never holds one, however often find_first has cut the wrong block: its
\* error can only lose memory.
THEOREM NoUnitTwiceHolds == Spec => []NoUnitTwice
BY SpecIInv, PTL DEF IInv

\* As long as every allocation was served by the first block, the list is
\* sorted, blocks that touch are merged and no unit is missing from it, after
\* any number of allocations and of blocks given back in any order: it is only
\* the cut of a block behind the first one that spoils what sl_list.c promises.
THEOREM ListIsExactHolds == Spec => []ListIsExact
<1>1. Init => ExactInv
  BY InitExact
<1>2. ExactInv /\ [Next]_vars => ExactInv'
  BY NextExact
<1>3. ExactInv => ListIsExact
  BY ExactInvImplies
<1>4. QED
  BY <1>1, <1>2, <1>3, PTL DEF Spec

===============================================================================
