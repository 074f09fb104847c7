------------------------------- MODULE TestList --------------------------------
(*****************************************************************************)
(* test_list.c: elements are put into an empty list one by one, all with     *)
(* list_append or all with list_insert, and the list is deleted.  (The third *)
(* test, of list_insert_and_merge, is FreeList's.)                           *)
(*                                                                           *)
(* Simplifications: an element is its start, in blocks of 64, and no two     *)
(* start at the same place; malloc succeeds.  The tests are of one order of  *)
(* five elements, here they are of any.                                      *)
(*                                                                           *)
(* A definition named Mutant... is a plausible bug: what the definition that *)
(* follows it would be if the code were wrong.                               *)
(*****************************************************************************)
EXTENDS Naturals, Sequences

LOCAL INSTANCE SequencesExt

CONSTANT TestStarts    \* where an element may start

ASSUME TestListAssumption == TestStarts \subseteq Nat

VARIABLES
    test,    \* "choose", then "append" or "insert", "deleted" in the end
    list,    \* the list, the first element first
    inserted \* history: the elements that were to be put into it

testVars == <<test, list, inserted>>

TestInit == test = "choose" /\ list = <<>> /\ inserted = <<>>

\* main reads which test it is to be.
Choose == test = "choose" /\ test' \in {"append", "insert"} /\ UNCHANGED <<list, inserted>>

ListAppend(elem) == list' = Append(list, elem)

\* The loop looks at the element it stands on, and goes one too far.
MutantStops(i, elem) ==
    /\ i \in 1 .. Len(list) - 1
    /\ list[i] >= elem
    /\ \A j \in 1 .. i - 1 : list[j] < elem

\* The element behind which the loop stops: the next one starts higher.
Stops(i, elem) ==
    /\ i \in 1 .. Len(list) - 1
    /\ list[i + 1] >= elem
    /\ \A j \in 2 .. i : list[j] < elem

\* When the loop reaches the last element it ends, and the new one is nowhere.
ListInsert(elem) ==
    IF list = <<>> \/ list[1] > elem THEN list' = InsertAt(list, 1, elem)
    ELSE \/ \E i \in DOMAIN list : Stops(i, elem) /\ list' = InsertAt(list, i + 1, elem)
         \/ (\A i \in DOMAIN list : ~Stops(i, elem)) /\ UNCHANGED list

TestElement ==
    \E elem \in TestStarts \ ToSet(inserted) :
       /\ inserted' = Append(inserted, elem)
       /\ \/ test = "append" /\ ListAppend(elem)
          \/ test = "insert" /\ ListInsert(elem)
       /\ UNCHANGED test

ListDelete ==
    /\ test \in {"append", "insert"} /\ inserted # <<>>
    /\ test' = "deleted" /\ list' = <<>>
    /\ UNCHANGED inserted

TestNext == Choose \/ TestElement \/ ListDelete

TestSpec == TestInit /\ [][TestNext]_testVars

-------------------------------------------------------------------------------
(* Properties *)

\* sl_list.c:67-71: an element is to be inserted behind the last one that starts
\* before it.  However the elements come, the list stays in order, as each search
\* assumes of the one before; nothing gets into it from elsewhere, and it has no
\* gaps: it has each element inserted that starts no later than its last one.
InsertKeepsOrder ==
    test = "insert" =>
        /\ \A i, j \in DOMAIN list : i < j => list[i] < list[j]
        /\ ToSet(list) \subseteq ToSet(inserted)
        /\ inserted # <<>> =>
              /\ list # <<>>
              /\ \A elem \in ToSet(inserted) : elem <= list[Len(list)] => elem \in ToSet(list)

===============================================================================
