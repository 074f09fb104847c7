----------------------------- MODULE RoutingTable ------------------------------
(*****************************************************************************)
(* cidr.c: a table of random network prefixes is filled from its last entry  *)
(* downwards, sorted by address and searched for an address with bsearch,    *)
(* whose comparison looks at the prefix of each entry only.  The entry that  *)
(* is found and the matching ones in front of it are printed.                *)
(*                                                                           *)
(* Simplifications: an address has Width bits, a mask is the number of its   *)
(* leading ones, random numbers are any numbers of their range; the          *)
(* interface of an entry is left out, and so is a table without entries, in  *)
(* which createSearch divides by zero.                                       *)
(*                                                                           *)
(* A definition named Mutant... is a plausible bug: what the definition that *)
(* follows it would be if the code were wrong.                               *)
(*****************************************************************************)
EXTENDS Integers, Bits

CONSTANTS
    Width,      \* bits of an address, 32 in the source
    Lens,       \* lengths of the first prefix of an address, 8 to 30 in the source
    LongerLens, \* lengths of those that may follow it, 16 to 29 in the source
    tableSize,  \* entries of the table
    MaxBelow    \* bound on how far below the table doSearch reads

ASSUME RoutingAssumption ==
    /\ Width \in Nat /\ Width >= 3
    /\ Lens \subseteq 0 .. Width
    /\ LongerLens \subseteq 0 .. Width
    /\ tableSize \in Nat \ {0}
    /\ MaxBelow \in Nat

VARIABLES
    pc,       \* where the program is
    table,    \* the entries, a function on the indices that have been written
    num,      \* generate: the index that is written next
    last,     \* makeEntry: the entry it has just written, or None
    addr,     \* the address that is searched
    l, u,     \* bsearch: the entries left are those from l up to u - 1
    result,   \* index of the entry that was found, and of the last one printed
    printed   \* indices doSearch has printed

vars == <<pc, table, num, last, addr, l, u, result, printed>>

\* makeRandomIP takes addresses of the classes A, B and C only.
Addresses == 0 .. 7 * Pow2[Width - 3] - 1

None == [ip |-> 0, len |-> -1]

NetEntry == [ip : Addresses, len : Lens \cup LongerLens]

\* What a mask of len ones leaves of the address.
Prefix(ip, len) == ip \div Pow2[Width - len]

Masked(e) == [e EXCEPT !.ip = Prefix(e.ip, e.len) * Pow2[Width - e.len]]

Slots == 0 .. tableSize - 1

Init ==
    /\ pc = "generate"
    /\ table = [i \in {} |-> None]
    /\ num = tableSize - 1
    /\ last = None
    /\ addr = 0
    /\ l = 0 /\ u = 0 /\ result = -1
    /\ printed = {}

-------------------------------------------------------------------------------
(* generate *)

\* The loop of makeEntry: the same address again, with a longer prefix.  It
\* does not look at the index, and may go on below the table.
MakeEntry ==
    /\ pc = "generate"
    /\ num >= 0 \/ last # None
    /\ \E e \in NetEntry :
          /\ IF last = None THEN e.len \in Lens
             ELSE e.ip = last.ip /\ e.len \in LongerLens /\ e.len > last.len
          /\ table' = [i \in DOMAIN table \cup {num} |-> IF i = num THEN e ELSE table[i]]
          /\ last' = e
    /\ num' = num - 1
    /\ UNCHANGED <<pc, addr, l, u, result, printed>>

\* The next length is not greater: makeEntry returns how many it has written.
MakeEntryReturns ==
    /\ pc = "generate" /\ last # None
    /\ last' = None
    /\ UNCHANGED <<pc, table, num, addr, l, u, result, printed>>

\* The difference is taken as an int: addresses of the upper half come first.
MutantLess(x, y) ==
    LET signed(ip) == IF 2 * ip >= Pow2[Width] THEN ip - Pow2[Width] ELSE ip
    IN signed(x) < signed(y)

\* The order of lt.
Less(x, y) == x < y

\* qsort puts entries with the same address in any order.  Entries below the
\* table are not sorted.
Sort ==
    /\ pc = "generate" /\ last = None /\ num < 0
    /\ \E from \in [Slots -> Slots] :
          /\ \A i, j \in Slots : from[i] = from[j] => i = j
          /\ \A i \in 1 .. tableSize - 1 : ~Less(table[from[i]].ip, table[from[i - 1]].ip)
          /\ table' = [i \in DOMAIN table |-> IF i \in Slots THEN table[from[i]] ELSE table[i]]
    /\ pc' = "print"
    /\ UNCHANGED <<num, last, addr, l, u, result, printed>>

\* printEntry cuts the address of the entry it prints down to its prefix.
PrintTable ==
    /\ pc = "print"
    /\ table' = [i \in DOMAIN table |-> IF i \in Slots THEN Masked(table[i]) ELSE table[i]]
    /\ pc' = "create"
    /\ UNCHANGED <<num, last, addr, l, u, result, printed>>

-------------------------------------------------------------------------------
(* createSearch and doSearch *)

\* Any address with the prefix of an entry.
CreateSearch ==
    /\ pc = "create"
    /\ \E i \in Slots : \E a \in Addresses :
          /\ Prefix(a, table[i].len) = Prefix(table[i].ip, table[i].len)
          /\ addr' = a
    /\ l' = 0 /\ u' = tableSize
    /\ pc' = "search"
    /\ UNCHANGED <<table, num, last, result, printed>>

\* maskedCompare of the address with an entry.
KeyOf(e) == Prefix(addr, e.len)
PrefixOf(e) == Prefix(e.ip, e.len)
Matches(e) == KeyOf(e) = PrefixOf(e)

Middle == (l + u) \div 2

SearchBelow ==
    /\ pc = "search" /\ l < u
    /\ KeyOf(table[Middle]) < PrefixOf(table[Middle])
    /\ u' = Middle
    /\ UNCHANGED <<pc, table, num, last, addr, l, result, printed>>

SearchAbove ==
    /\ pc = "search" /\ l < u
    /\ KeyOf(table[Middle]) > PrefixOf(table[Middle])
    /\ l' = Middle + 1
    /\ UNCHANGED <<pc, table, num, last, addr, u, result, printed>>

SearchFinds ==
    /\ pc = "search" /\ l < u
    /\ Matches(table[Middle])
    /\ result' = Middle
    /\ printed' = {Middle}
    /\ pc' = "walk"
    /\ UNCHANGED <<table, num, last, addr, l, u>>

SearchFails ==
    /\ pc = "search" /\ l = u
    /\ pc' = "failed"
    /\ UNCHANGED <<table, num, last, addr, l, u, result, printed>>

\* The loop that goes on to the entry in front of the last one printed.  It
\* does not stop at the table's first entry: what lies in front of that is
\* what makeEntry has written there, or memory that may match or not.
Walk ==
    /\ pc = "walk" /\ result > -MaxBelow
    /\ result - 1 \in DOMAIN table => Matches(table[result - 1])
    /\ result' = result - 1
    /\ printed' = printed \cup {result - 1}
    /\ table' = [i \in DOMAIN table |-> IF i = result - 1 THEN Masked(table[i]) ELSE table[i]]
    /\ UNCHANGED <<pc, num, last, addr, l, u>>

WalkEnds ==
    /\ pc = "walk"
    /\ result - 1 \in DOMAIN table => ~Matches(table[result - 1])
    /\ pc' = "done"
    /\ UNCHANGED <<table, num, last, addr, l, u, result, printed>>

Next ==
    \/ MakeEntry \/ MakeEntryReturns \/ Sort \/ PrintTable \/ CreateSearch
    \/ SearchBelow \/ SearchAbove \/ SearchFinds \/ SearchFails
    \/ Walk \/ WalkEnds

Spec == Init /\ [][Next]_vars

-------------------------------------------------------------------------------
(* Properties *)

\* createSearch takes an address from a prefix of the table.  bsearch, on a
\* table that was sorted by whole addresses and cut down to prefixes since,
\* misses it only if a longer prefix without the address lies inside every
\* one that has it: in a table without nested prefixes it is found.
MissIsNested ==
    pc = "failed" =>
        \A i \in Slots : Matches(table[i]) =>
            \E j \in Slots :
               /\ ~Matches(table[j])
               /\ table[j].len > table[i].len
               /\ Prefix(table[j].ip, table[i].len) = PrefixOf(table[i])

===============================================================================
