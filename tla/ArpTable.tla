------------------------------- MODULE ArpTable --------------------------------
(*****************************************************************************)
(* arpjob.c: a table of random addresses, sorted by address, in which the    *)
(* oldest entry is replaced again and again, and which is searched with      *)
(* bsearch in the end.  lt returns the difference of two addresses, which    *)
(* are unsigned, as an int: it puts x before y if x is less than half the    *)
(* range of addresses in front of y, counted around.  That is no order when  *)
(* the addresses of the table go all the way round.                          *)
(*                                                                           *)
(* Simplifications: an address has ArpWidth bits and may be any number of    *)
(* them; MACs are left out; the table has at least one entry, and the entry  *)
(* that is looked up is one of the table; qsort with a comparison that is no *)
(* order leaves the entries in any order.                                    *)
(*                                                                           *)
(* A definition named Mutant... is a plausible bug: what the definition that *)
(* follows it would be if the code were wrong.                               *)
(*****************************************************************************)
EXTENDS Integers, Sequences, Bits, Sorting

CONSTANTS
    ArpWidth,   \* bits of an address, 32 in the source
    ArpSize,    \* entries of the table
    ArpLookup,  \* the entry that is looked up, the fifth in the source
    MaxReplaced \* bound on the replacements

ASSUME ArpAssumption ==
    /\ ArpWidth \in Nat \ {0}
    /\ ArpSize \in Nat \ {0}
    /\ ArpLookup \in 1 .. ArpSize
    /\ MaxReplaced \in Nat

VARIABLES
    arp,      \* the table, the entries that have been made
    latest,   \* the age of the next entry
    arpPhase, \* "generate", "replace", "search" or "looked_up"
    key,      \* the address that is looked up
    low,      \* bsearch: the entries left are those from low ...
    high,     \* ... up to high - 1
    hit       \* the entry bsearch found, 0 if none

lookup == <<key, low, high, hit>>
arpVars == <<arp, latest, arpPhase, lookup>>

ArpAddresses == 0 .. Pow2[ArpWidth] - 1

ArpInit ==
    /\ arp = <<>> /\ latest = 0 /\ arpPhase = "generate"
    /\ key = 0 /\ low = 1 /\ high = 1 /\ hit = 0

\* lt(x, y) < 0.
Lt(x, y) == (x - y) % Pow2[ArpWidth] >= Pow2[ArpWidth - 1]

\* The newest entry comes first.
MutantOldest(e, f) == e.age > f.age

Oldest(e, f) == e.age < f.age

-------------------------------------------------------------------------------
Sorted(s) == \A i, j \in DOMAIN s : i < j => ~Lt(s[j].ip, s[i].ip) \/ s[i].ip = s[j].ip

\* What qsort with lt may leave of s.
SortedByAddress(s) ==
    LET sorted == {t \in Arrangements(s) : Sorted(t)}
    IN IF sorted # {} THEN sorted ELSE Arrangements(s)

Entry(ip) == [ip |-> ip, age |-> latest]

\* generate fills the table from the last entry to the first.
Generate ==
    /\ arpPhase = "generate" /\ Len(arp) < ArpSize
    /\ \E ip \in ArpAddresses : arp' = <<Entry(ip)>> \o arp
    /\ latest' = latest + 1
    /\ UNCHANGED <<arpPhase, lookup>>

Generated ==
    /\ arpPhase = "generate" /\ Len(arp) = ArpSize
    /\ arp' \in SortedByAddress(arp)
    /\ arpPhase' = "replace"
    /\ UNCHANGED <<latest, lookup>>

\* The new entry stays where it is made.
MutantReplace1 ==
    /\ arpPhase = "replace"
    /\ latest < ArpSize + MaxReplaced
    /\ \E i \in DOMAIN arp, ip \in ArpAddresses :
          /\ \A j \in DOMAIN arp \ {i} : Oldest(arp[i], arp[j])
          /\ arp' = [arp EXCEPT ![i] = Entry(ip)]
    /\ latest' = latest + 1
    /\ UNCHANGED <<arpPhase, lookup>>

\* replace1: the first entry in the order of ages is made anew.
Replace1 ==
    /\ arpPhase = "replace"
    /\ latest < ArpSize + MaxReplaced
    /\ \E i \in DOMAIN arp, ip \in ArpAddresses :
          /\ \A j \in DOMAIN arp \ {i} : Oldest(arp[i], arp[j])
          /\ arp' \in SortedByAddress([arp EXCEPT ![i] = Entry(ip)])
    /\ latest' = latest + 1
    /\ UNCHANGED <<arpPhase, lookup>>

\* bsearch for the address of an entry begins.
LookUp ==
    /\ arpPhase = "replace"
    /\ key' = arp[ArpLookup].ip
    /\ low' = 1 /\ high' = ArpSize + 1
    /\ arpPhase' = "search"
    /\ UNCHANGED <<arp, latest, hit>>

Half == (low + high) \div 2

LookBelow ==
    /\ arpPhase = "search" /\ low < high
    /\ Lt(key, arp[Half].ip)
    /\ high' = Half
    /\ UNCHANGED <<arp, latest, arpPhase, key, low, hit>>

LookAbove ==
    /\ arpPhase = "search" /\ low < high
    /\ key # arp[Half].ip /\ ~Lt(key, arp[Half].ip)
    /\ low' = Half + 1
    /\ UNCHANGED <<arp, latest, arpPhase, key, high, hit>>

LookFinds ==
    /\ arpPhase = "search" /\ low < high
    /\ key = arp[Half].ip
    /\ hit' = Half
    /\ arpPhase' = "looked_up"
    /\ UNCHANGED <<arp, latest, key, low, high>>

LookFails ==
    /\ arpPhase = "search" /\ low = high
    /\ arpPhase' = "looked_up"
    /\ UNCHANGED <<arp, latest, lookup>>

ArpNext ==
    \/ Generate \/ Generated \/ Replace1
    \/ LookUp \/ LookBelow \/ LookAbove \/ LookFinds \/ LookFails

ArpSpec == ArpInit /\ [][ArpNext]_arpVars

-------------------------------------------------------------------------------
(* Properties *)

GoesRound(s) ==
    \E i, j \in DOMAIN s :
       /\ Lt(s[i].ip, s[j].ip)
       /\ \/ Lt(s[j].ip, s[i].ip)
          \/ \E k \in DOMAIN s : Lt(s[j].ip, s[k].ip) /\ Lt(s[k].ip, s[i].ip)

\* arpjob.c:82: an entry of the table is missed only if two or three of its
\* addresses go round, each in front of the next and the last in front of the
\* first.  On all other tables lt is an order, also over more than half of the
\* range, and the table is found sorted after every replacement.
MissGoesRound == arpPhase = "looked_up" /\ hit = 0 => GoesRound(arp)

\* However the table is sorted in between, replace1 always takes the oldest
\* entry: the table has the latest ArpSize ages, each once.
KeepsLatest ==
    arpPhase # "generate" =>
        {arp[i].age : i \in DOMAIN arp} = latest - ArpSize .. latest - 1

===============================================================================
