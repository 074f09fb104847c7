------------------------------- MODULE Sorting ---------------------------------
(*****************************************************************************)
(* What qsort does to an array, whatever it is told to compare.              *)
(*****************************************************************************)
EXTENDS Integers, Sequences

\* The elements of s, each in one place.
Arrangements(s) ==
    {[i \in DOMAIN s |-> s[from[i]]] :
        from \in {g \in [DOMAIN s -> DOMAIN s] :
                     \A i, j \in DOMAIN s : g[i] = g[j] => i = j}}

===============================================================================
