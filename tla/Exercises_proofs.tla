--------------------------- MODULE Exercises_proofs ---------------------------
(*****************************************************************************)
(* Proofs about the small programs: msn.c for any number of lines, pipfork.c *)
(* for any lines and any buffer, test_list.c for any elements in any order,  *)
(* arpjob.c and cidr.c for any table and any addresses, finnsvinn.c for any  *)
(* logs, uke9.c for any tracks.                                              *)
(*****************************************************************************)
EXTENDS Pipe, Chat, TestList, ArpTable, RoutingTable, Warehouse, DiskScheduling, TLAPS

LOCAL INSTANCE SequencesExt
LOCAL INSTANCE WellFoundedInduction
LOCAL INSTANCE FiniteSetTheorems
LOCAL INSTANCE SequenceTheorems

-------------------------------------------------------------------------------
(* Numbers *)

\* A set of numbers that is not empty has a least element.
LEMMA Least ==
    ASSUME NEW T \in SUBSET Nat, T # {}
    PROVE  \E m \in T : \A k \in T : m <= k
<1> DEFINE R == {pair \in Nat \X Nat : pair[1] < pair[2]}
<1>1. IsWellFoundedOn(R, Nat)
  BY NatLessThanWellFounded DEF OpToRel
<1>2. PICK m \in T : \A k \in T : <<k, m>> \notin R
  BY <1>1, WFMin
<1>3. ASSUME NEW k \in T PROVE m <= k
  <2>1. <<k, m>> \in Nat \X Nat /\ <<k, m>>[1] = k /\ <<k, m>>[2] = m
    OBVIOUS
  <2>2. ~(k < m)
    BY <1>2, <2>1
  <2>3. QED
    BY <2>2
<1>4. QED
  BY <1>3

\* Induction, for a set of numbers instead of a predicate.
LEMMA Induction ==
    ASSUME NEW T, 0 \in T, \A n \in Nat : n \in T => n + 1 \in T
    PROVE  Nat \subseteq T
<1> DEFINE U == {n \in Nat : n \notin T}
<1>1. SUFFICES ASSUME U # {} PROVE FALSE
  OBVIOUS
<1>2. U \in SUBSET Nat
  OBVIOUS
<1>3. PICK m \in U : \A k \in U : m <= k
  BY <1>1, <1>2, Least
<1>4. m \in Nat /\ m \notin T /\ m # 0
  OBVIOUS
<1>5. m - 1 \in Nat /\ ~(m <= m - 1) /\ (m - 1) + 1 = m
  BY <1>4
<1>6. m - 1 \in T
  BY <1>3, <1>5
<1>7. QED
  BY <1>4, <1>5, <1>6

\* The values up to n of what begins with b and goes on by step.
Unfolding(f, n, V, b, step) ==
    /\ f \in [0 .. n -> V]
    /\ f[0] = b /\ \A i \in 0 .. n - 1 : f[i + 1] = step[<<i, f[i]>>]

\* They can always be extended by one.
LEMMA UnfoldingExists ==
    ASSUME NEW V, NEW b \in V, NEW step \in [Nat \X V -> V]
    PROVE  \A n \in Nat : \E f : Unfolding(f, n, V, b, step)
<1> DEFINE T == {n \in Nat : \E f : Unfolding(f, n, V, b, step)}
<1>1. 0 \in T
  <2> DEFINE f == [i \in 0 .. 0 |-> b]
  <2>1. Unfolding(f, 0, V, b, step)
    BY DEF Unfolding
  <2>2. QED
    BY <2>1
<1>2. ASSUME NEW n \in Nat, n \in T PROVE n + 1 \in T
  <2>1. PICK f : Unfolding(f, n, V, b, step)
    BY <1>2
  <2>2. f \in [0 .. n -> V] /\ f[0] = b /\ \A i \in 0 .. n - 1 : f[i + 1] = step[<<i, f[i]>>]
    BY <2>1 DEF Unfolding
  <2> DEFINE g == [i \in 0 .. n + 1 |-> IF i = n + 1 THEN step[<<n, f[n]>>] ELSE f[i]]
  <2>3. g[n + 1] = step[<<n, f[n]>>] /\ \A i \in 0 .. n : g[i] = f[i] /\ f[i] \in V
    BY <2>2
  <2>4. g \in [0 .. n + 1 -> V]
    <3>1. n \in 0 .. n
      OBVIOUS
    <3>4. f[n] \in V
      BY <2>3, <3>1
    <3>2. step[<<n, f[n]>>] \in V
      BY <3>4
    <3>3. \A i \in 0 .. n + 1 : i # n + 1 => i \in 0 .. n
      OBVIOUS
    <3>5. QED
      BY <2>3, <3>2, <3>3
  <2> HIDE DEF g
  <2>5. g[0] = b
    BY <2>2, <2>3
  <2>6. ASSUME NEW i \in 0 .. n PROVE g[i + 1] = step[<<i, g[i]>>]
    <3>1. CASE i = n
      BY <2>3, <3>1
    <3>2. CASE i # n
      <4>1. i \in 0 .. n - 1 /\ i + 1 \in 0 .. n
        BY <3>2
      <4>2. QED
        BY <2>2, <2>3, <4>1
    <3>3. QED
      BY <3>1, <3>2
  <2>7. Unfolding(g, n + 1, V, b, step)
    <3>1. (n + 1) - 1 = n
      OBVIOUS
    <3>2. QED
      BY <2>4, <2>5, <2>6, <3>1 DEF Unfolding
  <2>8. QED
    BY <2>7
<1>3. QED
  BY <1>1, <1>2, Induction

\* However many they are, they are the same.
LEMMA UnfoldingAgrees ==
    ASSUME NEW V, NEW b, NEW step,
           NEW n \in Nat, NEW f, Unfolding(f, n, V, b, step),
           NEW k \in Nat, NEW g, Unfolding(g, k, V, b, step)
    PROVE  \A i \in Nat : i <= n /\ i <= k => f[i] = g[i]
<1> DEFINE T == {i \in Nat : i <= n /\ i <= k => f[i] = g[i]}
<1>1. 0 \in T
  BY DEF Unfolding
<1>2. ASSUME NEW i \in Nat, i \in T PROVE i + 1 \in T
  <2>1. SUFFICES ASSUME i + 1 <= n, i + 1 <= k PROVE f[i + 1] = g[i + 1]
    OBVIOUS
  <2>2. i \in 0 .. n - 1 /\ i \in 0 .. k - 1 /\ f[i] = g[i]
    BY <1>2, <2>1
  <2>3. QED
    BY <2>2 DEF Unfolding
<1>3. QED
  BY <1>1, <1>2, Induction

\* All the values.
Unfolds(f, V, b, step) ==
    /\ f \in [Nat -> V]
    /\ f[0] = b /\ \A n \in Nat : f[n + 1] = step[<<n, f[n]>>]

\* So there is a function of all numbers that begins with b and goes on by step.
LEMMA Recursion ==
    ASSUME NEW V, NEW b \in V, NEW step \in [Nat \X V -> V]
    PROVE  \E f : Unfolds(f, V, b, step)
<1> DEFINE first(n) == CHOOSE f : Unfolding(f, n, V, b, step)
           F == [n \in Nat |-> first(n)[n]]
<1>1. \A n \in Nat : Unfolding(first(n), n, V, b, step)
  BY UnfoldingExists
<1> HIDE DEF first
<1>2. \A n \in Nat : first(n)[n] \in V
  BY <1>1 DEF Unfolding
<1>3. F \in [Nat -> V] /\ \A n \in Nat : F[n] = first(n)[n]
  BY <1>2
<1> HIDE DEF F
<1>4. F[0] = b
  BY <1>1, <1>3 DEF Unfolding
<1>5. ASSUME NEW n \in Nat PROVE F[n + 1] = step[<<n, F[n]>>]
  <2>1. n + 1 \in Nat /\ n \in 0 .. (n + 1) - 1 /\ n <= n + 1
    OBVIOUS
  <2>2. Unfolding(first(n), n, V, b, step) /\ Unfolding(first(n + 1), n + 1, V, b, step)
    BY <1>1, <2>1
  <2>3. first(n + 1)[n + 1] = step[<<n, first(n + 1)[n]>>]
    BY <2>1, <2>2 DEF Unfolding
  <2>4. first(n + 1)[n] = first(n)[n]
    BY <2>1, <2>2, UnfoldingAgrees
  <2>5. QED
    BY <1>3, <2>1, <2>3, <2>4
<1>6. QED
  BY <1>3, <1>4, <1>5 DEF Unfolds

\* Pow2 is what its definition says.
LEMMA Pow2Powers ==
    /\ Pow2 \in [Nat -> Nat]
    /\ Pow2[0] = 1
    /\ \A n \in Nat : Pow2[n + 1] = 2 * Pow2[n]
<1> DEFINE step == [p \in Nat \X Nat |-> 2 * p[2]]
<1>1. step \in [Nat \X Nat -> Nat] /\ \A n, v \in Nat : step[<<n, v>>] = 2 * v
  OBVIOUS
<1> HIDE DEF step
<1>2. PICK F : Unfolds(F, Nat, 1, step)
  BY <1>1, Recursion
<1>3. /\ F \in [Nat -> Nat] /\ F[0] = 1
      /\ \A n \in Nat : F[n + 1] = 2 * F[n]
  BY <1>1, <1>2 DEF Unfolds
<1>4. F = [n \in Nat |-> IF n = 0 THEN 1 ELSE 2 * F[n - 1]]
  <2>1. ASSUME NEW n \in Nat, n # 0 PROVE F[n] = 2 * F[n - 1]
    <3>1. n - 1 \in Nat /\ (n - 1) + 1 = n
      BY <2>1
    <3>2. QED
      BY <1>3, <3>1
  <2>2. \A n \in Nat : F[n] = IF n = 0 THEN 1 ELSE 2 * F[n - 1]
    BY <1>3, <2>1
  <2>3. QED
    BY <1>3, <2>2
<1>5. Pow2 = [n \in Nat |-> IF n = 0 THEN 1 ELSE 2 * Pow2[n - 1]]
  BY <1>4 DEF Pow2
<1>6. Pow2[0] = 1 /\ \A n \in Nat : Pow2[n + 1] = 2 * Pow2[n]
  <2>1. \A n \in Nat : Pow2[n] = IF n = 0 THEN 1 ELSE 2 * Pow2[n - 1]
    BY <1>5
  <2>2. QED
    BY <2>1
<1>7. \A n \in Nat : Pow2[n] = F[n]
  <2> DEFINE T == {n \in Nat : Pow2[n] = F[n]}
  <2>1. 0 \in T
    BY <1>3, <1>6
  <2>2. \A n \in Nat : n \in T => n + 1 \in T
    BY <1>3, <1>6
  <2>3. QED
    BY <2>1, <2>2, Induction
<1>8. Pow2 \in [Nat -> Nat]
  BY <1>3, <1>5, <1>7
<1>9. QED
  BY <1>6, <1>8

\* Powers of two are positive, and the smaller ones divide the greater ones.
LEMMA Pow2Divides ==
    \A a, b \in Nat :
        Pow2[a] \in Nat /\ Pow2[a] >= 1 /\ Pow2[a + b] = Pow2[b] * Pow2[a]
<1>1. Pow2[0] = 1 /\ \A n \in Nat : Pow2[n] \in Nat /\ Pow2[n + 1] = 2 * Pow2[n]
  BY Pow2Powers
<1>2. ASSUME NEW a \in Nat PROVE \A b \in Nat : Pow2[a + b] = Pow2[b] * Pow2[a]
  <2> DEFINE T == {b \in Nat : Pow2[a + b] = Pow2[b] * Pow2[a]}
  <2>1. 0 \in T
    BY <1>1
  <2>2. ASSUME NEW n \in Nat, n \in T PROVE n + 1 \in T
    <3>1. a + n \in Nat /\ a + (n + 1) = (a + n) + 1
      OBVIOUS
    <3>2. Pow2[a + (n + 1)] = 2 * Pow2[a + n] /\ Pow2[n + 1] = 2 * Pow2[n]
      BY <1>1, <3>1
    <3>3. PICK x \in Nat, y \in Nat : x = Pow2[n] /\ y = Pow2[a]
      BY <1>1
    <3>4. 2 * (x * y) = (2 * x) * y
      OBVIOUS
    <3>5. QED
      BY <2>2, <3>2, <3>3, <3>4
  <2>3. QED
    BY <2>1, <2>2, Induction
<1>3. \A n \in Nat : Pow2[n] >= 1
  <2> DEFINE T == {n \in Nat : Pow2[n] >= 1}
  <2>1. 0 \in T
    BY <1>1
  <2>2. \A n \in Nat : n \in T => n + 1 \in T
    BY <1>1
  <2>3. QED
    BY <2>1, <2>2, Induction
<1>4. QED
  BY <1>1, <1>2, <1>3

-------------------------------------------------------------------------------
(* Sorting *)

\* A rearrangement has all entries: one of a finite set into itself that puts
\* no two on one place leaves no place out.
LEMMA ArrangementIsOnto ==
    ASSUME NEW n \in Nat, NEW g \in [1 .. n -> 1 .. n],
           \A i, j \in 1 .. n : g[i] = g[j] => i = j
    PROVE  \A k \in 1 .. n : \E i \in 1 .. n : g[i] = k
<1>1. g \in Injection(1 .. n, 1 .. n)
  BY DEF Injection, IsInjective
<1>2. IsFiniteSet(1 .. n)
  BY FS_Interval
<1>3. g \in Surjection(1 .. n, 1 .. n)
  BY <1>1, <1>2, FS_Injection
<1>4. QED
  BY <1>3 DEF Surjection

\* R is a strict order of the numbers from 1 to n, all of them.
IsOrder(R, n) ==
    /\ \A i \in 1 .. n : <<i, i>> \notin R
    /\ \A i, j \in 1 .. n : i # j => <<i, j>> \in R \/ <<j, i>> \in R
    /\ \A i, j, k \in 1 .. n : <<i, j>> \in R /\ <<j, k>> \in R => <<i, k>> \in R

\* The place of a number in that order: how many are in front of it.
Preceding(R, n, i) == {j \in 1 .. n : <<j, i>> \in R}
Place(R, n, i) == Cardinality(Preceding(R, n, i)) + 1

LEMMA PlacesInOrder ==
    ASSUME NEW n \in Nat, NEW R, IsOrder(R, n)
    PROVE  /\ \A i \in 1 .. n : Place(R, n, i) \in 1 .. n
           /\ \A i, j \in 1 .. n : <<i, j>> \in R => Place(R, n, i) < Place(R, n, j)
           /\ \A i, j \in 1 .. n : Place(R, n, i) = Place(R, n, j) => i = j
<1> USE DEF IsOrder
<1>1. IsFiniteSet(1 .. n) /\ Cardinality(1 .. n) = n
  BY FS_Interval
<1>2. ASSUME NEW i \in 1 .. n
      PROVE  /\ IsFiniteSet(Preceding(R, n, i)) /\ Cardinality(Preceding(R, n, i)) \in Nat
             /\ Cardinality(Preceding(R, n, i)) < n
  <2>1. Preceding(R, n, i) \subseteq 1 .. n /\ Preceding(R, n, i) # 1 .. n
    BY DEF Preceding
  <2>2. /\ IsFiniteSet(Preceding(R, n, i))
        /\ Cardinality(Preceding(R, n, i)) <= Cardinality(1 .. n)
        /\ Cardinality(Preceding(R, n, i)) # Cardinality(1 .. n)
    BY <1>1, <2>1, FS_Subset
  <2>3. Cardinality(Preceding(R, n, i)) \in Nat
    BY <2>2, FS_CardinalityType
  <2>4. QED
    BY <1>1, <2>2, <2>3
<1>3. \A i \in 1 .. n : Place(R, n, i) \in 1 .. n
  BY <1>2 DEF Place
<1>4. ASSUME NEW i \in 1 .. n, NEW j \in 1 .. n, <<i, j>> \in R
      PROVE  Place(R, n, i) < Place(R, n, j)
  <2>1. Preceding(R, n, i) \subseteq Preceding(R, n, j)
    BY <1>4 DEF Preceding
  <2>2. i \in Preceding(R, n, j) /\ i \notin Preceding(R, n, i)
    BY <1>4 DEF Preceding
  <2>3. /\ Cardinality(Preceding(R, n, i)) <= Cardinality(Preceding(R, n, j))
        /\ Cardinality(Preceding(R, n, i)) # Cardinality(Preceding(R, n, j))
    BY <1>2, <2>1, <2>2, FS_Subset
  <2>4. QED
    BY <1>2, <2>3 DEF Place
<1>5. ASSUME NEW i \in 1 .. n, NEW j \in 1 .. n, i # j
      PROVE  Place(R, n, i) # Place(R, n, j)
  <2>1. <<i, j>> \in R \/ <<j, i>> \in R
    BY <1>5
  <2>2. Place(R, n, i) < Place(R, n, j) \/ Place(R, n, j) < Place(R, n, i)
    BY <1>4, <2>1
  <2>3. Place(R, n, i) \in Nat /\ Place(R, n, j) \in Nat
    BY <1>3
  <2>4. QED
    BY <2>2, <2>3
<1>6. QED
  BY <1>3, <1>4, <1>5

\* So they can be put in that order.
PutsInOrder(g, R, n) ==
    /\ g \in [1 .. n -> 1 .. n]
    /\ \A k, m \in 1 .. n : g[k] = g[m] => k = m
    /\ \A k, m \in 1 .. n : k < m => <<g[m], g[k]>> \notin R

LEMMA CanBePutInOrder ==
    ASSUME NEW n \in Nat, NEW R, IsOrder(R, n)
    PROVE  \E g : PutsInOrder(g, R, n)
<1> DEFINE place == [i \in 1 .. n |-> Place(R, n, i)]
<1>1. /\ place \in [1 .. n -> 1 .. n]
      /\ \A i, j \in 1 .. n : place[i] = place[j] => i = j
  BY PlacesInOrder
<1>2. \A k \in 1 .. n : \E i \in 1 .. n : place[i] = k
  BY <1>1, ArrangementIsOnto
<1> DEFINE g == [k \in 1 .. n |-> CHOOSE i \in 1 .. n : place[i] = k]
<1>3. \A k \in 1 .. n : g[k] \in 1 .. n /\ place[g[k]] = k
  BY <1>2
<1>4. g \in [1 .. n -> 1 .. n]
  BY <1>3
<1> HIDE DEF place, g
<1>5. \A k, m \in 1 .. n : g[k] = g[m] => k = m
  BY <1>3
<1>6. ASSUME NEW k \in 1 .. n, NEW m \in 1 .. n, k < m PROVE <<g[m], g[k]>> \notin R
  <2>1. /\ g[k] \in 1 .. n /\ g[m] \in 1 .. n
        /\ Place(R, n, g[k]) = k /\ Place(R, n, g[m]) = m
    BY <1>3 DEF place
  <2>2. ASSUME <<g[m], g[k]>> \in R PROVE FALSE
    <3>1. Place(R, n, g[m]) < Place(R, n, g[k])
      BY <2>1, <2>2, PlacesInOrder
    <3>2. QED
      BY <1>6, <2>1, <3>1
  <2>3. QED
    BY <2>2
<1>7. QED
  BY <1>4, <1>5, <1>6 DEF PutsInOrder

-------------------------------------------------------------------------------
(* Sequences *)

\* What SMT knows of a concatenation, apart from the sequences it is used for.
LEMMA ConcatEffect ==
    ASSUME NEW S, NEW s \in Seq(S), NEW t \in Seq(S)
    PROVE  s \o t \in Seq(S) /\ Len(s \o t) = Len(s) + Len(t)
OBVIOUS

\* The elements of the second sequence come behind those of the first.
LEMMA ConcatRight ==
    ASSUME NEW S, NEW s \in Seq(S), NEW t \in Seq(S), NEW j \in 1 .. Len(t)
    PROVE  (s \o t)[Len(s) + j] = t[j]
OBVIOUS

\* A sequence is given by its elements.
LEMMA SameSequence ==
    ASSUME NEW S, NEW s \in Seq(S), NEW t \in Seq(S), Len(s) = Len(t),
           \A i \in 1 .. Len(s) : s[i] = t[i]
    PROVE  s = t
OBVIOUS

\* All elements of a sequence but the last.
LEMMA AllButLast ==
    ASSUME NEW S, NEW s \in Seq(S), s # <<>>
    PROVE  LET t == SubSeq(s, 1, Len(s) - 1)
           IN t \in Seq(S) /\ Len(t) = Len(s) - 1 /\ \A i \in 1 .. Len(s) - 1 : t[i] = s[i]
<1>1. PICK n \in Nat : Len(s) = n + 1
  <2>1. Len(s) \in Nat /\ Len(s) >= 1
    OBVIOUS
  <2>2. Len(s) - 1 \in Nat /\ Len(s) = (Len(s) - 1) + 1
    BY <2>1
  <2>3. QED
    BY <2>2
<1>2. Len(s) - 1 = n
  BY <1>1
<1>3. SubSeq(s, 1, n) = [i \in 1 .. n |-> s[i]]
  BY <1>1
<1>4. \A i \in 1 .. n : s[i] \in S
  BY <1>1
<1>5. QED
  BY <1>2, <1>3, <1>4

\* The head of r goes to the end of s: together they stay the same.
LEMMA MovesHead ==
    ASSUME NEW S, NEW s \in Seq(S), NEW r \in Seq(S), r # <<>>
    PROVE  /\ Head(r) \in S /\ Tail(r) \in Seq(S)
           /\ Append(s, Head(r)) \in Seq(S) /\ Append(s, Head(r)) # <<>>
           /\ Append(s, Head(r))[Len(Append(s, Head(r)))] = Head(r)
           /\ Append(s, Head(r)) \o Tail(r) = s \o r
           /\ Len(s) \in Nat /\ DOMAIN s = 1 .. Len(s)
           /\ Len(s) + 1 \in DOMAIN (s \o r) /\ (s \o r)[Len(s) + 1] = Head(r)
           /\ s # <<>> => /\ Len(s) \in DOMAIN (s \o r) /\ (s \o r)[Len(s)] = s[Len(s)]
                          /\ s[Len(s)] \in S
<1>1. Len(s) \in Nat /\ DOMAIN s = 1 .. Len(s) /\ Len(r) \in Nat /\ Len(r) >= 1
  OBVIOUS
<1>2. Head(r) \in S /\ Head(r) = r[1]
  BY <1>1
<1>3. /\ Tail(r) \in Seq(S) /\ Len(Tail(r)) = Len(r) - 1
      /\ \A i \in 1 .. Len(r) - 1 : Tail(r)[i] = r[i + 1]
  BY <1>1
<1> DEFINE a == Append(s, Head(r))
<1>4. a \in Seq(S) /\ Len(a) = Len(s) + 1 /\ a[Len(s) + 1] = Head(r)
      /\ \A i \in 1 .. Len(s) : a[i] = s[i]
  BY <1>1, <1>2
<1>5. a # <<>> /\ a[Len(a)] = Head(r)
  <2>1. Len(a) # 0
    BY <1>1, <1>4
  <2>2. a # <<>>
    BY <2>1
  <2>3. QED
    BY <1>4, <2>2
<1> HIDE DEF a
<1>6. s \o r \in Seq(S) /\ Len(s \o r) = Len(s) + Len(r)
      /\ \A i \in 1 .. Len(s) + Len(r) : (s \o r)[i] = IF i <= Len(s) THEN s[i] ELSE r[i - Len(s)]
  BY <1>1
<1>7. a \o Tail(r) \in Seq(S) /\ Len(a \o Tail(r)) = Len(a) + Len(Tail(r))
      /\ \A i \in 1 .. Len(a) + Len(Tail(r)) :
            (a \o Tail(r))[i] = IF i <= Len(a) THEN a[i] ELSE Tail(r)[i - Len(a)]
  BY <1>1, <1>3, <1>4
<1>8. a \o Tail(r) = s \o r
  <2>1. Len(a \o Tail(r)) = Len(s \o r)
    BY <1>1, <1>3, <1>4, <1>6, <1>7
  <2>2. ASSUME NEW i \in 1 .. Len(s \o r) PROVE (a \o Tail(r))[i] = (s \o r)[i]
    <3>1. i \in 1 .. Len(s) + Len(r) /\ i \in 1 .. Len(a) + Len(Tail(r))
      BY <2>1, <2>2, <1>6, <1>7
    <3>2. CASE i <= Len(s)
      <4>1. i <= Len(a) /\ i \in 1 .. Len(s)
        BY <1>1, <1>4, <3>1, <3>2
      <4>2. QED
        BY <1>4, <1>6, <1>7, <3>1, <3>2, <4>1
    <3>3. CASE i = Len(s) + 1
      <4>1. i <= Len(a) /\ ~(i <= Len(s)) /\ i - Len(s) = 1
        BY <1>1, <1>4, <3>1, <3>3
      <4>2. QED
        BY <1>2, <1>4, <1>6, <1>7, <3>1, <3>3, <4>1
    <3>4. CASE i > Len(s) + 1
      <4>1. ~(i <= Len(a)) /\ ~(i <= Len(s)) /\ i - Len(a) \in 1 .. Len(r) - 1
            /\ (i - Len(a)) + 1 = i - Len(s)
        BY <1>1, <1>4, <3>1, <3>4
      <4>2. QED
        BY <1>3, <1>6, <1>7, <3>1, <4>1
    <3>5. QED
      BY <1>1, <3>1, <3>2, <3>3, <3>4
  <2>3. QED
    BY <1>6, <1>7, <2>1, <2>2, SameSequence
<1>9. DOMAIN (s \o r) = 1 .. Len(s) + Len(r)
  BY <1>6
<1>10. Len(s) + 1 \in DOMAIN (s \o r) /\ (s \o r)[Len(s) + 1] = Head(r)
  <2>1. Len(s) + 1 \in 1 .. Len(s) + Len(r) /\ ~(Len(s) + 1 <= Len(s)) /\ (Len(s) + 1) - Len(s) = 1
    BY <1>1
  <2>2. QED
    BY <1>2, <1>6, <1>9, <2>1
<1>11. ASSUME s # <<>>
       PROVE  /\ Len(s) \in DOMAIN (s \o r) /\ (s \o r)[Len(s)] = s[Len(s)]
              /\ s[Len(s)] \in S
  <2>1. Len(s) >= 1
    BY <1>11
  <2>2. Len(s) \in 1 .. Len(s) /\ Len(s) \in 1 .. Len(s) + Len(r) /\ Len(s) <= Len(s)
    BY <1>1, <2>1
  <2>3. QED
    BY <1>1, <1>6, <1>9, <2>2
<1>12. QED
  BY <1>1, <1>2, <1>3, <1>4, <1>5, <1>8, <1>10, <1>11 DEF a

\* Nothing in front of a sequence, or behind it, changes nothing.
LEMMA ConcatNothing ==
    ASSUME NEW S, NEW s \in Seq(S)
    PROVE  s \o <<>> = s /\ <<>> \o s = s
OBVIOUS

\* Two more elements in front.
LEMMA PairInFront ==
    ASSUME NEW S, NEW a \in S, NEW b \in S, NEW s \in Seq(S)
    PROVE  <<a, b>> \o s \in Seq(S)
OBVIOUS

-------------------------------------------------------------------------------
(* msn.c *)

Texts == {"hi", "q"}

Statuses == {"down", "up", "quit", "friend", "timeout", "failed", "hung"}

ChatTypeOK ==
    /\ status \in [Peers -> Statuses]
    /\ inbox \in [Peers -> Seq(Texts)]
    /\ keyboard \in [Peers -> Seq(Texts)]
    /\ closed \in [Peers -> BOOLEAN]
    /\ ready \in [Peers -> SUBSET {"net", "keyboard"}]
    /\ buf \in [Peers -> Texts \cup {""}]
    /\ missed \in [Peers -> BOOLEAN]

HasQuit(s) == \E i \in DOMAIN s : s[i] = "q"

\* A "q" comes from a friend that has quit.
QuitsAreMeant ==
    \A p \in Peers :
        /\ HasQuit(inbox[p]) => status[Friend(p)] = "quit"
        /\ status[p] = "friend" => status[Friend(p)] = "quit"

\* Where the "q" of a friend that has quit is, if the loop goes on: in the
\* socket, or in the buffer with a line still to be read over it.
QuitIsThere ==
    \A p \in Peers :
        status[Friend(p)] = "quit" /\ status[p] \in {"down", "up", "timeout"} =>
            \/ missed[p]
            \/ status[p] = "up" /\ HasQuit(inbox[p])
            \/ status[p] = "up" /\ buf[p] = "q" /\ ready[p] = {"keyboard"}

\* What select has reported is there to be read.
ReadyIsThere == \A p \in Peers : "net" \in ready[p] => inbox[p] # <<>>

ChatInv == ChatTypeOK /\ QuitsAreMeant /\ QuitIsThere /\ ReadyIsThere

\* There are two peers, each the friend of the other.
LEMMA Friends ==
    \A p \in Peers : Friend(p) \in Peers /\ Friend(p) # p /\ Peers = {p, Friend(p)}
BY ChatAssumption DEF Friend

LEMMA QuitAppended ==
    ASSUME NEW s \in Seq(Texts), NEW text \in Texts
    PROVE  /\ Append(s, text) \in Seq(Texts) /\ Append(s, text) # <<>>
           /\ HasQuit(Append(s, text)) <=> HasQuit(s) \/ text = "q"
<1> DEFINE t == Append(s, text)
<1>1. /\ t \in Seq(Texts) /\ Len(t) = Len(s) + 1 /\ Len(s) \in Nat
      /\ DOMAIN s = 1 .. Len(s) /\ DOMAIN t = 1 .. Len(s) + 1
  OBVIOUS
<1>2. t[Len(s) + 1] = text /\ \A i \in DOMAIN s : t[i] = s[i]
  OBVIOUS
<1>3. t # <<>>
  BY <1>1
<1> HIDE DEF t
<1>4. HasQuit(t) <=> HasQuit(s) \/ text = "q"
  BY <1>1, <1>2 DEF HasQuit
<1>5. QED
  BY <1>1, <1>3, <1>4 DEF t

LEMMA QuitBehindHead ==
    ASSUME NEW s \in Seq(Texts), s # <<>>
    PROVE  /\ Head(s) \in Texts /\ Tail(s) \in Seq(Texts)
           /\ HasQuit(s) <=> HasQuit(Tail(s)) \/ Head(s) = "q"
<1>1. Head(s) = s[1] /\ Tail(s) \in Seq(Texts) /\ Len(Tail(s)) = Len(s) - 1
  OBVIOUS
<1>2. \A i \in 1 .. Len(s) - 1 : Tail(s)[i] = s[i + 1]
  OBVIOUS
<1>3. ASSUME NEW i \in DOMAIN s, s[i] = "q" PROVE HasQuit(Tail(s)) \/ Head(s) = "q"
  <2>1. CASE i = 1
    BY <1>1, <1>3, <2>1
  <2>2. CASE i # 1
    <3>1. i - 1 \in DOMAIN Tail(s)
      BY <1>1, <2>2
    <3>2. Tail(s)[i - 1] = "q"
      BY <1>1, <1>2, <1>3, <2>2, <3>1
    <3>3. QED
      BY <3>1, <3>2 DEF HasQuit
  <2>3. QED
    BY <2>1, <2>2
<1>4. ASSUME NEW i \in DOMAIN Tail(s), Tail(s)[i] = "q" PROVE HasQuit(s)
  <2>1. i + 1 \in DOMAIN s /\ s[i + 1] = "q"
    BY <1>1, <1>2, <1>4
  <2>2. QED
    BY <2>1 DEF HasQuit
<1>5. 1 \in DOMAIN s
  OBVIOUS
<1>6. QED
  BY <1>1, <1>3, <1>4, <1>5 DEF HasQuit

Without(s, i) == SubSeq(s, 1, i - 1) \o SubSeq(s, i + 1, Len(s))

LEMMA WithoutEffect ==
    ASSUME NEW s \in Seq(Texts), NEW i \in DOMAIN s
    PROVE  /\ Without(s, i) \in Seq(Texts)
           /\ DOMAIN Without(s, i) = 1 .. Len(s) - 1
           /\ \A j \in 1 .. Len(s) - 1 :
                 Without(s, i)[j] = s[IF j < i THEN j ELSE j + 1]
<1> DEFINE left == SubSeq(s, 1, i - 1)
           right == SubSeq(s, i + 1, Len(s))
<1>1. /\ left \in Seq(Texts) /\ Len(left) = i - 1
      /\ \A j \in 1 .. i - 1 : left[j] = s[j]
  OBVIOUS
<1>2. /\ right \in Seq(Texts) /\ Len(right) = Len(s) - i
      /\ \A j \in 1 .. Len(s) - i : right[j] = s[j + i]
  OBVIOUS
<1>3. Without(s, i) = left \o right
  BY DEF Without
<1> HIDE DEF left, right
<1>4. i \in Nat /\ Len(s) \in Nat /\ 1 <= i /\ i <= Len(s)
  OBVIOUS
<1> DEFINE both == left \o right
<1>5. both \in Seq(Texts) /\ Len(both) = Len(s) - 1
  BY <1>1, <1>2, <1>4
<1>6. DOMAIN both = 1 .. Len(s) - 1
  BY <1>5
<1>7. ASSUME NEW j \in 1 .. Len(s) - 1 PROVE both[j] = s[IF j < i THEN j ELSE j + 1]
  <2>1. CASE j < i
    <3>1. j \in 1 .. i - 1
      BY <1>4, <2>1
    <3>2. both[j] = left[j]
      BY <1>1, <1>2, <3>1
    <3>3. QED
      BY <1>1, <2>1, <3>1, <3>2
  <2>2. CASE ~(j < i)
    <3>1. PICK k \in 1 .. Len(s) - i : j = (i - 1) + k
      <4>1. j - (i - 1) \in 1 .. Len(s) - i /\ j = (i - 1) + (j - (i - 1))
        BY <1>4, <2>2
      <4>2. QED
        BY <4>1
    <3>2. k \in 1 .. Len(right) /\ j = Len(left) + k
      BY <1>1, <1>2, <3>1
    <3>3. both[j] = right[k]
      <4>1. left \in Seq(Texts) /\ right \in Seq(Texts) /\ k \in 1 .. Len(right)
        BY <1>1, <1>2, <3>2
      <4>2. (left \o right)[Len(left) + k] = right[k]
        BY <4>1, ConcatRight
      <4>3. QED
        BY <3>2, <4>2
    <3>4. k + i = j + 1
      BY <1>4, <3>1
    <3>5. QED
      BY <1>2, <2>2, <3>1, <3>3, <3>4
  <2>3. QED
    BY <2>1, <2>2
<1>8. QED
  BY <1>3, <1>5, <1>6, <1>7

LEMMA QuitLost ==
    ASSUME NEW s \in Seq(Texts), NEW i \in DOMAIN s
    PROVE  /\ Without(s, i) \in Seq(Texts)
           /\ i > 1 => Without(s, i) # <<>>
           /\ HasQuit(Without(s, i)) => HasQuit(s)
           /\ HasQuit(s) => HasQuit(Without(s, i)) \/ s[i] = "q"
<1> DEFINE t == Without(s, i)
<1>1. /\ Len(s) \in Nat /\ DOMAIN s = 1 .. Len(s) /\ i \in 1 .. Len(s)
      /\ t \in Seq(Texts) /\ DOMAIN t = 1 .. Len(s) - 1
  BY WithoutEffect
<1>2. \A j \in 1 .. Len(s) - 1 : t[j] = s[IF j < i THEN j ELSE j + 1]
  BY WithoutEffect
<1> HIDE DEF t
<1>3. ASSUME NEW j \in DOMAIN s, s[j] = "q", s[i] # "q" PROVE HasQuit(t)
  <2>1. CASE j < i
    <3>1. j \in DOMAIN t /\ t[j] = "q"
      BY <1>1, <1>2, <1>3, <2>1
    <3>2. QED
      BY <3>1 DEF HasQuit
  <2>2. CASE j > i
    <3>1. j - 1 \in DOMAIN t /\ t[j - 1] = "q"
      BY <1>1, <1>2, <1>3, <2>2
    <3>2. QED
      BY <3>1 DEF HasQuit
  <2>3. QED
    BY <1>1, <1>3, <2>1, <2>2
<1>4. ASSUME NEW j \in DOMAIN t, t[j] = "q" PROVE HasQuit(s)
  <2>1. (IF j < i THEN j ELSE j + 1) \in DOMAIN s
    BY <1>1, <1>4
  <2>2. QED
    BY <1>1, <1>2, <1>4, <2>1 DEF HasQuit
<1>5. i > 1 => t # <<>>
  BY <1>1
<1>6. QED
  BY <1>1, <1>3, <1>4, <1>5 DEF HasQuit, t

LEMMA ChatInit_Inv == ChatInit => ChatInv
<1> SUFFICES ASSUME ChatInit PROVE ChatInv
  OBVIOUS
<1>1. ChatTypeOK
  <2>1. <<>> \in Seq(Texts)
    OBVIOUS
  <2>2. inbox \in [Peers -> Seq(Texts)] /\ keyboard \in [Peers -> Seq(Texts)]
    BY <2>1, Zenon DEF ChatInit
  <2>3. QED
    BY <2>2 DEF ChatInit, ChatTypeOK, Statuses
<1>2. QuitsAreMeant /\ QuitIsThere
  <2>1. \A p \in Peers : status[p] = "down" /\ inbox[p] = <<>>
    BY DEF ChatInit
  <2>2. ~HasQuit(<<>>)
    BY DEF HasQuit
  <2>3. QED
    BY <2>1, <2>2, Friends DEF QuitsAreMeant, QuitIsThere
<1>3. ReadyIsThere
  BY DEF ChatInit, ReadyIsThere
<1>4. QED
  BY <1>1, <1>2, <1>3 DEF ChatInv

LEMMA LoseInv == ASSUME ChatInv, NEW p \in Peers, Lose(p) PROVE ChatInv'
<1> USE DEF ChatInv
<1>1. PICK i \in DOMAIN inbox[p] :
         /\ ready[p] # {} => i > 1
         /\ inbox' = [inbox EXCEPT ![p] = Without(@, i)]
         /\ missed' = [missed EXCEPT ![p] = @ \/ inbox[p][i] = "q"]
  BY DEF Lose, Without
<1>2. UNCHANGED <<status, keyboard, closed, ready, buf>>
  BY DEF Lose
<1>3. inbox[p] \in Seq(Texts)
  BY DEF ChatTypeOK
<1>4. /\ inbox'[p] \in Seq(Texts)
      /\ i > 1 => inbox'[p] # <<>>
      /\ HasQuit(inbox'[p]) => HasQuit(inbox[p])
      /\ HasQuit(inbox[p]) => HasQuit(inbox'[p]) \/ inbox[p][i] = "q"
  BY <1>1, <1>3, QuitLost DEF ChatTypeOK
<1>5. \A f \in Peers : f # p => inbox'[f] = inbox[f] /\ missed'[f] = missed[f]
  BY <1>1 DEF ChatTypeOK
<1>6. missed'[p] <=> missed[p] \/ inbox[p][i] = "q"
  BY <1>1 DEF ChatTypeOK
<1>7. ChatTypeOK'
  BY <1>1, <1>2, <1>4 DEF ChatTypeOK
<1>8. QuitsAreMeant'
  BY <1>2, <1>4, <1>5 DEF QuitsAreMeant
<1>9. QuitIsThere'
  BY <1>2, <1>4, <1>5, <1>6 DEF QuitIsThere
<1>10. ReadyIsThere'
  BY <1>1, <1>2, <1>4, <1>5 DEF ReadyIsThere
<1>11. QED
  BY <1>7, <1>8, <1>9, <1>10

LEMMA ReadNetInv == ASSUME ChatInv, NEW p \in Peers, ReadNet(p) PROVE ChatInv'
<1> USE DEF ChatInv
<1>1. /\ status[p] = "up" /\ "net" \in ready[p] /\ inbox[p] # <<>> /\ inbox[p] \in Seq(Texts)
  BY DEF ReadNet, ChatTypeOK, ReadyIsThere
<1>2. /\ inbox' = [inbox EXCEPT ![p] = Tail(@)]
      /\ ready' = [ready EXCEPT ![p] = @ \ {"net"}]
      /\ buf' = [buf EXCEPT ![p] = Head(inbox[p])]
      /\ status' = [status EXCEPT ![p] =
                       IF ready[p] = {"net"} /\ Head(inbox[p]) = "q" THEN "friend" ELSE @]
      /\ UNCHANGED <<keyboard, closed, missed>>
  BY DEF ReadNet, Read
<1>3. /\ Head(inbox[p]) \in Texts /\ Tail(inbox[p]) \in Seq(Texts)
      /\ HasQuit(inbox[p]) <=> HasQuit(Tail(inbox[p])) \/ Head(inbox[p]) = "q"
  BY <1>1, QuitBehindHead
<1>4. \A f \in Peers : f # p =>
         /\ inbox'[f] = inbox[f] /\ ready'[f] = ready[f]
         /\ buf'[f] = buf[f] /\ status'[f] = status[f]
  BY <1>2 DEF ChatTypeOK
<1>5. /\ inbox'[p] = Tail(inbox[p]) /\ ready'[p] = ready[p] \ {"net"}
      /\ buf'[p] = Head(inbox[p])
      /\ status'[p] = IF ready[p] = {"net"} /\ Head(inbox[p]) = "q" THEN "friend" ELSE "up"
  BY <1>1, <1>2 DEF ChatTypeOK
<1>6. ready[p] = {"net"} \/ ready'[p] = {"keyboard"}
  <2>1. ready[p] \subseteq {"net", "keyboard"} /\ "net" \in ready[p]
    BY <1>1 DEF ChatTypeOK
  <2>2. CASE "keyboard" \in ready[p]
    BY <1>5, <2>1, <2>2, Zenon
  <2>3. CASE "keyboard" \notin ready[p]
    BY <2>1, <2>3, Zenon
  <2>4. QED
    BY <2>2, <2>3
<1>7. ChatTypeOK'
  BY <1>2, <1>3 DEF ChatTypeOK, Statuses
<1>8. QuitsAreMeant'
  BY <1>1, <1>3, <1>4, <1>5, Friends DEF QuitsAreMeant
<1>9. QuitIsThere'
  BY <1>1, <1>2, <1>3, <1>4, <1>5, <1>6, Friends DEF QuitIsThere
<1>10. ReadyIsThere'
  BY <1>4, <1>5 DEF ReadyIsThere
<1>11. QED
  BY <1>7, <1>8, <1>9, <1>10

LEMMA ReadKeyboardInv == ASSUME ChatInv, NEW p \in Peers, ReadKeyboard(p) PROVE ChatInv'
<1> USE DEF ChatInv
<1> DEFINE f == Friend(p)
           text == Head(keyboard[p])
<1>1. f \in Peers /\ f # p /\ Peers = {p, f} /\ Friend(p) = f /\ Friend(f) = p
  BY Friends
<1>2. /\ status[p] = "up" /\ ready[p] = {"keyboard"} /\ keyboard[p] # <<>>
      /\ keyboard[p] \in Seq(Texts)
  BY DEF ReadKeyboard, ChatTypeOK
<1>3. text \in Texts /\ Tail(keyboard[p]) \in Seq(Texts)
  BY <1>2, QuitBehindHead
<1> HIDE DEF f, text
<1>4. /\ keyboard' = [keyboard EXCEPT ![p] = Tail(@)]
      /\ ready' = [ready EXCEPT ![p] = {}]
      /\ buf' = [buf EXCEPT ![p] = text]
      /\ status' = [status EXCEPT ![p] = IF text = "q" THEN "quit" ELSE @]
      /\ inbox' = [inbox EXCEPT ![f] = IF Listens(f) THEN Append(@, text) ELSE @]
      /\ UNCHANGED closed
  BY <1>2 DEF ReadKeyboard, Read, Send, ChatTypeOK, f, text
<1>5. missed' = [q \in Peers |->
                   \/ missed[q]
                   \/ q = p /\ buf[p] = "q"
                   \/ q # p /\ text = "q" /\ ~Listens(q)]
  BY DEF ReadKeyboard, Send, text
<1>6. /\ status'[f] = status[f] /\ ready'[f] = ready[f] /\ buf'[f] = buf[f]
      /\ inbox'[p] = inbox[p] /\ ready'[p] = {}
      /\ status'[p] = IF text = "q" THEN "quit" ELSE "up"
      /\ inbox'[f] = IF Listens(f) THEN Append(inbox[f], text) ELSE inbox[f]
  BY <1>1, <1>2, <1>4 DEF ChatTypeOK
<1>7. /\ missed'[p] <=> missed[p] \/ buf[p] = "q"
      /\ missed'[f] <=> missed[f] \/ (text = "q" /\ ~Listens(f))
  BY <1>1, <1>5
<1>8. inbox[f] \in Seq(Texts)
  BY <1>1 DEF ChatTypeOK
<1>9. /\ inbox'[f] \in Seq(Texts)
      /\ inbox[f] # <<>> => inbox'[f] # <<>>
      /\ HasQuit(inbox[f]) => HasQuit(inbox'[f])
      /\ HasQuit(inbox'[f]) => HasQuit(inbox[f]) \/ text = "q"
      /\ text = "q" => HasQuit(inbox'[f]) \/ ~Listens(f)
  BY <1>3, <1>6, <1>8, QuitAppended
<1>10. ChatTypeOK'
  <2>1. status' \in [Peers -> Statuses]
    BY <1>4 DEF ChatTypeOK, Statuses
  <2>2. inbox' \in [Peers -> Seq(Texts)]
    BY <1>1, <1>4, <1>6, <1>8, <1>9 DEF ChatTypeOK
  <2>3. missed' \in [Peers -> BOOLEAN]
    BY <1>5, Zenon DEF ChatTypeOK
  <2>4. QED
    BY <1>3, <1>4, <2>1, <2>2, <2>3 DEF ChatTypeOK
<1>11. QuitsAreMeant'
  BY <1>1, <1>2, <1>6, <1>9 DEF QuitsAreMeant
<1>12. QuitIsThere'
  BY <1>1, <1>2, <1>6, <1>7, <1>9 DEF QuitIsThere, Listens
<1>13. ReadyIsThere'
  BY <1>1, <1>6, <1>9 DEF ReadyIsThere
<1>14. QED
  BY <1>10, <1>11, <1>12, <1>13

\* The steps that change no inbox and no buffer.
LEMMA OtherStepsInv ==
    ASSUME ChatInv, NEW p \in Peers,
           \/ Type(p) \/ TypeEnd(p) \/ PeerStarts(p) \/ Select(p) \/ Timeout(p) \/ Hang(p)
    PROVE  ChatInv'
<1> USE DEF ChatInv
<1>1. CASE Type(p)
  <2>1. PICK line \in Texts : keyboard' = [keyboard EXCEPT ![p] = Append(@, line)]
    BY <1>1 DEF Type, Texts
  <2>2. Append(keyboard[p], line) \in Seq(Texts)
    BY <2>1, QuitAppended DEF ChatTypeOK
  <2>3. QED
    BY <1>1, <2>1, <2>2 DEF Type, ChatTypeOK, QuitsAreMeant, QuitIsThere, ReadyIsThere
<1>2. CASE TypeEnd(p)
  BY <1>2 DEF TypeEnd, ChatTypeOK, QuitsAreMeant, QuitIsThere, ReadyIsThere
<1>3. CASE PeerStarts(p)
  <2>1. PICK s \in {"up", "failed"} : status' = [status EXCEPT ![p] = s]
    BY <1>3 DEF PeerStarts
  <2>2. status[p] = "down" /\ UNCHANGED <<inbox, keyboard, closed, ready, buf, missed>>
    BY <1>3 DEF PeerStarts
  <2>3. ChatTypeOK'
    BY <2>1, <2>2 DEF ChatTypeOK, Statuses
  <2>4. QuitsAreMeant' /\ ReadyIsThere'
    BY <2>1, <2>2, Friends DEF ChatTypeOK, QuitsAreMeant, ReadyIsThere
  <2>5. QuitIsThere'
    BY <2>1, <2>2, Friends DEF ChatTypeOK, QuitIsThere
  <2>6. QED
    BY <2>3, <2>4, <2>5
<1>4. CASE Select(p)
  BY <1>4, Friends
  DEF Select, Found, ChatTypeOK, QuitsAreMeant, QuitIsThere, ReadyIsThere
<1>5. CASE Timeout(p)
  <2>1. status[p] = "up" /\ ready[p] = {} /\ inbox[p] = <<>>
    BY <1>5 DEF Timeout, Found
  <2>2. ~HasQuit(inbox[p])
    BY <2>1 DEF HasQuit
  <2>3. /\ status' = [status EXCEPT ![p] = "timeout"]
        /\ UNCHANGED <<inbox, keyboard, closed, ready, buf, missed>>
    BY <1>5 DEF Timeout
  <2>4. ChatTypeOK'
    BY <2>3 DEF ChatTypeOK, Statuses
  <2>5. QuitsAreMeant' /\ QuitIsThere' /\ ReadyIsThere'
    BY <2>1, <2>2, <2>3, Friends DEF ChatTypeOK, QuitsAreMeant, QuitIsThere, ReadyIsThere
  <2>6. QED
    BY <2>4, <2>5
<1>6. CASE Hang(p)
  BY <1>6, Friends
  DEF Hang, ChatTypeOK, Statuses, QuitsAreMeant, QuitIsThere, ReadyIsThere
<1>7. QED
  BY <1>1, <1>2, <1>3, <1>4, <1>5, <1>6

LEMMA ChatStep_Inv == ChatInv /\ [ChatNext]_chatVars => ChatInv'
<1> SUFFICES ASSUME ChatInv, [ChatNext]_chatVars PROVE ChatInv'
  OBVIOUS
<1>1. ASSUME NEW p \in Peers, Peer(p) \/ Type(p) \/ TypeEnd(p) \/ Lose(p) PROVE ChatInv'
  BY <1>1, LoseInv, ReadNetInv, ReadKeyboardInv, OtherStepsInv DEF Peer
<1>2. CASE UNCHANGED chatVars
  BY <1>2
  DEF chatVars, ChatInv, ChatTypeOK, QuitsAreMeant, QuitIsThere, ReadyIsThere
<1>3. QED
  BY <1>1, <1>2 DEF ChatNext

\* msn.c: a peer is sent home only by a friend that has quit, and is left to
\* its timeout by one only if the "q" was lost, came to nobody, or was
\* overwritten: for any number of lines.
THEOREM EndsForAReasonHolds == ChatSpec => []EndsForAReason
<1>1. ChatInv => EndsForAReason
  BY DEF ChatInv, QuitsAreMeant, QuitIsThere, EndsForAReason
<1>2. QED
  BY <1>1, ChatInit_Inv, ChatStep_Inv, PTL DEF ChatSpec

-------------------------------------------------------------------------------
(* pipfork.c *)

Bytes == Seq(Chars)

PipeTypeOK ==
    /\ ahead \in Bytes /\ msg \in Bytes /\ pipe \in Bytes
    /\ chunks \in Seq(Bytes)
    /\ parent \in {"fgets", "write", "done", "killed"}
    /\ child \in {"read", "close", "done"}

LastWasFull == chunks # <<>> /\ Len(chunks[Len(chunks)]) = BUFSIZE - 1

\* A lone q in the pipe is the parent's "q", or what a full read has left.
LoneQuit == pipe = <<"q">> /\ parent # "done" => LastWasFull

PipeInv == PipeTypeOK /\ LoneQuit /\ EarlyEnd

\* The first n elements of a sequence, and what is behind them.
LEMMA UptoEffect ==
    ASSUME NEW s \in Bytes, NEW n \in Int
    PROVE  /\ Upto(s, n) \in Bytes
           /\ n \in Nat => Len(Upto(s, n)) = Lesser(Len(s), n)
           /\ Len(s) <= n => Upto(s, n) = s
<1>1. Len(s) \in Nat
  BY DEF Bytes
<1>2. Lesser(Len(s), n) \in Int /\ Lesser(Len(s), n) <= Len(s)
  BY <1>1 DEF Lesser
<1>3. CASE n < 1
  <2>1. SubSeq(s, 1, Lesser(Len(s), n)) = <<>>
    BY <1>1, <1>2, <1>3 DEF Lesser, Bytes
  <2>2. QED
    BY <1>1, <1>3, <2>1 DEF Upto, Lesser, Bytes
<1>4. CASE n >= 1 /\ n < Len(s)
  BY <1>1, <1>4 DEF Upto, Lesser, Bytes
<1>5. CASE n >= Len(s)
  <2>1. Lesser(Len(s), n) = Len(s)
    BY <1>1, <1>5 DEF Lesser
  <2>2. SubSeq(s, 1, Len(s)) = s
    BY DEF Bytes
  <2>3. QED
    BY <1>1, <1>5, <2>1, <2>2 DEF Upto
<1>6. QED
  BY <1>1, <1>3, <1>4, <1>5

LEMMA AfterEffect ==
    ASSUME NEW s \in Bytes, NEW n \in Nat
    PROVE  After(s, n) \in Bytes /\ (Len(s) <= n => After(s, n) = <<>>)
BY DEF After, Bytes

LEMMA FromLineType ==
    ASSUME NEW text \in Bytes, FromLine(text)
    PROVE  msg' \in Bytes /\ ahead' \in Bytes
<1>1. BUFSIZE - 1 \in Nat
  BY PipeAssumption
<1>2. Upto(text, BUFSIZE - 1) \in Bytes
  BY <1>1, UptoEffect
<1>3. CutLast(Upto(text, BUFSIZE - 1)) \in Bytes
  <2>1. Len(Upto(text, BUFSIZE - 1)) - 1 \in Int
    BY <1>2 DEF Bytes
  <2>2. QED
    BY <1>2, <2>1, UptoEffect DEF CutLast
<1>4. QED
  BY <1>1, <1>3, AfterEffect DEF FromLine

LEMMA PipeInit_Inv == PipeInit => PipeInv
<1>1. <<>> \in Bytes /\ <<>> \in Seq(Bytes) /\ <<>> # <<"q">>
  BY DEF Bytes
<1>2. QED
  BY <1>1 DEF PipeInit, PipeInv, PipeTypeOK, LoneQuit, EarlyEnd

LEMMA FgetsInv ==
    ASSUME PipeInv, FgetsLine \/ FgetsAhead \/ FgetsEof PROVE PipeInv'
<1> USE DEF PipeInv
<1>1. msg' \in Bytes /\ ahead' \in Bytes
  <2>1. CASE FgetsLine
    <3>1. PICK line \in Lines : FromLine(Append(line, "newline"))
      BY <2>1 DEF FgetsLine
    <3>2. Append(line, "newline") \in Bytes
      BY <3>1, PipeAssumption DEF Bytes
    <3>3. QED
      BY <3>1, <3>2, FromLineType
  <2>2. CASE FgetsAhead
    BY <2>2, FromLineType DEF FgetsAhead, PipeTypeOK
  <2>3. CASE FgetsEof
    <3>1. Len(msg) - 1 \in Int
      BY DEF PipeTypeOK, Bytes
    <3>2. QED
      BY <2>3, <3>1, UptoEffect DEF FgetsEof, CutLast, PipeTypeOK
  <2>4. QED
    BY <2>1, <2>2, <2>3
<1>2. parent = "fgets" /\ parent' = "write" /\ UNCHANGED <<pipe, chunks, child>>
  BY DEF FgetsLine, FgetsAhead, FgetsEof
<1>3. QED
  BY <1>1, <1>2 DEF PipeTypeOK, LoneQuit, LastWasFull, EarlyEnd

\* Only the line "q" makes the pipe a lone q, if the pipe was empty.
LEMMA WriteInv == ASSUME PipeInv, Write PROVE PipeInv'
<1> USE DEF PipeInv
<1>1. /\ parent = "write" /\ pipe' = pipe \o msg
      /\ parent' = IF IsQuit(msg) THEN "done" ELSE "fgets"
      /\ UNCHANGED <<ahead, msg, chunks, child>>
  BY DEF Write
<1>2. pipe \in Bytes /\ msg \in Bytes
  BY DEF PipeTypeOK
<1>3. pipe \o msg \in Bytes /\ Len(pipe \o msg) = Len(pipe) + Len(msg)
  BY <1>2 DEF Bytes
<1>4. ASSUME pipe \o msg = <<"q">>, msg # <<"q">> PROVE pipe = <<"q">>
  <2>1. Len(pipe) + Len(msg) = 1 /\ Len(pipe) \in Nat /\ Len(msg) \in Nat
    BY <1>2, <1>3, <1>4 DEF Bytes
  <2>2. CASE Len(pipe) = 0
    <3>1. pipe \o msg = msg
      BY <1>2, <2>2 DEF Bytes
    <3>2. QED
      BY <1>4, <3>1
  <2>3. CASE Len(msg) = 0
    <3>1. pipe \o msg = pipe
      BY <1>2, <2>3 DEF Bytes
    <3>2. QED
      BY <1>4, <3>1
  <2>4. QED
    BY <2>1, <2>2, <2>3
<1>5. PipeTypeOK'
  BY <1>1, <1>3 DEF PipeTypeOK
<1>6. LoneQuit'
  BY <1>1, <1>4 DEF LoneQuit, LastWasFull, IsQuit
<1>7. EarlyEnd'
  BY <1>1 DEF EarlyEnd
<1>8. QED
  BY <1>5, <1>6, <1>7

LEMMA ReadChunkInv == ASSUME PipeInv, ReadChunk PROVE PipeInv'
<1> USE DEF PipeInv
<1>1. /\ child = "read" /\ pipe # <<>>
      /\ chunks' = Append(chunks, Chunk)
      /\ pipe' = After(pipe, Len(Chunk))
      /\ child' = IF Chunk = <<"q">> THEN "close" ELSE "read"
      /\ UNCHANGED <<ahead, msg, parent>>
  BY DEF ReadChunk, EndsChild, IsQuit
<1>2. /\ pipe \in Bytes /\ Len(pipe) \in Nat /\ chunks \in Seq(Bytes) /\ Len(chunks) \in Nat
      /\ BUFSIZE - 1 \in Nat /\ BUFSIZE > 2
  BY PipeAssumption DEF PipeTypeOK, Bytes
<1>3. /\ Chunk \in Bytes /\ Len(Chunk) = Lesser(Len(pipe), BUFSIZE - 1)
      /\ Len(pipe) <= BUFSIZE - 1 => Chunk = pipe
  BY <1>2, UptoEffect DEF Chunk
<1> HIDE DEF Chunk
<1>4. /\ Len(Chunk) \in Nat
      /\ Len(pipe) > BUFSIZE - 1 => Len(Chunk) = BUFSIZE - 1
      /\ Len(pipe) <= BUFSIZE - 1 => After(pipe, Len(Chunk)) = <<>>
      /\ After(pipe, Len(Chunk)) \in Bytes
  BY <1>2, <1>3, AfterEffect, SMTT(30) DEF Lesser
<1>5. /\ chunks' \in Seq(Bytes) /\ Len(chunks') = Len(chunks) + 1
      /\ chunks' # <<>> /\ chunks'[Len(chunks')] = Chunk
      /\ \A i \in 1 .. Len(chunks) : chunks'[i] = chunks[i]
  BY <1>1, <1>2, <1>3
<1>6. PipeTypeOK'
  BY <1>1, <1>4, <1>5 DEF PipeTypeOK
<1>7. LoneQuit'
  <2>1. <<>> # <<"q">>
    OBVIOUS
  <2>2. QED
    BY <1>1, <1>2, <1>4, <1>5, <2>1 DEF LoneQuit, LastWasFull
<1>8. EarlyEnd'
  <2>1. SUFFICES ASSUME Chunk = <<"q">>, parent # "done"
                 PROVE  Len(chunks) > 0 /\ Len(chunks[Len(chunks)]) = BUFSIZE - 1
    BY <1>1, <1>2, <1>5 DEF EarlyEnd
  <2>2. Len(Chunk) = 1
    BY <2>1
  <2>3. pipe = <<"q">>
    <3>1. Len(pipe) <= BUFSIZE - 1
      BY <1>2, <1>4, <2>2
    <3>2. QED
      BY <1>3, <2>1, <3>1
  <2>4. LastWasFull
    BY <2>1, <2>3 DEF LoneQuit
  <2>5. QED
    BY <1>2, <2>4 DEF LastWasFull
<1>9. QED
  BY <1>6, <1>7, <1>8

LEMMA PipeStep_Inv == PipeInv /\ [PipeNext]_pipeVars => PipeInv'
<1> SUFFICES ASSUME PipeInv, [PipeNext]_pipeVars PROVE PipeInv'
  OBVIOUS
<1>1. CASE WriteKills
  BY <1>1 DEF WriteKills, PipeInv, PipeTypeOK, LoneQuit, LastWasFull, EarlyEnd
<1>2. CASE UNCHANGED pipeVars
  BY <1>2 DEF pipeVars, PipeInv, PipeTypeOK, LoneQuit, LastWasFull, EarlyEnd
<1>3. CASE CloseRead
  BY <1>3 DEF CloseRead, PipeInv, PipeTypeOK, LoneQuit, LastWasFull, EarlyEnd
<1>4. QED
  BY <1>1, <1>2, <1>3, FgetsInv, WriteInv, ReadChunkInv DEF PipeNext, ReadNothing

\* pipfork.c: the child leaves before the line "q" was written only behind a
\* read that filled its buffer: for any lines, and buffers of any size.
THEOREM EarlyEndHolds == PipeSpec => []EarlyEnd
<1>1. PipeInv => EarlyEnd
  BY DEF PipeInv
<1>2. QED
  BY <1>1, PipeInit_Inv, PipeStep_Inv, PTL DEF PipeSpec

-------------------------------------------------------------------------------
(* test_list.c *)

Increasing(s) == \A i, j \in DOMAIN s : i < j => s[i] < s[j]

\* list_insert drops what belongs behind the last element, so that the list never
\* grows beyond the element it began with: it has just what was inserted and does
\* not start behind that one.
UpToFirst ==
    test = "insert" =>
        /\ \A i, j \in DOMAIN list : i < j => list[i] < list[j]
        /\ ToSet(list) = {elem \in ToSet(inserted) : elem <= inserted[1]}

TestInv ==
    /\ test \in {"choose", "append", "insert", "deleted"}
    /\ list \in Seq(Nat) /\ inserted \in Seq(Nat)
    /\ test = "choose" => list = <<>> /\ inserted = <<>>
    /\ UpToFirst

\* InsertAt puts one element in and keeps the order of the others.
LEMMA InsertAtEffect ==
    ASSUME NEW S, NEW s \in Seq(S), NEW k \in 1 .. Len(s) + 1, NEW e \in S
    PROVE  /\ InsertAt(s, k, e) \in Seq(S)
           /\ DOMAIN InsertAt(s, k, e) = 1 .. Len(s) + 1
           /\ \A j \in 1 .. Len(s) + 1 :
                 InsertAt(s, k, e)[j] = IF j = k THEN e ELSE s[IF j < k THEN j ELSE j - 1]
<1> DEFINE left == SubSeq(s, 1, k - 1)
           right == SubSeq(s, k, Len(s))
           front == left \o <<e>>
<1>1. /\ left \in Seq(S) /\ Len(left) = k - 1
      /\ \A j \in 1 .. k - 1 : left[j] = s[j]
  OBVIOUS
<1>2. /\ right \in Seq(S) /\ Len(right) = Len(s) - k + 1
      /\ \A j \in 1 .. Len(s) - k + 1 : right[j] = s[j + k - 1]
  OBVIOUS
<1> HIDE DEF left, right
<1>3. /\ front \in Seq(S) /\ Len(front) = k /\ front[k] = e
      /\ \A j \in 1 .. k - 1 : front[j] = left[j]
  BY <1>1
<1>4. k \in Nat /\ Len(s) \in Nat /\ 1 <= k /\ k <= Len(s) + 1 /\ DOMAIN s = 1 .. Len(s)
  OBVIOUS
<1>5. InsertAt(s, k, e) = front \o right
  BY DEF InsertAt, left, right
<1> HIDE DEF front
<1>6. front \o right \in Seq(S) /\ Len(front \o right) = Len(s) + 1
  <2>1. front \o right \in Seq(S) /\ Len(front \o right) = Len(front) + Len(right)
    BY <1>2, <1>3, ConcatEffect
  <2>2. QED
    BY <1>2, <1>3, <1>4, <2>1
<1>7. ASSUME NEW j \in 1 .. Len(s) + 1
      PROVE  (front \o right)[j] = IF j = k THEN e ELSE s[IF j < k THEN j ELSE j - 1]
  <2>1. CASE j <= k
    <3>1. (front \o right)[j] = front[j]
      BY <1>2, <1>3, <1>4, <2>1
    <3>2. CASE j = k
      BY <1>3, <3>1, <3>2
    <3>3. CASE j # k
      BY <1>1, <1>3, <1>4, <2>1, <3>1, <3>3
    <3>4. QED
      BY <3>2, <3>3
  <2>2. CASE j > k
    <3>1. j - k \in 1 .. Len(right) /\ Len(front) + (j - k) = j
      BY <1>2, <1>3, <1>4, <2>2
    <3>2. (front \o right)[j] = right[j - k]
      BY <1>2, <1>3, <3>1, ConcatRight
    <3>3. j - k \in 1 .. Len(s) - k + 1 /\ (j - k) + k - 1 = j - 1
      BY <1>2, <1>4, <3>1
    <3>4. QED
      BY <1>2, <1>4, <2>2, <3>2, <3>3
  <2>3. j <= k \/ j > k
    BY <1>4
  <2>4. QED
    BY <2>1, <2>2, <2>3
<1>8. QED
  <2>1. InsertAt(s, k, e) \in Seq(S) /\ Len(InsertAt(s, k, e)) = Len(s) + 1
    BY <1>5, <1>6
  <2>2. DOMAIN InsertAt(s, k, e) = 1 .. Len(s) + 1
    BY <2>1
  <2>3. ASSUME NEW j \in 1 .. Len(s) + 1
        PROVE  InsertAt(s, k, e)[j] = IF j = k THEN e ELSE s[IF j < k THEN j ELSE j - 1]
    BY <1>5, <1>7
  <2>4. QED
    BY <2>1, <2>2, <2>3

\* An element that is put in at its place keeps the list in order.
LEMMA InPlace ==
    ASSUME NEW s \in Seq(Nat), Increasing(s), NEW k \in 1 .. Len(s) + 1, NEW e \in Nat,
           k > 1 => s[k - 1] < e, k <= Len(s) => e < s[k]
    PROVE  /\ InsertAt(s, k, e) \in Seq(Nat)
           /\ Increasing(InsertAt(s, k, e))
           /\ ToSet(InsertAt(s, k, e)) = ToSet(s) \cup {e}
<1> DEFINE t == InsertAt(s, k, e)
<1>1. t \in Seq(Nat) /\ DOMAIN t = 1 .. Len(s) + 1
  BY InsertAtEffect
<1>2. \A j \in 1 .. Len(s) + 1 :
         t[j] = IF j = k THEN e ELSE s[IF j < k THEN j ELSE j - 1]
  BY InsertAtEffect
<1> HIDE DEF t
<1>3. /\ k \in Nat /\ Len(s) \in Nat /\ 1 <= k /\ k <= Len(s) + 1
      /\ DOMAIN s = 1 .. Len(s) /\ \A j \in 1 .. Len(s) : s[j] \in Nat
  OBVIOUS
<1>4. \A j \in 1 .. Len(s) : j < k => s[j] < e
  <2> SUFFICES ASSUME NEW j \in 1 .. Len(s), j < k PROVE s[j] < e
    OBVIOUS
  <2>1. k - 1 \in 1 .. Len(s) /\ s[k - 1] < e
    BY <1>3
  <2>2. j = k - 1 \/ s[j] < s[k - 1]
    <3>1. j \in DOMAIN s /\ k - 1 \in DOMAIN s /\ (j = k - 1 \/ j < k - 1)
      BY <1>3, <2>1
    <3>2. QED
      BY <3>1 DEF Increasing
  <2>3. QED
    BY <1>3, <2>1, <2>2
<1>5. \A j \in 1 .. Len(s) : j >= k => e < s[j]
  <2> SUFFICES ASSUME NEW j \in 1 .. Len(s), j >= k PROVE e < s[j]
    OBVIOUS
  <2>1. k \in 1 .. Len(s) /\ e < s[k]
    BY <1>3
  <2>2. j = k \/ s[k] < s[j]
    <3>1. j \in DOMAIN s /\ k \in DOMAIN s /\ (j = k \/ k < j)
      BY <1>3, <2>1
    <3>2. QED
      BY <3>1 DEF Increasing
  <2>3. QED
    BY <1>3, <2>1, <2>2
<1>6. Increasing(t)
  <2> SUFFICES ASSUME NEW i \in 1 .. Len(s) + 1, NEW j \in 1 .. Len(s) + 1, i < j
               PROVE  t[i] < t[j]
    BY <1>1 DEF Increasing
  <2>1. CASE i = k
    BY <1>2, <1>3, <1>5, <2>1
  <2>2. CASE j = k
    BY <1>2, <1>3, <1>4, <2>2
  <2>3. CASE i # k /\ j # k
    <3> DEFINE a == IF i < k THEN i ELSE i - 1
               b == IF j < k THEN j ELSE j - 1
    <3>1. a \in 1 .. Len(s) /\ b \in 1 .. Len(s) /\ a < b
      BY <1>3, <2>3
    <3>2. t[i] = s[a] /\ t[j] = s[b]
      BY <1>2, <2>3
    <3> HIDE DEF a, b
    <3>3. QED
      BY <1>3, <3>1, <3>2 DEF Increasing
  <2>4. QED
    BY <2>1, <2>2, <2>3
<1>7. ToSet(t) = ToSet(s) \cup {e}
  <2>1. \A j \in DOMAIN t : t[j] = e \/ \E i \in DOMAIN s : t[j] = s[i]
    <3> SUFFICES ASSUME NEW j \in DOMAIN t, j # k PROVE \E i \in DOMAIN s : t[j] = s[i]
      BY <1>1, <1>2
    <3>1. (IF j < k THEN j ELSE j - 1) \in DOMAIN s
      <4>1. j \in 1 .. Len(s) + 1
        BY <1>1
      <4>2. QED
        BY <1>3, <4>1
    <3>2. QED
      BY <1>1, <1>2, <3>1
  <2>2. k \in DOMAIN t /\ t[k] = e
    BY <1>1, <1>2, <1>3
  <2>3. \A j \in DOMAIN s : \E i \in DOMAIN t : s[j] = t[i]
    <3> SUFFICES ASSUME NEW j \in DOMAIN s PROVE \E i \in DOMAIN t : s[j] = t[i]
      OBVIOUS
    <3>1. CASE j < k
      <4>1. j \in DOMAIN t /\ t[j] = s[j]
        BY <1>1, <1>2, <1>3, <3>1
      <4>2. QED
        BY <4>1
    <3>2. CASE j >= k
      <4>1. /\ j + 1 \in 1 .. Len(s) + 1
            /\ j + 1 # k /\ ~(j + 1 < k) /\ (j + 1) - 1 = j
        BY <1>3, <3>2
      <4>2. j + 1 \in DOMAIN t /\ t[j + 1] = s[j]
        BY <1>1, <1>2, <4>1
      <4>3. QED
        BY <4>2
    <3>3. QED
      BY <1>3, <3>1, <3>2
  <2>4. QED
    BY <2>1, <2>2, <2>3 DEF ToSet
<1>8. QED
  BY <1>1, <1>6, <1>7 DEF t

\* What list_insert does to a list that is right.
LEMMA ListInsertEffect ==
    ASSUME TestInv, test = "insert", NEW elem \in Nat, elem \notin ToSet(inserted),
           ListInsert(elem)
    PROVE  /\ list' \in Seq(Nat) /\ Increasing(list')
           /\ ToSet(list') = IF inserted = <<>> \/ elem < inserted[1]
                             THEN ToSet(list) \cup {elem} ELSE ToSet(list)
<1>1. /\ list \in Seq(Nat) /\ Len(list) \in Nat /\ DOMAIN list = 1 .. Len(list)
      /\ inserted \in Seq(Nat) /\ DOMAIN inserted = 1 .. Len(inserted) /\ Len(inserted) \in Nat
  BY DEF TestInv
<1>2. /\ Increasing(list)
      /\ ToSet(list) = {e \in ToSet(inserted) : e <= inserted[1]}
  BY DEF TestInv, UpToFirst, Increasing
<1>3. \A j \in DOMAIN list : list[j] \in Nat /\ list[j] # elem /\ list[j] <= inserted[1]
  <2> SUFFICES ASSUME NEW j \in DOMAIN list
               PROVE  list[j] \in Nat /\ list[j] # elem /\ list[j] <= inserted[1]
    OBVIOUS
  <2>1. list[j] \in ToSet(list)
    BY DEF ToSet
  <2>2. list[j] \in ToSet(inserted) /\ list[j] <= inserted[1]
    BY <1>2, <2>1
  <2>3. QED
    BY <1>1, <2>2
<1>4. inserted # <<>> => inserted[1] \in Nat /\ inserted[1] \in ToSet(list)
  <2> SUFFICES ASSUME inserted # <<>>
               PROVE  inserted[1] \in Nat /\ inserted[1] \in ToSet(list)
    OBVIOUS
  <2>1. 1 \in DOMAIN inserted
    BY <1>1
  <2>2. inserted[1] \in Nat /\ inserted[1] \in ToSet(inserted)
    BY <1>1, <2>1 DEF ToSet
  <2>3. QED
    BY <1>2, <2>2
<1>9. list = <<>> <=> inserted = <<>>
  <2>1. list = <<>> => ToSet(list) = {}
    BY DEF ToSet
  <2>2. inserted = <<>> => ToSet(list) = {}
    BY <1>2 DEF ToSet
  <2>3. list # <<>> => list[1] \in ToSet(list)
    BY <1>1 DEF ToSet
  <2>4. QED
    BY <1>4, <2>1, <2>2, <2>3
<1>5. CASE list = <<>>
  <2>1. inserted = <<>>
    BY <1>5, <1>9
  <2>2. list' = InsertAt(list, 1, elem)
    BY <1>5 DEF ListInsert
  <2>3. 1 \in 1 .. Len(list) + 1 /\ ~(1 <= Len(list))
    BY <1>1, <1>5
  <2>4. QED
    BY <1>1, <1>2, <2>1, <2>2, <2>3, InPlace
<1>6. CASE list # <<>> /\ list[1] > elem
  <2>1. inserted # <<>>
    BY <1>1, <1>9, <1>6
  <2>2. elem < inserted[1]
    <3>1. 1 \in DOMAIN list
      BY <1>1, <1>6
    <3>2. list[1] \in Nat /\ list[1] <= inserted[1]
      BY <1>3, <3>1
    <3>3. inserted[1] \in Nat
      BY <1>4, <2>1
    <3>4. QED
      BY <1>6, <3>2, <3>3
  <2>3. list' = InsertAt(list, 1, elem)
    BY <1>6 DEF ListInsert
  <2>4. QED
    BY <1>1, <1>2, <1>6, <2>2, <2>3, InPlace
<1>7. CASE list # <<>> /\ ~(list[1] > elem)
  <2>1. inserted # <<>>
    BY <1>1, <1>9, <1>7
  <2>2. list[1] < elem
    <3>1. 1 \in DOMAIN list
      BY <1>1, <1>7
    <3>2. list[1] \in Nat /\ list[1] # elem
      BY <1>3, <3>1
    <3>3. QED
      BY <1>7, <3>2
  <2>3. ASSUME NEW i \in DOMAIN list, Stops(i, elem), list' = InsertAt(list, i + 1, elem)
        PROVE  /\ list' \in Seq(Nat) /\ Increasing(list')
               /\ ToSet(list') = ToSet(list) \cup {elem}
               /\ elem < inserted[1]
    <3>1. i \in 1 .. Len(list) - 1 /\ list[i + 1] >= elem /\ list[i] < elem
      BY <1>1, <2>2, <2>3, SMTT(30) DEF Stops
    <3>2. elem < list[i + 1] /\ list[i + 1] <= inserted[1] /\ list[i + 1] \in Nat
      <4>1. i + 1 \in DOMAIN list
        BY <1>1, <3>1
      <4>2. list[i + 1] \in Nat /\ list[i + 1] # elem /\ list[i + 1] <= inserted[1]
        BY <1>3, <4>1
      <4>3. QED
        BY <3>1, <4>2
    <3>3. elem < inserted[1]
      <4>1. inserted[1] \in Nat
        BY <1>4, <2>1
      <4>2. QED
        BY <3>2, <4>1
    <3>4. i + 1 \in 1 .. Len(list) + 1
      BY <1>1, <3>1
    <3>5. /\ InsertAt(list, i + 1, elem) \in Seq(Nat)
          /\ Increasing(InsertAt(list, i + 1, elem))
          /\ ToSet(InsertAt(list, i + 1, elem)) = ToSet(list) \cup {elem}
      <4> DEFINE k == i + 1
      <4>1. k - 1 = i /\ k \in 1 .. Len(list) + 1
        BY <1>1, <3>1
      <4>2. list[k - 1] < elem /\ elem < list[k]
        BY <3>1, <3>2, <4>1
      <4> HIDE DEF k
      <4>3. /\ InsertAt(list, k, elem) \in Seq(Nat)
            /\ Increasing(InsertAt(list, k, elem))
            /\ ToSet(InsertAt(list, k, elem)) = ToSet(list) \cup {elem}
        BY <1>1, <1>2, <4>1, <4>2, InPlace
      <4>4. QED
        BY <4>3 DEF k
    <3>6. QED
      BY <2>3, <3>3, <3>5
  <2>4. ASSUME \A i \in DOMAIN list : ~Stops(i, elem)
        PROVE  ~(elem < inserted[1])
    <3> DEFINE T == {j \in 2 .. Len(list) : list[j] >= elem}
    <3>1. T = {}
      <4>1. SUFFICES ASSUME T # {} PROVE FALSE
        OBVIOUS
      <4>2. PICK m \in T : \A k \in T : m <= k
        <5>1. T \in SUBSET Nat
          BY <1>1
        <5> HIDE DEF T
        <5>2. QED
          BY <4>1, <5>1, Least
      <4>3. m - 1 \in 1 .. Len(list) - 1 /\ list[m - 1 + 1] >= elem
        BY <1>1, <4>2
      <4>4. \A j \in 2 .. m - 1 : list[j] < elem
        BY <1>1, <1>3, <4>2
      <4>5. Stops(m - 1, elem)
        BY <4>3, <4>4 DEF Stops
      <4>6. QED
        BY <1>1, <2>4, <4>3, <4>5
    <3>2. \A j \in DOMAIN list : list[j] < elem
      <4> SUFFICES ASSUME NEW j \in DOMAIN list PROVE list[j] < elem
        OBVIOUS
      <4>1. CASE j = 1
        BY <2>2, <4>1
      <4>2. CASE j # 1
        <5>1. j \in 2 .. Len(list)
          BY <1>1, <4>2
        <5>2. ~(list[j] >= elem)
          BY <3>1, <5>1
        <5>3. QED
          BY <1>3, <5>2
      <4>3. QED
        BY <4>1, <4>2
    <3>3. QED
      BY <1>3, <1>4, <2>1, <3>2 DEF ToSet
  <2>5. QED
    BY <1>1, <1>2, <1>7, <2>1, <2>3, <2>4 DEF ListInsert
<1>8. QED
  BY <1>5, <1>6, <1>7

LEMMA TestElementInv == ASSUME TestInv, TestElement PROVE TestInv'
<1>1. PICK elem \in TestStarts \ ToSet(inserted) :
         /\ inserted' = Append(inserted, elem)
         /\ \/ test = "append" /\ ListAppend(elem)
            \/ test = "insert" /\ ListInsert(elem)
         /\ UNCHANGED test
  BY DEF TestElement
<1>2. elem \in Nat /\ elem \notin ToSet(inserted)
  BY <1>1, TestListAssumption
<1>3. list \in Seq(Nat) /\ inserted \in Seq(Nat) /\ Len(inserted) \in Nat
  BY DEF TestInv
<1>4. /\ inserted' \in Seq(Nat)
      /\ inserted'[1] = IF inserted = <<>> THEN elem ELSE inserted[1]
      /\ DOMAIN inserted' = DOMAIN inserted \cup {Len(inserted) + 1}
      /\ \A i \in DOMAIN inserted : inserted'[i] = inserted[i]
      /\ inserted'[Len(inserted) + 1] = elem
  BY <1>1, <1>2, <1>3
<1>5. ToSet(inserted') = ToSet(inserted) \cup {elem}
  BY <1>4 DEF ToSet
<1>6. CASE test = "append" /\ ListAppend(elem)
  BY <1>1, <1>2, <1>3, <1>4, <1>6 DEF ListAppend, TestInv, UpToFirst
<1>7. CASE test = "insert" /\ ListInsert(elem)
  <2>1. /\ list' \in Seq(Nat) /\ Increasing(list')
        /\ ToSet(list') = IF inserted = <<>> \/ elem < inserted[1]
                          THEN ToSet(list) \cup {elem} ELSE ToSet(list)
    BY <1>2, <1>7, ListInsertEffect
  <2>2. ToSet(list) = {e \in ToSet(inserted) : e <= inserted[1]}
    BY <1>7 DEF TestInv, UpToFirst
  <2>3. CASE inserted = <<>>
    <3>1. ToSet(inserted) = {}
      BY <2>3 DEF ToSet
    <3>2. ToSet(list') = {elem} /\ ToSet(inserted') = {elem} /\ inserted'[1] = elem
      BY <1>4, <1>5, <2>1, <2>2, <2>3, <3>1
    <3>3. QED
      BY <1>1, <1>2, <1>4, <1>7, <2>1, <3>2 DEF TestInv, UpToFirst, Increasing
  <2>4. CASE inserted # <<>>
    <3>1. inserted[1] \in ToSet(inserted) /\ inserted[1] \in Nat
      BY <1>3, <2>4 DEF ToSet
    <3>2. inserted'[1] = inserted[1] /\ inserted[1] # elem
      BY <1>2, <1>4, <2>4, <3>1
    <3>3. ToSet(list') = {e \in ToSet(inserted') : e <= inserted'[1]}
      BY <1>2, <1>5, <2>1, <2>2, <2>4, <3>1, <3>2
    <3>4. QED
      BY <1>1, <1>4, <1>7, <2>1, <3>3 DEF TestInv, UpToFirst, Increasing
  <2>5. QED
    BY <2>3, <2>4
<1>8. QED
  BY <1>1, <1>6, <1>7

LEMMA TestStep_Inv == TestInv /\ [TestNext]_testVars => TestInv'
<1> SUFFICES ASSUME TestInv, [TestNext]_testVars PROVE TestInv'
  OBVIOUS
<1>1. CASE Choose
  <2>1. list' = <<>> /\ inserted' = <<>> /\ test' \in {"append", "insert"}
    BY <1>1 DEF Choose, TestInv
  <2>2. ToSet(<<>>) = {} /\ <<>> \in Seq(Nat)
    BY DEF ToSet
  <2>3. QED
    BY <2>1, <2>2 DEF TestInv, UpToFirst
<1>2. CASE ListDelete
  BY <1>2 DEF ListDelete, TestInv, UpToFirst
<1>3. CASE UNCHANGED testVars
  BY <1>3 DEF testVars, TestInv, UpToFirst
<1>4. QED
  BY <1>1, <1>2, <1>3, TestElementInv DEF TestNext

\* sl_list.c, list_insert: the list is in order and has no gaps up to its last
\* element: for any elements in any order.
THEOREM InsertKeepsOrderHolds == TestSpec => []InsertKeepsOrder
<1>1. TestInit => TestInv
  <2>1. ToSet(<<>>) = {} /\ <<>> \in Seq(Nat)
    BY DEF ToSet
  <2>2. QED
    BY <2>1 DEF TestInit, TestInv, UpToFirst
<1>2. TestInv => InsertKeepsOrder
  <2> SUFFICES ASSUME TestInv, test = "insert"
               PROVE  /\ Increasing(list) /\ ToSet(list) \subseteq ToSet(inserted)
                      /\ inserted # <<>> =>
                            /\ list # <<>>
                            /\ \A elem \in ToSet(inserted) :
                                  elem <= list[Len(list)] => elem \in ToSet(list)
    BY DEF InsertKeepsOrder, Increasing
  <2>1. /\ list \in Seq(Nat) /\ Len(list) \in Nat /\ DOMAIN list = 1 .. Len(list)
        /\ inserted \in Seq(Nat) /\ DOMAIN inserted = 1 .. Len(inserted)
        /\ Increasing(list)
        /\ ToSet(list) = {elem \in ToSet(inserted) : elem <= inserted[1]}
    BY DEF TestInv, UpToFirst, Increasing
  <2>2. ASSUME inserted # <<>>
        PROVE  list # <<>> /\ list[Len(list)] = inserted[1]
    <3>1. 1 \in DOMAIN inserted /\ inserted[1] \in Nat
      BY <2>1, <2>2
    <3>2. inserted[1] \in ToSet(inserted) /\ inserted[1] <= inserted[1]
      BY <3>1 DEF ToSet
    <3>3. inserted[1] \in ToSet(list)
      BY <2>1, <3>2
    <3>4. PICK k \in DOMAIN list : list[k] = inserted[1]
      BY <3>3 DEF ToSet
    <3>5. list # <<>> /\ Len(list) \in DOMAIN list /\ k <= Len(list)
      BY <2>1, <3>4
    <3>6. list[Len(list)] \in Nat /\ list[Len(list)] <= inserted[1]
      <4>1. list[Len(list)] \in ToSet(list)
        BY <3>5 DEF ToSet
      <4>2. QED
        BY <2>1, <3>5, <4>1
    <3>7. k = Len(list) \/ list[k] < list[Len(list)]
      BY <2>1, <3>4, <3>5 DEF Increasing
    <3>8. QED
      BY <3>1, <3>4, <3>5, <3>6, <3>7
  <2>3. QED
    BY <2>1, <2>2
<1>3. QED
  BY <1>1, <1>2, TestStep_Inv, PTL DEF TestSpec

-------------------------------------------------------------------------------
(* arpjob.c *)

ArpEntries == [ip : ArpAddresses, age : Nat]

\* The remainder of a number that is less than the divisor, and of one that is
\* negative.
LEMMA Remainder ==
    ASSUME NEW m \in Nat, m >= 1, NEW d \in 0 .. m - 1
    PROVE  d % m = d /\ (d - m) % m = d
<1>1. d = m * 0 + d /\ d - m = m * (-1) + d
  OBVIOUS
<1>2. QED
  BY <1>1

\* lt is irreflexive and total on addresses; it need not be transitive.
LEMMA LtTotal ==
    ASSUME NEW x \in ArpAddresses, NEW y \in ArpAddresses
    PROVE  ~Lt(x, x) /\ (x # y => Lt(x, y) \/ Lt(y, x))
<1>1. PICK half \in Nat : half = Pow2[ArpWidth - 1] /\ half >= 1
  <2>1. ArpWidth - 1 \in Nat /\ 0 \in Nat
    BY ArpAssumption
  <2>2. Pow2[ArpWidth - 1] \in Nat /\ Pow2[ArpWidth - 1] >= 1
    BY <2>1, Pow2Divides
  <2>3. QED
    BY <2>2
<1>2. PICK all \in Nat : all = Pow2[ArpWidth] /\ all = 2 * half
  <2>1. ArpWidth - 1 \in Nat /\ (ArpWidth - 1) + 1 = ArpWidth
    BY ArpAssumption
  <2>2. QED
    BY <1>1, <2>1, Pow2Powers
<1>3. x \in 0 .. all - 1 /\ y \in 0 .. all - 1
  BY <1>2 DEF ArpAddresses
<1>4. \A a, b : Lt(a, b) <=> (a - b) % all >= half
  BY <1>1, <1>2 DEF Lt
<1>5. x - x = 0 /\ 0 % all = 0
  BY <1>1, <1>2, <1>3
<1>6. ~Lt(x, x)
  BY <1>1, <1>4, <1>5
<1>7. CASE x > y
  <2>1. x - y \in 0 .. all - 1
    BY <1>1, <1>2, <1>3, <1>7
  <2>2. (x - y) % all = x - y
    BY <1>1, <1>2, <2>1, Remainder
  <2>3. (y - x) % all = all - (x - y)
    <3>1. all - (x - y) \in 0 .. all - 1 /\ (all - (x - y)) - all = y - x
      BY <1>1, <1>2, <1>3, <1>7
    <3>2. QED
      BY <1>1, <1>2, <3>1, Remainder
  <2>4. QED
    BY <1>1, <1>2, <1>3, <1>4, <1>6, <2>2, <2>3
<1>8. CASE x < y
  <2>1. y - x \in 0 .. all - 1
    BY <1>1, <1>2, <1>3, <1>8
  <2>2. (y - x) % all = y - x
    BY <1>1, <1>2, <2>1, Remainder
  <2>3. (x - y) % all = all - (y - x)
    <3>1. all - (y - x) \in 0 .. all - 1 /\ (all - (y - x)) - all = x - y
      BY <1>1, <1>2, <1>3, <1>8
    <3>2. QED
      BY <1>1, <1>2, <3>1, Remainder
  <2>4. QED
    BY <1>1, <1>2, <1>3, <1>4, <1>6, <2>2, <2>3
<1>9. QED
  BY <1>3, <1>6, <1>7, <1>8

\* No two entries of s have the same age.
AgesDiffer(s) == \A i, j \in DOMAIN s : s[i].age = s[j].age => i = j

Ages(s) == {s[i].age : i \in DOMAIN s}

\* s is full, and has the ages in front of age, each once.
HasLatest(s, age) ==
    /\ Len(s) = ArpSize /\ age >= ArpSize
    /\ AgesDiffer(s)
    /\ Ages(s) = age - ArpSize .. age - 1

\* The table is sorted, unless its addresses go round.
SortedOr(s) == Sorted(s) \/ GoesRound(s)

\* What bsearch looks for is between from and to, if the table is sorted.
Searching(from, to, ip, s) ==
    /\ from \in 1 .. ArpSize + 1 /\ to \in 1 .. ArpSize + 1 /\ from <= to
    /\ ip = s[ArpLookup].ip
    /\ GoesRound(s) \/ (from <= ArpLookup /\ ArpLookup < to)

\* arpjob.c: while the table is filled its entries are in the order they were
\* made, the newest in front; afterwards it is full, and every age occurs once.
ArpInv ==
    /\ arp \in Seq(ArpEntries)
    /\ latest \in Nat
    /\ arpPhase \in {"generate", "replace", "search", "looked_up"}
    /\ arpPhase = "generate" =>
          /\ Len(arp) = latest /\ latest <= ArpSize
          /\ \A i \in DOMAIN arp : arp[i].age = latest - i
    /\ arpPhase # "generate" => HasLatest(arp, latest) /\ SortedOr(arp)
    /\ arpPhase = "search" => Searching(low, high, key, arp)
    /\ MissGoesRound

\* Entries are in the order of lt, those with equal addresses in that of their
\* places.
Before(s, i, j) ==
    \/ Lt(s[i].ip, s[j].ip)
    \/ s[i].ip = s[j].ip /\ i < j

\* If no addresses go round, that is a total order.
LEMMA BeforeIsOrder ==
    ASSUME NEW s \in Seq(ArpEntries), ~GoesRound(s)
    PROVE  /\ \A i \in DOMAIN s : ~Before(s, i, i)
           /\ \A i, j \in DOMAIN s : i # j => Before(s, i, j) \/ Before(s, j, i)
           /\ \A i, j, k \in DOMAIN s :
                 Before(s, i, j) /\ Before(s, j, k) => Before(s, i, k)
<1>1. DOMAIN s = 1 .. Len(s) /\ Len(s) \in Nat /\ \A i \in DOMAIN s : s[i].ip \in ArpAddresses
  <2>1. \A i \in DOMAIN s : s[i] \in ArpEntries
    OBVIOUS
  <2>2. QED
    BY <2>1 DEF ArpEntries
<1>2. \A i, j \in DOMAIN s :
         /\ ~Lt(s[i].ip, s[i].ip)
         /\ s[i].ip # s[j].ip => Lt(s[i].ip, s[j].ip) \/ Lt(s[j].ip, s[i].ip)
  BY <1>1, LtTotal
<1>3. \A i, j \in DOMAIN s : ~(Lt(s[i].ip, s[j].ip) /\ Lt(s[j].ip, s[i].ip))
  BY DEF GoesRound
<1>4. \A i, j, k \in DOMAIN s :
         ~(Lt(s[i].ip, s[j].ip) /\ Lt(s[j].ip, s[k].ip) /\ Lt(s[k].ip, s[i].ip))
  BY DEF GoesRound
<1>5. ASSUME NEW i \in DOMAIN s PROVE ~Before(s, i, i)
  <2>1. ~(i < i)
    BY <1>1
  <2>2. ~Lt(s[i].ip, s[i].ip)
    BY <1>2
  <2>3. QED
    BY <2>1, <2>2 DEF Before
<1>6. \A i, j \in DOMAIN s : i # j => Before(s, i, j) \/ Before(s, j, i)
  BY <1>1, <1>2 DEF Before
<1>7. ASSUME NEW i \in DOMAIN s, NEW j \in DOMAIN s, NEW k \in DOMAIN s,
             Before(s, i, j), Before(s, j, k)
      PROVE  Before(s, i, k)
  <2>1. CASE s[i].ip = s[j].ip /\ s[j].ip = s[k].ip
    <3>1. i < j /\ j < k
      BY <1>2, <1>7, <2>1 DEF Before
    <3>2. i < k
      BY <1>1, <3>1
    <3>3. QED
      BY <2>1, <3>2 DEF Before
  <2>2. CASE s[i].ip = s[j].ip /\ s[j].ip # s[k].ip
    BY <1>7, <2>2 DEF Before
  <2>3. CASE s[i].ip # s[j].ip /\ s[j].ip = s[k].ip
    BY <1>7, <2>3 DEF Before
  <2>4. CASE s[i].ip # s[j].ip /\ s[j].ip # s[k].ip
    <3>1. Lt(s[i].ip, s[j].ip) /\ Lt(s[j].ip, s[k].ip)
      BY <1>7, <2>4 DEF Before
    <3>2. s[i].ip # s[k].ip
      BY <1>3, <3>1
    <3>3. Lt(s[i].ip, s[k].ip) \/ Lt(s[k].ip, s[i].ip)
      BY <1>2, <3>2
    <3>4. ~Lt(s[k].ip, s[i].ip)
      BY <1>4, <3>1
    <3>5. QED
      BY <3>3, <3>4 DEF Before
  <2>5. QED
    BY <2>1, <2>2, <2>3, <2>4
<1>8. QED
  BY <1>5, <1>6, <1>7

\* So the entries can be put in order.
LEMMA CanBeSorted ==
    ASSUME NEW s \in Seq(ArpEntries), ~GoesRound(s)
    PROVE  \E t \in Arrangements(s) : Sorted(t)
<1>1. PICK n \in Nat : n = Len(s) /\ DOMAIN s = 1 .. n
  OBVIOUS
<1> DEFINE R == {p \in (1 .. n) \X (1 .. n) : Before(s, p[1], p[2])}
<1>2. \A i, j \in 1 .. n : <<i, j>> \in R <=> Before(s, i, j)
  OBVIOUS
<1> HIDE DEF R
<1>3. IsOrder(R, n)
  BY <1>1, <1>2, BeforeIsOrder DEF IsOrder
<1>4. PICK g : PutsInOrder(g, R, n)
  BY <1>3, CanBePutInOrder
<1>5. /\ g \in [1 .. n -> 1 .. n]
      /\ \A k, m \in 1 .. n : g[k] = g[m] => k = m
      /\ \A k, m \in 1 .. n : k < m => ~Before(s, g[m], g[k])
  BY <1>2, <1>4 DEF PutsInOrder
<1> DEFINE t == [k \in 1 .. n |-> s[g[k]]]
<1>6. t \in Arrangements(s)
  BY <1>1, <1>5 DEF Arrangements
<1>7. Sorted(t)
  BY <1>5 DEF Sorted, Before
<1>8. QED
  BY <1>6, <1>7

\* qsort, whatever it does with a comparison that is no order, moves entries:
\* every entry is in one place of the table it leaves.
LEMMA SortMoves ==
    ASSUME NEW s \in Seq(ArpEntries), NEW t \in SortedByAddress(s)
    PROVE  \E g \in [DOMAIN s -> DOMAIN s] :
              /\ t = [i \in DOMAIN s |-> s[g[i]]]
              /\ \A i, j \in DOMAIN s : g[i] = g[j] => i = j
              /\ \A k \in DOMAIN s : \E i \in DOMAIN s : g[i] = k
<1>1. t \in Arrangements(s)
  BY DEF SortedByAddress
<1>2. PICK g \in [DOMAIN s -> DOMAIN s] :
         /\ t = [i \in DOMAIN s |-> s[g[i]]]
         /\ \A i, j \in DOMAIN s : g[i] = g[j] => i = j
  BY <1>1 DEF Arrangements
<1>3. PICK n \in Nat : n = Len(s) /\ DOMAIN s = 1 .. n
  OBVIOUS
<1>4. /\ g \in [1 .. n -> 1 .. n]
      /\ \A i, j \in 1 .. n : g[i] = g[j] => i = j
  BY <1>2, <1>3
<1>5. \A k \in 1 .. n : \E i \in 1 .. n : g[i] = k
  BY <1>4, ArrangementIsOnto
<1>6. \A k \in DOMAIN s : \E i \in DOMAIN s : g[i] = k
  BY <1>3, <1>5
<1>7. QED
  BY <1>2, <1>6, Zenon

\* It leaves the table sorted, unless the addresses go round.
LEMMA SortedUnlessRound ==
    ASSUME NEW s \in Seq(ArpEntries), NEW t \in SortedByAddress(s)
    PROVE  SortedOr(t)
<1>1. CASE ~GoesRound(s)
  <2>1. PICK v \in Arrangements(s) : Sorted(v)
    BY <1>1, CanBeSorted
  <2>2. Sorted(t)
    BY <2>1 DEF SortedByAddress
  <2>3. QED
    BY <2>2 DEF SortedOr
<1>2. CASE GoesRound(s)
  <2>1. PICK g \in [DOMAIN s -> DOMAIN s] :
           /\ t = [i \in DOMAIN s |-> s[g[i]]]
           /\ \A i, j \in DOMAIN s : g[i] = g[j] => i = j
           /\ \A k \in DOMAIN s : \E i \in DOMAIN s : g[i] = k
    BY SortMoves
  <2>2. ASSUME NEW k \in DOMAIN s PROVE \E i \in DOMAIN t : t[i].ip = s[k].ip
    <3>1. PICK i \in DOMAIN s : g[i] = k
      BY <2>1
    <3>2. i \in DOMAIN t /\ t[i] = s[k]
      BY <2>1, <3>1
    <3>3. QED
      BY <3>2
  <2>3. PICK i \in DOMAIN s, j \in DOMAIN s :
           /\ Lt(s[i].ip, s[j].ip)
           /\ \/ Lt(s[j].ip, s[i].ip)
              \/ \E k \in DOMAIN s : Lt(s[j].ip, s[k].ip) /\ Lt(s[k].ip, s[i].ip)
    BY <1>2 DEF GoesRound
  <2>4. PICK a \in DOMAIN t, b \in DOMAIN t : t[a].ip = s[i].ip /\ t[b].ip = s[j].ip
    BY <2>2
  <2>5. CASE Lt(s[j].ip, s[i].ip)
    BY <2>3, <2>4, <2>5 DEF GoesRound, SortedOr
  <2>6. CASE \E k \in DOMAIN s : Lt(s[j].ip, s[k].ip) /\ Lt(s[k].ip, s[i].ip)
    <3>1. PICK k \in DOMAIN s : Lt(s[j].ip, s[k].ip) /\ Lt(s[k].ip, s[i].ip)
      BY <2>6
    <3>2. PICK c \in DOMAIN t : t[c].ip = s[k].ip
      BY <2>2
    <3>3. QED
      BY <2>3, <2>4, <3>1, <3>2 DEF GoesRound, SortedOr
  <2>7. QED
    BY <2>3, <2>5, <2>6
<1>3. QED
  BY <1>1, <1>2

\* The ages are the same as before.
LEMMA SortKeepsAges ==
    ASSUME NEW s \in Seq(ArpEntries), AgesDiffer(s), NEW t \in SortedByAddress(s)
    PROVE  /\ t \in Seq(ArpEntries) /\ Len(t) = Len(s)
           /\ AgesDiffer(t) /\ Ages(t) = Ages(s)
<1>1. PICK g \in [DOMAIN s -> DOMAIN s] :
         /\ t = [i \in DOMAIN s |-> s[g[i]]]
         /\ \A i, j \in DOMAIN s : g[i] = g[j] => i = j
         /\ \A k \in DOMAIN s : \E i \in DOMAIN s : g[i] = k
  BY SortMoves
<1>2. /\ t = [i \in DOMAIN s |-> s[g[i]]]
      /\ \A i, j \in DOMAIN s : g[i] = g[j] => i = j
  BY <1>1
<1>3. Len(s) \in Nat /\ DOMAIN s = 1 .. Len(s) /\ \A i \in 1 .. Len(s) : s[i] \in ArpEntries
  OBVIOUS
<1>4. t \in Seq(ArpEntries) /\ Len(t) = Len(s) /\ DOMAIN t = DOMAIN s
  BY <1>2, <1>3
<1>5. \A i \in DOMAIN s : g[i] \in DOMAIN s /\ t[i] = s[g[i]]
  BY <1>2
<1>6. AgesDiffer(t)
  <2>1. SUFFICES ASSUME NEW i \in DOMAIN s, NEW j \in DOMAIN s, t[i].age = t[j].age
                 PROVE  i = j
    BY <1>4 DEF AgesDiffer
  <2>2. s[g[i]].age = s[g[j]].age /\ g[i] \in DOMAIN s /\ g[j] \in DOMAIN s
    BY <1>5, <2>1
  <2>3. g[i] = g[j]
    BY <2>2 DEF AgesDiffer
  <2>4. QED
    BY <1>2, <2>3
<1>7. \A k \in DOMAIN s : \E i \in DOMAIN s : g[i] = k
  BY <1>1
<1>8. Ages(t) = Ages(s)
  <2>1. DOMAIN t = DOMAIN s
    BY <1>4
  <2>2. \A i \in DOMAIN s : g[i] \in DOMAIN s /\ t[i].age = s[g[i]].age
    BY <1>5, Zenon
  <2>3. ASSUME NEW k \in DOMAIN s PROVE \E i \in DOMAIN t : s[k].age = t[i].age
    <3>1. PICK i \in DOMAIN s : g[i] = k
      BY <1>7
    <3>2. t[i].age = s[k].age
      BY <2>2, <3>1, Zenon
    <3>3. QED
      BY <2>1, <3>1, <3>2, Zenon
  <2>4. ASSUME NEW a \in Ages(t) PROVE a \in Ages(s)
    <3>1. PICK i \in DOMAIN t : t[i].age = a
      BY DEF Ages
    <3>2. g[i] \in DOMAIN s /\ s[g[i]].age = a
      BY <2>1, <2>2, <3>1
    <3>3. QED
      BY <3>2 DEF Ages
  <2>5. ASSUME NEW a \in Ages(s) PROVE a \in Ages(t)
    <3>1. PICK k \in DOMAIN s : s[k].age = a
      BY DEF Ages
    <3>2. PICK i \in DOMAIN t : t[i].age = a
      BY <2>3, <3>1
    <3>3. QED
      BY <3>2 DEF Ages
  <2>6. QED
    BY <2>4, <2>5
<1>9. QED
  BY <1>4, <1>6, <1>8

LEMMA GenerateInv == ArpInv /\ Generate => ArpInv'
<1> SUFFICES ASSUME ArpInv, Generate PROVE ArpInv'
  OBVIOUS
<1> USE ArpAssumption
<1>1. PICK ip \in ArpAddresses : arp' = <<Entry(ip)>> \o arp
  BY DEF Generate
<1>2. Entry(ip) \in ArpEntries /\ Entry(ip).age = latest
  BY DEF Entry, ArpEntries, ArpInv
<1>3. /\ arp' \in Seq(ArpEntries) /\ Len(arp') = Len(arp) + 1
      /\ \A i \in 1 .. Len(arp') : arp'[i] = IF i = 1 THEN Entry(ip) ELSE arp[i - 1]
  BY <1>1, <1>2 DEF ArpInv
<1>4. /\ arpPhase = "generate" /\ arpPhase' = "generate" /\ latest' = latest + 1
      /\ latest \in Nat /\ Len(arp) = latest /\ latest < ArpSize
      /\ \A i \in 1 .. latest : arp[i].age = latest - i
  <2>1. /\ arp \in Seq(ArpEntries) /\ latest \in Nat /\ Len(arp) = latest
        /\ \A i \in DOMAIN arp : arp[i].age = latest - i
    BY DEF Generate, ArpInv
  <2>2. DOMAIN arp = 1 .. latest
    BY <2>1
  <2>3. QED
    BY <2>1, <2>2 DEF Generate
<1>5. \A i \in DOMAIN arp' : arp'[i].age = latest' - i
  <2>1. SUFFICES ASSUME NEW i \in 1 .. latest + 1 PROVE arp'[i].age = latest' - i
    BY <1>3, <1>4
  <2>2. CASE i = 1
    BY <1>2, <1>3, <1>4, <2>2
  <2>3. CASE i # 1
    BY <1>3, <1>4, <2>3
  <2>4. QED
    BY <2>2, <2>3
<1>6. QED
  BY <1>3, <1>4, <1>5 DEF ArpInv, MissGoesRound

LEMMA GeneratedInv == ArpInv /\ Generated => ArpInv'
<1> SUFFICES ASSUME ArpInv, Generated PROVE ArpInv'
  OBVIOUS
<1> USE ArpAssumption
<1>1. /\ arp \in Seq(ArpEntries) /\ latest \in Nat
      /\ Len(arp) = ArpSize /\ latest = ArpSize /\ DOMAIN arp = 1 .. ArpSize
      /\ \A i \in 1 .. ArpSize : arp[i].age = ArpSize - i
  BY DEF Generated, ArpInv
<1>2. AgesDiffer(arp)
  BY <1>1 DEF AgesDiffer
<1>3. Ages(arp) = latest - ArpSize .. latest - 1
  <2>1. \A a \in 0 .. ArpSize - 1 : ArpSize - a \in 1 .. ArpSize /\ arp[ArpSize - a].age = a
    BY <1>1
  <2>2. QED
    BY <1>1, <2>1 DEF Ages
<1>4. PICK t : t = arp' /\ t \in SortedByAddress(arp)
  BY DEF Generated
<1>5. /\ t \in Seq(ArpEntries) /\ Len(t) = Len(arp) /\ AgesDiffer(t) /\ Ages(t) = Ages(arp)
  BY <1>1, <1>2, <1>4, SortKeepsAges
<1>6. arpPhase' = "replace" /\ latest' = latest
  BY DEF Generated
<1>7. HasLatest(t, latest)
  BY <1>1, <1>3, <1>5 DEF HasLatest
<1>8. SortedOr(t)
  BY <1>1, <1>4, SortedUnlessRound
<1>9. QED
  BY <1>1, <1>4, <1>5, <1>6, <1>7, <1>8 DEF ArpInv, MissGoesRound

\* replace1 finds the entry of age latest - ArpSize, as it is the one that all
\* others are younger than.
LEMMA Replace1Inv == ArpInv /\ Replace1 => ArpInv'
<1> SUFFICES ASSUME ArpInv, Replace1 PROVE ArpInv'
  OBVIOUS
<1> USE ArpAssumption
<1>1. PICK i \in DOMAIN arp, ip \in ArpAddresses :
         /\ \A j \in DOMAIN arp \ {i} : Oldest(arp[i], arp[j])
         /\ arp' \in SortedByAddress([arp EXCEPT ![i] = Entry(ip)])
  BY DEF Replace1
<1> DEFINE s == [arp EXCEPT ![i] = Entry(ip)]
           old == latest - ArpSize
<1>2. /\ arp \in Seq(ArpEntries) /\ latest \in Nat /\ latest >= ArpSize
      /\ Len(arp) = ArpSize /\ DOMAIN arp = 1 .. ArpSize
      /\ AgesDiffer(arp) /\ Ages(arp) = old .. latest - 1
      /\ \A j \in 1 .. ArpSize : arp[j] \in ArpEntries /\ arp[j].age \in Nat
  <2>1. arp \in Seq(ArpEntries) /\ latest \in Nat /\ HasLatest(arp, latest)
    BY DEF Replace1, ArpInv
  <2>2. Len(arp) = ArpSize /\ DOMAIN arp = 1 .. ArpSize
    BY <2>1 DEF HasLatest
  <2>3. \A j \in 1 .. ArpSize : arp[j] \in ArpEntries
    BY <2>1, <2>2
  <2>4. QED
    BY <2>1, <2>2, <2>3 DEF HasLatest, ArpEntries
<1>3. Entry(ip) \in ArpEntries /\ Entry(ip).age = latest
  BY <1>2 DEF Entry, ArpEntries
<1>4. /\ s \in Seq(ArpEntries) /\ Len(s) = ArpSize /\ DOMAIN s = 1 .. ArpSize
      /\ s[i].age = latest /\ \A j \in DOMAIN arp \ {i} : s[j] = arp[j]
  BY <1>2, <1>3
<1> HIDE DEF s
<1>5. \A j \in DOMAIN arp : arp[j].age \in old .. latest - 1
  BY <1>2 DEF Ages
<1>6. \A a \in old .. latest - 1 : \E j \in DOMAIN arp : arp[j].age = a
  BY <1>2 DEF Ages
<1>7. arp[i].age = old
  <2>1. PICK k \in DOMAIN arp : arp[k].age = old
    BY <1>2, <1>6
  <2>2. ASSUME k # i PROVE FALSE
    BY <1>1, <1>2, <1>5, <2>1, <2>2 DEF Oldest
  <2>3. QED
    BY <2>1, <2>2
<1>8. AgesDiffer(s)
  <2>1. ASSUME NEW j \in 1 .. ArpSize, j # i PROVE s[j].age # latest
    <3>1. s[j] = arp[j] /\ arp[j].age \in old .. latest - 1
      BY <1>2, <1>4, <1>5, <2>1
    <3>2. QED
      BY <1>2, <3>1
  <2>2. \A j, k \in 1 .. ArpSize : j # i /\ k # i /\ s[j].age = s[k].age => j = k
    BY <1>2, <1>4 DEF AgesDiffer
  <2>3. QED
    BY <1>2, <1>4, <2>1, <2>2 DEF AgesDiffer
<1>9. Ages(s) = old + 1 .. latest
  <2>1. \A j \in DOMAIN s : s[j].age \in old + 1 .. latest
    <3>1. SUFFICES ASSUME NEW j \in DOMAIN s, j # i PROVE s[j].age \in old + 1 .. latest
      BY <1>2, <1>4
    <3>2. s[j].age = arp[j].age /\ arp[j].age # old
      BY <1>2, <1>4, <1>7, <3>1 DEF AgesDiffer
    <3>3. arp[j].age \in old .. latest - 1
      BY <1>2, <1>4, <1>5, <3>1
    <3>4. latest \in Nat /\ old \in Int
      BY <1>2
    <3>5. QED
      BY <3>2, <3>3, <3>4
  <2>2. ASSUME NEW a \in old + 1 .. latest PROVE \E j \in DOMAIN s : s[j].age = a
    <3>1. CASE a = latest
      <4>1. i \in DOMAIN s /\ s[i].age = latest
        BY <1>2, <1>4
      <4>2. QED
        BY <3>1, <4>1
    <3>2. CASE a # latest
      <4>1. PICK j \in DOMAIN arp : arp[j].age = a
        <5>1. a \in old .. latest - 1
          BY <1>2, <3>2, ArpAssumption
        <5>2. QED
          BY <1>6, <5>1
      <4>2. j # i
        BY <1>2, <1>7, <4>1
      <4>3. QED
        BY <1>2, <1>4, <4>1, <4>2
    <3>3. QED
      BY <3>1, <3>2
  <2>3. QED
    BY <2>1, <2>2 DEF Ages
<1>10. PICK t : t = arp' /\ t \in SortedByAddress(s)
  BY <1>1 DEF s
<1>11. /\ t \in Seq(ArpEntries) /\ Len(t) = ArpSize /\ AgesDiffer(t)
       /\ Ages(t) = old + 1 .. latest
  BY <1>4, <1>8, <1>9, <1>10, SortKeepsAges
<1>12. arpPhase' = "replace" /\ latest' = latest + 1
  BY DEF Replace1
<1>13. latest' - ArpSize = old + 1 /\ latest' - 1 = latest
  BY <1>2, <1>12
<1>14. PICK n \in Nat : n = latest'
  BY <1>2, <1>12
<1>15. HasLatest(t, n)
  BY <1>2, <1>11, <1>12, <1>13, <1>14 DEF HasLatest
<1>16. SortedOr(t)
  BY <1>4, <1>10, SortedUnlessRound
<1>17. QED
  BY <1>10, <1>11, <1>12, <1>14, <1>15, <1>16 DEF ArpInv, MissGoesRound

\* What the invariant says while bsearch looks.
LEMMA WhileSearching ==
    ASSUME ArpInv, arpPhase = "search", low < high
    PROVE  /\ low \in 1 .. ArpSize + 1 /\ high \in 1 .. ArpSize + 1
           /\ Half \in 1 .. ArpSize /\ low <= Half /\ Half < high
           /\ DOMAIN arp = 1 .. ArpSize /\ \A i \in 1 .. ArpSize : arp[i].ip \in ArpAddresses
           /\ key = arp[ArpLookup].ip /\ ArpLookup \in 1 .. ArpSize /\ ArpSize \in Nat
<1>1. low \in 1 .. ArpSize + 1 /\ high \in 1 .. ArpSize + 1 /\ key = arp[ArpLookup].ip
  BY DEF ArpInv, Searching
<1>2. ArpSize \in Nat /\ ArpLookup \in 1 .. ArpSize
  BY ArpAssumption
<1>3. Half \in 1 .. ArpSize /\ low <= Half /\ Half < high
  BY <1>1, <1>2 DEF Half
<1>4. arp \in Seq(ArpEntries) /\ Len(arp) = ArpSize
  BY DEF ArpInv, HasLatest
<1>5. DOMAIN arp = 1 .. ArpSize /\ \A i \in 1 .. ArpSize : arp[i] \in ArpEntries
  BY <1>4
<1>6. QED
  BY <1>1, <1>2, <1>3, <1>5 DEF ArpEntries

LEMMA LookBelowInv == ArpInv /\ LookBelow => ArpInv'
<1> SUFFICES ASSUME ArpInv, LookBelow PROVE ArpInv'
  OBVIOUS
<1>1. /\ arpPhase = "search" /\ low < high /\ Lt(key, arp[Half].ip)
      /\ high' = Half /\ UNCHANGED <<arp, latest, arpPhase, key, low>>
  BY DEF LookBelow
<1>2. /\ low \in 1 .. ArpSize + 1 /\ high \in 1 .. ArpSize + 1
      /\ Half \in 1 .. ArpSize /\ low <= Half /\ Half < high
      /\ DOMAIN arp = 1 .. ArpSize /\ \A i \in 1 .. ArpSize : arp[i].ip \in ArpAddresses
      /\ key = arp[ArpLookup].ip /\ ArpLookup \in 1 .. ArpSize /\ ArpSize \in Nat
  BY <1>1, WhileSearching
<1>3. ASSUME ~GoesRound(arp) PROVE low <= ArpLookup /\ ArpLookup < Half
  <2>1. low <= ArpLookup /\ Sorted(arp)
    BY <1>1, <1>3 DEF ArpInv, Searching, SortedOr
  <2>2. ArpLookup # Half
    BY <1>1, <1>2, LtTotal
  <2>3. ~(Half < ArpLookup)
    <3>1. arp[Half].ip # arp[ArpLookup].ip
      BY <1>1, <1>2, LtTotal
    <3>2. QED
      BY <1>1, <1>2, <2>1, <3>1 DEF Sorted
  <2>4. QED
    BY <1>2, <2>1, <2>2, <2>3
<1>4. Half \in 1 .. ArpSize + 1
  BY <1>2
<1>5. GoesRound(arp) \/ (low <= ArpLookup /\ ArpLookup < Half)
  BY <1>3, Zenon
<1>6. Searching(low, Half, key, arp)
  BY <1>2, <1>4, <1>5 DEF Searching
<1>7. QED
  BY <1>1, <1>6 DEF ArpInv, MissGoesRound

LEMMA LookAboveInv == ArpInv /\ LookAbove => ArpInv'
<1> SUFFICES ASSUME ArpInv, LookAbove PROVE ArpInv'
  OBVIOUS
<1>1. /\ arpPhase = "search" /\ low < high
      /\ key # arp[Half].ip /\ ~Lt(key, arp[Half].ip)
      /\ low' = Half + 1 /\ UNCHANGED <<arp, latest, arpPhase, key, high>>
  BY DEF LookAbove
<1>2. /\ low \in 1 .. ArpSize + 1 /\ high \in 1 .. ArpSize + 1
      /\ Half \in 1 .. ArpSize /\ low <= Half /\ Half < high
      /\ DOMAIN arp = 1 .. ArpSize /\ \A i \in 1 .. ArpSize : arp[i].ip \in ArpAddresses
      /\ key = arp[ArpLookup].ip /\ ArpLookup \in 1 .. ArpSize /\ ArpSize \in Nat
  BY <1>1, WhileSearching
<1>3. ASSUME ~GoesRound(arp) PROVE Half + 1 <= ArpLookup /\ ArpLookup < high
  <2>1. ArpLookup < high /\ Sorted(arp)
    BY <1>1, <1>3 DEF ArpInv, Searching, SortedOr
  <2>2. ArpLookup # Half
    BY <1>1, <1>2
  <2>3. ~(ArpLookup < Half)
    <3>1. Lt(arp[Half].ip, arp[ArpLookup].ip)
      BY <1>1, <1>2, LtTotal
    <3>2. QED
      BY <1>1, <1>2, <2>1, <3>1 DEF Sorted
  <2>4. QED
    BY <1>2, <2>1, <2>2, <2>3
<1>4. Half + 1 \in 1 .. ArpSize + 1 /\ Half + 1 <= high
  BY <1>2
<1>5. GoesRound(arp) \/ (Half + 1 <= ArpLookup /\ ArpLookup < high)
  BY <1>3, Zenon
<1>6. Searching(Half + 1, high, key, arp)
  BY <1>2, <1>4, <1>5 DEF Searching
<1>7. QED
  BY <1>1, <1>6 DEF ArpInv, MissGoesRound

LEMMA ArpStep_Inv == ArpInv /\ [ArpNext]_arpVars => ArpInv'
<1> SUFFICES ASSUME ArpInv, [ArpNext]_arpVars PROVE ArpInv'
  OBVIOUS
<1>1. CASE LookUp
  <2>1. /\ arpPhase = "replace" /\ arpPhase' = "search" /\ UNCHANGED <<arp, latest>>
        /\ key' = arp[ArpLookup].ip /\ low' = 1 /\ high' = ArpSize + 1
    BY <1>1 DEF LookUp
  <2>2. Searching(1, ArpSize + 1, arp[ArpLookup].ip, arp)
    BY ArpAssumption DEF Searching
  <2>3. QED
    BY <2>1, <2>2 DEF ArpInv, MissGoesRound
<1>2. CASE LookFinds
  <2>1. /\ arpPhase = "search" /\ arpPhase' = "looked_up" /\ UNCHANGED <<arp, latest>>
        /\ hit' = Half /\ low < high
    BY <1>2 DEF LookFinds
  <2>2. hit' # 0
    BY <2>1, WhileSearching
  <2>3. QED
    BY <2>1, <2>2 DEF ArpInv, MissGoesRound
<1>3. CASE LookFails
  <2>1. /\ arpPhase = "search" /\ arpPhase' = "looked_up" /\ UNCHANGED <<arp, latest>>
        /\ low = high
    BY <1>3 DEF LookFails
  <2>2. Searching(low, high, key, arp)
    BY <2>1 DEF ArpInv
  <2>3. GoesRound(arp)
    BY <2>1, <2>2, ArpAssumption DEF Searching
  <2>4. QED
    BY <2>1, <2>3 DEF ArpInv, MissGoesRound
<1>4. CASE UNCHANGED arpVars
  BY <1>4 DEF arpVars, lookup, ArpInv, MissGoesRound
<1>5. QED
  BY <1>1, <1>2, <1>3, <1>4, GenerateInv, GeneratedInv, Replace1Inv,
     LookBelowInv, LookAboveInv DEF ArpNext

LEMMA ArpInit_Inv == ArpInit => ArpInv
BY ArpAssumption DEF ArpInit, ArpInv, MissGoesRound

\* arpjob.c, replace1: however qsort leaves the table in between, the entries
\* made last are the ones in it: for any width of the addresses and any table.
THEOREM KeepsLatestHolds == ArpSpec => []KeepsLatest
<1>1. ArpInv => KeepsLatest
  BY DEF ArpInv, HasLatest, KeepsLatest, Ages
<1>2. QED
  BY <1>1, ArpInit_Inv, ArpStep_Inv, PTL DEF ArpSpec

\* arpjob.c:82: bsearch misses an entry of the table only if addresses of the
\* table go round: for any width of the addresses, any table and any entry.
THEOREM MissGoesRoundHolds == ArpSpec => []MissGoesRound
<1>1. ArpInv => MissGoesRound
  BY DEF ArpInv
<1>2. QED
  BY <1>1, ArpInit_Inv, ArpStep_Inv, PTL DEF ArpSpec

-------------------------------------------------------------------------------
(* cidr.c *)

\* Division leaves the greatest multiple that is not above the number.
LEMMA Quotient ==
    ASSUME NEW a \in Nat, NEW b \in Nat, b >= 1
    PROVE  /\ a \div b \in Nat
           /\ (a \div b) * b <= a /\ a < (a \div b) * b + b
<1>1. PICK q \in Int : q = a \div b
  OBVIOUS
<1>2. a = b * q + (a % b) /\ a % b \in 0 .. b - 1
  BY <1>1
<1>3. q * b <= a /\ a < q * b + b
  BY <1>2
<1>4. q >= 0
  <2>1. ASSUME q <= -1 PROVE FALSE
    <3>1. q * b + b <= 0
      BY <2>1
    <3>2. QED
      BY <1>3, <3>1
  <2>2. QED
    BY <2>1
<1>5. QED
  BY <1>1, <1>3, <1>4

\* Different multiples are at least the divisor apart.
LEMMA Multiples ==
    ASSUME NEW x \in Int, NEW y \in Int, NEW b \in Nat, x * b < y * b
    PROVE  x < y /\ x * b + b <= y * b
<1>1. x < y
  <2>1. ASSUME y <= x PROVE FALSE
    <3>1. y * b <= x * b
      BY <2>1
    <3>2. QED
      BY <3>1
  <2>2. QED
    BY <2>1
<1>2. (x + 1) * b <= y * b
  BY <1>1
<1>3. (x + 1) * b = x * b + b
  OBVIOUS
<1>4. QED
  BY <1>1, <1>2, <1>3

LEMMA Compared ==
    ASSUME NEW a \in Nat, NEW q \in Nat, NEW b \in Nat, b >= 1
    PROVE  /\ a \div b < q <=> a < q * b
           /\ a \div b > q <=> a >= q * b + b
           /\ a \div b = q <=> q * b <= a /\ a < q * b + b
<1>1. PICK d \in Nat : d = a \div b /\ d * b <= a /\ a < d * b + b
  BY Quotient
<1>2. (d + 1) * b = d * b + b /\ (q + 1) * b = q * b + b
  OBVIOUS
<1>3. ASSUME d < q PROVE a < q * b
  <2>1. (d + 1) * b <= q * b
    BY <1>3
  <2>2. QED
    BY <1>1, <1>2, <2>1
<1>4. ASSUME d > q PROVE a >= q * b + b
  <2>1. (q + 1) * b <= d * b
    BY <1>4
  <2>2. QED
    BY <1>1, <1>2, <2>1
<1>5. d = q => q * b <= a /\ a < q * b + b
  BY <1>1
<1>6. q * b <= q * b + b
  OBVIOUS
<1>7. QED
  BY <1>1, <1>3, <1>4, <1>5, <1>6

\* The addresses with the same prefix of len bits as the first of them.
Block(len) == Pow2[Width - len]

\* An entry that printEntry has cut down to its prefix.
Cut(e) ==
    /\ e \in [ip : Nat, len : 0 .. Width]
    /\ e.ip = PrefixOf(e) * Block(e.len)

LEMMA BlockType ==
    ASSUME NEW len \in 0 .. Width
    PROVE  Block(len) \in Nat /\ Block(len) >= 1
<1>1. Width - len \in Nat
  BY RoutingAssumption
<1>2. QED
  BY <1>1, Pow2Divides DEF Block

\* An address has the prefix of an entry if it is in the entry's block.
LEMMA InBlock ==
    ASSUME NEW e, Cut(e), NEW a \in Nat
    PROVE  /\ Prefix(a, e.len) < PrefixOf(e) <=> a < e.ip
           /\ Prefix(a, e.len) > PrefixOf(e) <=> a >= e.ip + Block(e.len)
           /\ Prefix(a, e.len) = PrefixOf(e) <=> e.ip <= a /\ a < e.ip + Block(e.len)
<1>1. PICK b \in Nat : b = Block(e.len) /\ b >= 1
  BY BlockType DEF Cut
<1>2. e.ip \in Nat
  BY DEF Cut
<1>3. PICK q \in Nat : q = PrefixOf(e)
  <2>1. e.ip \div b \in Nat
    BY <1>1, <1>2, Quotient
  <2>2. QED
    BY <1>1, <2>1 DEF PrefixOf, Prefix, Block
<1>4. e.ip = q * b
  BY <1>1, <1>3 DEF Cut
<1>5. Prefix(a, e.len) = a \div b
  BY <1>1 DEF Prefix, Block
<1>6. /\ a \div b < q <=> a < q * b
      /\ a \div b > q <=> a >= q * b + b
      /\ a \div b = q <=> q * b <= a /\ a < q * b + b
  BY <1>1, Compared
<1>7. QED
  BY <1>1, <1>3, <1>4, <1>5, <1>6

\* Two blocks are apart, or the one with the longer prefix is inside the other.
LEMMA BlocksNest ==
    ASSUME NEW e, NEW f, Cut(e), Cut(f), e.len >= f.len
    PROVE  \/ e.ip + Block(e.len) <= f.ip
           \/ f.ip + Block(f.len) <= e.ip
           \/ f.ip <= e.ip /\ e.ip + Block(e.len) <= f.ip + Block(f.len)
<1>1. PICK b \in Nat : b = Block(e.len) /\ b >= 1
  BY BlockType DEF Cut
<1>2. PICK x \in Nat : e.ip = x * b
  <2>1. e.ip \in Nat
    BY DEF Cut
  <2>2. e.ip \div b \in Nat
    BY <1>1, <2>1, Quotient
  <2>3. e.ip = (e.ip \div b) * b
    BY <1>1 DEF Cut, PrefixOf, Prefix, Block
  <2>4. QED
    BY <2>2, <2>3
<1>3. PICK m \in Nat : Block(f.len) = m * b
  <2>1. Width \in Nat /\ e.len \in 0 .. Width /\ f.len \in 0 .. Width
    BY RoutingAssumption DEF Cut
  <2>2. PICK c \in Nat, d \in Nat : c = Width - e.len /\ d = e.len - f.len /\ c + d = Width - f.len
    BY <2>1
  <2>3. Pow2[d] \in Nat /\ Pow2[c + d] = Pow2[d] * Pow2[c]
    BY Pow2Divides
  <2>4. QED
    BY <1>1, <2>2, <2>3 DEF Block
<1>4. PICK y \in Nat : f.ip = y * (m * b)
  <2>1. f.ip \in Nat /\ Block(f.len) \in Nat /\ Block(f.len) >= 1
    BY BlockType DEF Cut
  <2>2. f.ip \div Block(f.len) \in Nat
    BY <2>1, Quotient
  <2>3. f.ip = (f.ip \div Block(f.len)) * Block(f.len)
    BY DEF Cut, PrefixOf, Prefix, Block
  <2>4. QED
    BY <1>3, <2>2, <2>3
<1>5. y * (m * b) = (y * m) * b /\ y * m \in Nat
  OBVIOUS
<1>6. PICK z \in Nat : f.ip = z * b
  BY <1>4, <1>5
<1>7. (z + m) * b = z * b + m * b
  OBVIOUS
<1>8. f.ip + Block(f.len) = (z + m) * b
  BY <1>3, <1>6, <1>7
<1>9. x * b < z * b => x * b + b <= z * b
  <2>1. x \in Int /\ z \in Int /\ b \in Nat
    OBVIOUS
  <2>2. QED
    BY <2>1, Multiples
<1>10. x * b < (z + m) * b => x * b + b <= (z + m) * b
  <2>1. x \in Int /\ z + m \in Int /\ b \in Nat
    OBVIOUS
  <2>2. QED
    BY <2>1, Multiples
<1>11. PICK p \in Nat, r \in Nat, t \in Nat : p = x * b /\ r = z * b /\ t = (z + m) * b
  OBVIOUS
<1>12. p + b <= r \/ t <= p \/ (r <= p /\ p + b <= t)
  BY <1>9, <1>10, <1>11
<1>13. e.ip = p /\ f.ip = r /\ f.ip + Block(f.len) = t
  BY <1>2, <1>6, <1>8, <1>11
<1>14. QED
  BY <1>1, <1>12, <1>13

\* The prefixes of the table are in the order of the addresses they were cut
\* from: none is behind the end of a block that comes later.
CutInOrder ==
    /\ Slots \subseteq DOMAIN table
    /\ \A i \in Slots : Cut(table[i])
    /\ \A i, j \in Slots : i < j => table[i].ip < table[j].ip + Block(table[j].len)

\* A longer prefix without the address is inside that of entry i.
HasNested(i) ==
    \E j \in Slots :
       /\ ~Matches(table[j])
       /\ table[j].len > table[i].len
       /\ Prefix(table[j].ip, table[i].len) = PrefixOf(table[i])

\* The comparison of bsearch with an entry in terms of blocks.
LEMMA ComparesBlocks ==
    ASSUME NEW e, Cut(e), addr \in Nat
    PROVE  /\ KeyOf(e) < PrefixOf(e) <=> addr < e.ip
           /\ KeyOf(e) > PrefixOf(e) <=> addr >= e.ip + Block(e.len)
           /\ Matches(e) <=> e.ip <= addr /\ addr < e.ip + Block(e.len)
BY InBlock DEF KeyOf, Matches

\* An entry that has the address is behind one that begins above the address
\* only if that one is nested in it.
LEMMA NestedBelow ==
    ASSUME CutInOrder, addr \in Nat, NEW i \in Slots, NEW m \in Slots,
           m < i, Matches(table[i]), addr < table[m].ip
    PROVE  HasNested(i)
<1>1. Cut(table[i]) /\ Cut(table[m])
  BY DEF CutInOrder
<1>2. /\ table[i].ip \in Nat /\ table[m].ip \in Nat
      /\ table[i].len \in 0 .. Width /\ table[m].len \in 0 .. Width
  BY <1>1 DEF Cut
<1>3. PICK b \in Nat, c \in Nat : b = Block(table[i].len) /\ c = Block(table[m].len)
  BY <1>2, BlockType
<1>4. table[i].ip <= addr /\ addr < table[i].ip + b
  BY <1>1, <1>3, ComparesBlocks
<1>5. table[m].ip < table[i].ip + b
  BY <1>3 DEF CutInOrder
<1>6. table[m].len > table[i].len
  <2>1. ASSUME table[i].len >= table[m].len PROVE FALSE
    <3>1. \/ table[i].ip + b <= table[m].ip
          \/ table[m].ip + c <= table[i].ip
          \/ table[m].ip <= table[i].ip /\ table[i].ip + b <= table[m].ip + c
      BY <1>1, <1>3, <2>1, BlocksNest
    <3>2. QED
      BY <1>2, <1>4, <1>5, <3>1
  <2>2. Width \in Nat
    BY RoutingAssumption
  <2>3. QED
    BY <1>2, <2>1, <2>2
<1>7. Prefix(table[m].ip, table[i].len) = PrefixOf(table[i])
  <2>1. table[i].ip <= table[m].ip
    BY <1>2, <1>4
  <2>2. QED
    BY <1>1, <1>2, <1>3, <1>5, <2>1, InBlock
<1>8. ~Matches(table[m])
  BY <1>1, <1>2, ComparesBlocks
<1>9. QED
  BY <1>6, <1>7, <1>8 DEF HasNested

\* And likewise in front of one that ends below the address.
LEMMA NestedAbove ==
    ASSUME CutInOrder, addr \in Nat, NEW i \in Slots, NEW m \in Slots,
           i < m, Matches(table[i]), addr >= table[m].ip + Block(table[m].len)
    PROVE  HasNested(i)
<1>1. Cut(table[i]) /\ Cut(table[m])
  BY DEF CutInOrder
<1>2. /\ table[i].ip \in Nat /\ table[m].ip \in Nat
      /\ table[i].len \in 0 .. Width /\ table[m].len \in 0 .. Width
  BY <1>1 DEF Cut
<1>3. PICK b \in Nat, c \in Nat : b = Block(table[i].len) /\ c = Block(table[m].len) /\ c >= 1
  BY <1>2, BlockType
<1>4. table[i].ip <= addr /\ addr < table[i].ip + b /\ addr >= table[m].ip + c
  BY <1>1, <1>3, ComparesBlocks
<1>5. table[i].ip < table[m].ip + c
  BY <1>3 DEF CutInOrder
<1>6. table[m].len > table[i].len
  <2>1. ASSUME table[i].len >= table[m].len PROVE FALSE
    <3>1. \/ table[i].ip + b <= table[m].ip
          \/ table[m].ip + c <= table[i].ip
          \/ table[m].ip <= table[i].ip /\ table[i].ip + b <= table[m].ip + c
      BY <1>1, <1>3, <2>1, BlocksNest
    <3>2. QED
      BY <1>2, <1>4, <1>5, <3>1
  <2>2. Width \in Nat
    BY RoutingAssumption
  <2>3. QED
    BY <1>2, <2>1, <2>2
<1>7. Prefix(table[m].ip, table[i].len) = PrefixOf(table[i])
  <2>1. \/ table[m].ip + c <= table[i].ip
        \/ table[i].ip + b <= table[m].ip
        \/ table[i].ip <= table[m].ip /\ table[m].ip + c <= table[i].ip + b
    <3>1. table[m].len >= table[i].len
      BY <1>2, <1>6
    <3>2. QED
      BY <1>1, <1>3, <3>1, BlocksNest
  <2>2. table[i].ip <= table[m].ip /\ table[m].ip < table[i].ip + b
    BY <1>2, <1>3, <1>4, <1>5, <2>1
  <2>3. QED
    BY <1>1, <1>2, <1>3, <2>2, InBlock
<1>8. ~Matches(table[m])
  BY <1>1, <1>2, <1>3, <1>4, ComparesBlocks
<1>9. QED
  BY <1>6, <1>7, <1>8 DEF HasNested

\* The table when it is sorted, before it is printed.
InOrder ==
    /\ Slots \subseteq DOMAIN table
    /\ \A i \in Slots : table[i] \in NetEntry
    /\ \A i, j \in Slots : i < j => table[i].ip <= table[j].ip

\* cidr.c: what bsearch has left out, although it has the address, has a longer
\* prefix in it that does not.
RoutingInv ==
    /\ pc \in {"generate", "print", "create", "search", "failed", "walk", "done"}
    /\ pc = "generate" =>
          /\ num \in Int /\ num < tableSize
          /\ table \in [num + 1 .. tableSize - 1 -> NetEntry]
    /\ pc = "print" => InOrder
    /\ pc \in {"create", "search", "failed"} => CutInOrder
    /\ pc = "search" =>
          /\ addr \in Nat
          /\ l \in 0 .. tableSize /\ u \in 0 .. tableSize /\ l <= u
          /\ \A i \in Slots : Matches(table[i]) => (l <= i /\ i < u) \/ HasNested(i)
    /\ MissIsNested

LEMMA NetEntryType ==
    ASSUME NEW e \in NetEntry
    PROVE  e \in [ip : Nat, len : 0 .. Width]
<1>1. Addresses \subseteq Nat
  BY DEF Addresses
<1>2. Lens \cup LongerLens \subseteq 0 .. Width
  BY RoutingAssumption
<1>3. QED
  BY <1>1, <1>2 DEF NetEntry

LEMMA MakeEntryInv == RoutingInv /\ MakeEntry => RoutingInv'
<1> SUFFICES ASSUME RoutingInv, MakeEntry PROVE RoutingInv'
  OBVIOUS
<1>1. PICK e \in NetEntry :
         table' = [i \in DOMAIN table \cup {num} |-> IF i = num THEN e ELSE table[i]]
  BY DEF MakeEntry
<1>2. /\ num \in Int /\ num < tableSize /\ tableSize \in Nat
      /\ table \in [num + 1 .. tableSize - 1 -> NetEntry]
      /\ pc = "generate" /\ pc' = "generate" /\ num' = num - 1
  BY RoutingAssumption DEF RoutingInv, MakeEntry
<1>3. (num + 1 .. tableSize - 1) \cup {num} = num .. tableSize - 1
  BY <1>2
<1>4. table' \in [num .. tableSize - 1 -> NetEntry]
  <2>1. DOMAIN table = num + 1 .. tableSize - 1
    BY <1>2
  <2>2. table' = [i \in num .. tableSize - 1 |-> IF i = num THEN e ELSE table[i]]
    BY <1>1, <1>3, <2>1
  <2>3. \A i \in num .. tableSize - 1 : i # num => table[i] \in NetEntry
    BY <1>2
  <2>4. QED
    BY <2>2, <2>3
<1>5. num' + 1 = num /\ num' \in Int /\ num' < tableSize
  BY <1>2
<1>6. QED
  BY <1>2, <1>4, <1>5 DEF RoutingInv, MissIsNested

\* qsort compares neighbours only: that is enough.
LEMMA Neighbours ==
    ASSUME NEW n \in Nat, NEW f, \A i \in 0 .. n - 1 : f[i] \in Nat,
           \A i \in 1 .. n - 1 : ~(f[i] < f[i - 1])
    PROVE  \A i, j \in 0 .. n - 1 : i < j => f[i] <= f[j]
<1>1. SUFFICES ASSUME NEW i \in 0 .. n - 1 PROVE \A j \in 0 .. n - 1 : i < j => f[i] <= f[j]
  OBVIOUS
<1> DEFINE T == {j \in 0 .. n - 1 : i < j /\ ~(f[i] <= f[j])}
<1>2. SUFFICES ASSUME T # {} PROVE FALSE
  OBVIOUS
<1>3. T \in SUBSET Nat
  OBVIOUS
<1>4. PICK m \in T : \A k \in T : m <= k
  BY <1>2, <1>3, Least
<1>5. m \in 0 .. n - 1 /\ i < m /\ ~(f[i] <= f[m])
  OBVIOUS
<1>6. m - 1 \in 0 .. n - 1 /\ m - 1 \notin T /\ m \in 1 .. n - 1
  BY <1>4, <1>5
<1>7. f[i] <= f[m - 1]
  <2>1. CASE i = m - 1
    <3>1. f[i] \in Nat
      OBVIOUS
    <3>2. QED
      BY <2>1, <3>1
  <2>2. CASE i # m - 1
    BY <1>5, <1>6, <2>2
  <2>3. QED
    BY <2>1, <2>2
<1>8. f[m - 1] <= f[m]
  BY <1>5, <1>6
<1>9. f[i] \in Nat /\ f[m - 1] \in Nat /\ f[m] \in Nat
  BY <1>5, <1>6
<1>10. QED
  BY <1>5, <1>7, <1>8, <1>9

LEMMA SortInv == RoutingInv /\ Sort => RoutingInv'
<1> SUFFICES ASSUME RoutingInv, Sort PROVE RoutingInv'
  OBVIOUS
<1>1. PICK from \in [Slots -> Slots] :
         /\ \A i \in 1 .. tableSize - 1 : ~Less(table[from[i]].ip, table[from[i - 1]].ip)
         /\ table' = [i \in DOMAIN table |-> IF i \in Slots THEN table[from[i]] ELSE table[i]]
  BY DEF Sort
<1>2. /\ num \in Int /\ num < 0 /\ tableSize \in Nat
      /\ table \in [num + 1 .. tableSize - 1 -> NetEntry]
      /\ pc' = "print"
  BY RoutingAssumption DEF RoutingInv, Sort
<1>3. Slots \subseteq DOMAIN table /\ \A i \in Slots : table[i] \in NetEntry
  <2>1. Slots \subseteq num + 1 .. tableSize - 1
    BY <1>2 DEF Slots
  <2>2. QED
    BY <1>2, <2>1
<1>4. /\ Slots \subseteq DOMAIN table'
      /\ \A i \in Slots : table'[i] = table[from[i]] /\ table'[i] \in NetEntry
  BY <1>1, <1>3
<1> DEFINE ips == [i \in Slots |-> table'[i].ip]
<1>5. \A i \in Slots : ips[i] = table'[i].ip /\ ips[i] \in Nat
  <2>1. \A i \in Slots : table'[i] \in [ip : Nat, len : 0 .. Width]
    BY <1>4, NetEntryType
  <2>2. QED
    BY <2>1
<1>6. \A i \in 1 .. tableSize - 1 : ~(ips[i] < ips[i - 1])
  <2>1. SUFFICES ASSUME NEW i \in 1 .. tableSize - 1 PROVE ~(ips[i] < ips[i - 1])
    OBVIOUS
  <2>2. i \in Slots /\ i - 1 \in Slots
    BY <1>2 DEF Slots
  <2>3. ips[i] = table[from[i]].ip /\ ips[i - 1] = table[from[i - 1]].ip
    BY <1>4, <2>2
  <2>4. QED
    BY <1>1, <2>3 DEF Less
<1> HIDE DEF ips
<1>7. \A i, j \in Slots : i < j => ips[i] <= ips[j]
  BY <1>2, <1>5, <1>6, Neighbours DEF Slots
<1>8. \A i, j \in Slots : i < j => table'[i].ip <= table'[j].ip
  BY <1>5, <1>7
<1>9. InOrder'
  BY <1>4, <1>8 DEF InOrder, Slots, NetEntry, Addresses
<1>10. QED
  BY <1>2, <1>9 DEF RoutingInv, MissIsNested

\* printEntry leaves every entry the first address of its block.
LEMMA CutEffect ==
    ASSUME NEW e \in NetEntry
    PROVE  /\ Cut(Masked(e)) /\ Masked(e).len = e.len
           /\ Masked(e).ip <= e.ip /\ e.ip < Masked(e).ip + Block(e.len)
<1>1. e \in [ip : Nat, len : 0 .. Width]
  BY NetEntryType
<1>2. PICK b \in Nat : b = Block(e.len) /\ b >= 1
  BY <1>1, BlockType
<1>3. e.ip \in Nat /\ e.len \in 0 .. Width
  BY <1>1
<1>4. PICK q \in Nat : q = e.ip \div b /\ q * b <= e.ip /\ e.ip < q * b + b
  BY <1>2, <1>3, Quotient
<1>5. Masked(e) = [e EXCEPT !.ip = q * b]
  BY <1>2, <1>4 DEF Masked, Prefix, Block
<1>6. /\ Masked(e) \in [ip : Nat, len : 0 .. Width]
      /\ Masked(e).ip = q * b /\ Masked(e).len = e.len
  BY <1>1, <1>5
<1>7. PrefixOf(Masked(e)) = q
  <2>1. PICK p \in Nat : p = q * b
    OBVIOUS
  <2>2. p \div b = q
    BY <1>2, <2>1, Compared
  <2>3. QED
    BY <1>2, <1>6, <2>1, <2>2 DEF PrefixOf, Prefix, Block
<1>8. QED
  BY <1>2, <1>4, <1>6, <1>7 DEF Cut

LEMMA PrintTableInv == RoutingInv /\ PrintTable => RoutingInv'
<1> SUFFICES ASSUME RoutingInv, PrintTable PROVE RoutingInv'
  OBVIOUS
<1>1. /\ pc' = "create"
      /\ table' = [i \in DOMAIN table |-> IF i \in Slots THEN Masked(table[i]) ELSE table[i]]
      /\ InOrder
  BY DEF RoutingInv, PrintTable
<1>2. /\ Slots \subseteq DOMAIN table'
      /\ \A i \in Slots : table[i] \in NetEntry /\ table'[i] = Masked(table[i])
  BY <1>1 DEF InOrder
<1>3. \A i \in Slots :
         /\ Cut(table'[i]) /\ table'[i].len = table[i].len
         /\ table'[i].ip <= table[i].ip
         /\ table[i].ip < table'[i].ip + Block(table'[i].len)
  BY <1>2, CutEffect
<1>4. ASSUME NEW i \in Slots, NEW j \in Slots, i < j
      PROVE  table'[i].ip < table'[j].ip + Block(table'[j].len)
  <2>1. table[i].ip <= table[j].ip
    BY <1>1, <1>4 DEF InOrder
  <2>2. /\ table[i].ip \in Nat /\ table[j].ip \in Nat
        /\ table'[i].ip \in Nat /\ table'[j].ip \in Nat
        /\ table'[j].len \in 0 .. Width
    <3>1. /\ table[i] \in [ip : Nat, len : 0 .. Width]
          /\ table[j] \in [ip : Nat, len : 0 .. Width]
      BY <1>2, NetEntryType
    <3>2. /\ table'[i] \in [ip : Nat, len : 0 .. Width]
          /\ table'[j] \in [ip : Nat, len : 0 .. Width]
      BY <1>3 DEF Cut
    <3>3. QED
      BY <3>1, <3>2
  <2>3. PICK b \in Nat : b = Block(table'[j].len)
    BY <2>2, BlockType
  <2>4. table'[i].ip <= table[i].ip /\ table[j].ip < table'[j].ip + b
    BY <1>3, <2>3
  <2>5. QED
    BY <2>1, <2>2, <2>3, <2>4
<1>5. CutInOrder'
  BY <1>2, <1>3, <1>4 DEF CutInOrder, Slots, Cut, PrefixOf, Prefix, Block
<1>6. QED
  BY <1>1, <1>5 DEF RoutingInv, MissIsNested

LEMMA CreateSearchInv == RoutingInv /\ CreateSearch => RoutingInv'
<1> SUFFICES ASSUME RoutingInv, CreateSearch PROVE RoutingInv'
  OBVIOUS
<1>1. /\ pc' = "search" /\ UNCHANGED table /\ l' = 0 /\ u' = tableSize
      /\ addr' \in Addresses /\ CutInOrder
  BY DEF RoutingInv, CreateSearch
<1>2. CutInOrder'
  BY <1>1 DEF CutInOrder, Cut, PrefixOf
<1>3. addr' \in Nat
  BY <1>1 DEF Addresses
<1>4. tableSize \in Nat
  BY RoutingAssumption
<1>5. \A i \in Slots : l' <= i /\ i < u'
  BY <1>1, <1>4 DEF Slots
<1>6. l' \in 0 .. tableSize /\ u' \in 0 .. tableSize /\ l' <= u'
  BY <1>1, <1>4
<1>7. \A i \in Slots : Matches(table[i])' => (l' <= i /\ i < u') \/ HasNested(i)'
  BY <1>5
<1>8. QED
  BY <1>1, <1>2, <1>3, <1>6, <1>7 DEF RoutingInv, MissIsNested, Slots

\* What holds at each comparison of bsearch.
LEMMA AtMiddle ==
    ASSUME RoutingInv, pc = "search", l < u
    PROVE  /\ CutInOrder /\ addr \in Nat /\ tableSize \in Nat
           /\ l \in 0 .. tableSize /\ u \in 0 .. tableSize
           /\ Middle \in Slots /\ l <= Middle /\ Middle < u
           /\ Cut(table[Middle])
<1>1. /\ CutInOrder /\ addr \in Nat
      /\ l \in 0 .. tableSize /\ u \in 0 .. tableSize
  BY DEF RoutingInv
<1>2. tableSize \in Nat
  BY RoutingAssumption
<1>3. Middle \in Slots /\ l <= Middle /\ Middle < u
  BY <1>1, <1>2 DEF Middle, Slots
<1>4. QED
  BY <1>1, <1>2, <1>3 DEF CutInOrder

LEMMA SearchBelowInv == RoutingInv /\ SearchBelow => RoutingInv'
<1> SUFFICES ASSUME RoutingInv, SearchBelow PROVE RoutingInv'
  OBVIOUS
<1>1. /\ pc = "search" /\ l < u /\ KeyOf(table[Middle]) < PrefixOf(table[Middle])
      /\ u' = Middle /\ UNCHANGED <<pc, table, addr, l>>
  BY DEF SearchBelow
<1>2. /\ CutInOrder /\ addr \in Nat /\ tableSize \in Nat
      /\ l \in 0 .. tableSize /\ u \in 0 .. tableSize
      /\ Middle \in Slots /\ l <= Middle /\ Middle < u
      /\ Cut(table[Middle])
  BY <1>1, AtMiddle
<1>3. addr < table[Middle].ip
  BY <1>1, <1>2, ComparesBlocks
<1>4. ASSUME NEW i \in Slots, Matches(table[i])
      PROVE  (l <= i /\ i < Middle) \/ HasNested(i)
  <2>1. (l <= i /\ i < u) \/ HasNested(i)
    BY <1>1, <1>4 DEF RoutingInv
  <2>2. CASE Middle < i
    BY <1>2, <1>3, <1>4, <2>2, NestedBelow
  <2>3. CASE i = Middle
    <3>1. ~Matches(table[Middle])
      BY <1>2, <1>3, ComparesBlocks DEF Cut
    <3>2. QED
      BY <1>4, <2>3, <3>1
  <2>4. CASE i < Middle
    BY <2>1, <2>4
  <2>5. i < Middle \/ i = Middle \/ Middle < i
    BY <1>2 DEF Slots
  <2>6. QED
    BY <2>2, <2>3, <2>4, <2>5
<1>5. u' \in 0 .. tableSize /\ l' <= u'
  BY <1>1, <1>2 DEF Slots
<1>6. CutInOrder'
  BY <1>1, <1>2 DEF CutInOrder, Cut, PrefixOf
<1>7. \A i \in Slots : Matches(table[i])' => (l' <= i /\ i < u') \/ HasNested(i)'
  BY <1>1, <1>4 DEF Matches, KeyOf, PrefixOf, HasNested, Slots
<1>8. QED
  BY <1>1, <1>2, <1>5, <1>6, <1>7 DEF RoutingInv, MissIsNested, Slots

LEMMA SearchAboveInv == RoutingInv /\ SearchAbove => RoutingInv'
<1> SUFFICES ASSUME RoutingInv, SearchAbove PROVE RoutingInv'
  OBVIOUS
<1>1. /\ pc = "search" /\ l < u /\ KeyOf(table[Middle]) > PrefixOf(table[Middle])
      /\ l' = Middle + 1 /\ UNCHANGED <<pc, table, addr, u>>
  BY DEF SearchAbove
<1>2. /\ CutInOrder /\ addr \in Nat /\ tableSize \in Nat
      /\ l \in 0 .. tableSize /\ u \in 0 .. tableSize
      /\ Middle \in Slots /\ l <= Middle /\ Middle < u
      /\ Cut(table[Middle])
  BY <1>1, AtMiddle
<1>3. addr >= table[Middle].ip + Block(table[Middle].len)
  BY <1>1, <1>2, ComparesBlocks
<1>4. ASSUME NEW i \in Slots, Matches(table[i])
      PROVE  (Middle + 1 <= i /\ i < u) \/ HasNested(i)
  <2>1. (l <= i /\ i < u) \/ HasNested(i)
    BY <1>1, <1>4 DEF RoutingInv
  <2>2. CASE i < Middle
    BY <1>2, <1>3, <1>4, <2>2, NestedAbove
  <2>3. CASE i = Middle
    <3>1. table[Middle].ip \in Nat /\ Block(table[Middle].len) \in Nat
      BY <1>2, BlockType DEF Cut
    <3>2. ~Matches(table[Middle])
      BY <1>2, <1>3, <3>1, ComparesBlocks
    <3>3. QED
      BY <1>4, <2>3, <3>2
  <2>4. CASE Middle < i
    <3>1. Middle + 1 <= i
      BY <1>2, <2>4 DEF Slots
    <3>2. QED
      BY <2>1, <3>1
  <2>5. i < Middle \/ i = Middle \/ Middle < i
    BY <1>2 DEF Slots
  <2>6. QED
    BY <2>2, <2>3, <2>4, <2>5
<1>5. l' \in 0 .. tableSize /\ l' <= u'
  BY <1>1, <1>2 DEF Slots
<1>6. CutInOrder'
  BY <1>1, <1>2 DEF CutInOrder, Cut, PrefixOf
<1>7. \A i \in Slots : Matches(table[i])' => (l' <= i /\ i < u') \/ HasNested(i)'
  BY <1>1, <1>4 DEF Matches, KeyOf, PrefixOf, HasNested, Slots
<1>8. QED
  BY <1>1, <1>2, <1>5, <1>6, <1>7 DEF RoutingInv, MissIsNested, Slots

LEMMA SearchFailsInv == RoutingInv /\ SearchFails => RoutingInv'
<1> SUFFICES ASSUME RoutingInv, SearchFails PROVE RoutingInv'
  OBVIOUS
<1>1. pc = "search" /\ l = u /\ pc' = "failed" /\ UNCHANGED <<table, addr>>
  BY DEF SearchFails
<1>2. CutInOrder /\ \A i \in Slots : Matches(table[i]) => (l <= i /\ i < u) \/ HasNested(i)
  BY <1>1 DEF RoutingInv
<1>3. ASSUME NEW i \in Slots, Matches(table[i]) PROVE HasNested(i)
  <2>1. ~(l <= i /\ i < u)
    <3>1. l \in Int /\ i \in Int
      BY <1>1, RoutingAssumption DEF RoutingInv, Slots
    <3>2. QED
      BY <1>1, <3>1
  <2>2. QED
    BY <1>2, <1>3, <2>1
<1>4. MissIsNested'
  BY <1>1, <1>3 DEF MissIsNested, HasNested, Matches, KeyOf, PrefixOf, Slots
<1>5. CutInOrder'
  BY <1>1, <1>2 DEF CutInOrder, Cut, PrefixOf
<1>6. QED
  BY <1>1, <1>4, <1>5 DEF RoutingInv

LEMMA RoutingStep_Inv == RoutingInv /\ [Next]_vars => RoutingInv'
<1> SUFFICES ASSUME RoutingInv, [Next]_vars PROVE RoutingInv'
  OBVIOUS
<1>1. CASE MakeEntryReturns
  <2>1. pc = "generate" /\ UNCHANGED <<pc, table, num>>
    BY <1>1 DEF MakeEntryReturns
  <2>2. QED
    BY <2>1 DEF RoutingInv, MissIsNested
<1>2. CASE SearchFinds
  <2>1. pc' = "walk"
    BY <1>2 DEF SearchFinds
  <2>2. QED
    BY <2>1 DEF RoutingInv, MissIsNested
<1>3. CASE Walk
  <2>1. pc' = "walk"
    BY <1>3 DEF Walk
  <2>2. QED
    BY <2>1 DEF RoutingInv, MissIsNested
<1>4. CASE WalkEnds
  <2>1. pc' = "done"
    BY <1>4 DEF WalkEnds
  <2>2. QED
    BY <2>1 DEF RoutingInv, MissIsNested
<1>5. CASE UNCHANGED vars
  BY <1>5 DEF vars, RoutingInv, MissIsNested, InOrder, CutInOrder, HasNested, Cut,
     Matches, KeyOf, PrefixOf, Slots
<1>6. QED
  BY <1>1, <1>2, <1>3, <1>4, <1>5, MakeEntryInv, SortInv, PrintTableInv,
     CreateSearchInv, SearchBelowInv, SearchAboveInv, SearchFailsInv DEF Next

LEMMA RoutingInit_Inv == Init => RoutingInv
<1> SUFFICES ASSUME Init PROVE RoutingInv
  OBVIOUS
<1>1. pc = "generate" /\ num = tableSize - 1 /\ table = [i \in {} |-> None]
  BY DEF Init
<1>2. tableSize \in Nat
  BY RoutingAssumption
<1>3. num \in Int /\ num < tableSize /\ num + 1 .. tableSize - 1 = {}
  BY <1>1, <1>2
<1>4. QED
  BY <1>1, <1>3 DEF RoutingInv, MissIsNested

\* cidr.c, doSearch: bsearch misses an address that prefixes of the table have
\* only if longer prefixes without it are nested in every one of them: for any
\* width of the addresses, any lengths, any table and any address.
THEOREM MissIsNestedHolds == Spec => []MissIsNested
<1>1. RoutingInv => MissIsNested
  BY DEF RoutingInv
<1>2. QED
  BY <1>1, RoutingInit_Inv, RoutingStep_Inv, PTL DEF Spec

-------------------------------------------------------------------------------
(* finnsvinn.c *)

Records == [navn : Goods, antall : Amounts]

Elements == [navn : Goods, beholdning : Nat, registrert_inn_ut : Int]

\* What one record adds to the total.
Share(r, g) == IF r.navn = g THEN r.antall ELSE 0

\* The totals of the first records.
Sums(f, s, g) ==
    /\ f \in [0 .. Len(s) -> Nat]
    /\ f[0] = 0 /\ \A n \in 1 .. Len(s) : f[n] = f[n - 1] + Share(s[n], g)

LEMMA SumsExist ==
    ASSUME NEW s \in Seq(Records), NEW g \in Goods
    PROVE  \E f : Sums(f, s, g)
<1>1. Len(s) \in Nat /\ \A n \in 1 .. Len(s) : s[n] \in Records
  OBVIOUS
<1>2. Amounts \subseteq Nat
  BY WarehouseAssumption
<1>3. \A n \in 1 .. Len(s) : Share(s[n], g) \in Nat
  BY <1>1, <1>2 DEF Share, Records
<1> DEFINE step == [p \in Nat \X Nat |->
                       IF p[1] + 1 \in 1 .. Len(s) THEN p[2] + Share(s[p[1] + 1], g) ELSE 0]
<1>4. /\ step \in [Nat \X Nat -> Nat]
      /\ \A n, v \in Nat : n + 1 \in 1 .. Len(s) => step[<<n, v>>] = v + Share(s[n + 1], g)
  <2>1. \A n \in Nat : n + 1 \in 1 .. Len(s) => Share(s[n + 1], g) \in Nat
    BY <1>3
  <2>2. ASSUME NEW p \in Nat \X Nat
        PROVE  IF p[1] + 1 \in 1 .. Len(s) THEN p[2] + Share(s[p[1] + 1], g) \in Nat
               ELSE 0 \in Nat
    <3>1. p[1] \in Nat /\ p[2] \in Nat
      OBVIOUS
    <3>2. QED
      BY <2>1, <3>1
  <2>3. step \in [Nat \X Nat -> Nat]
    BY <2>2
  <2>4. ASSUME NEW n \in Nat, NEW v \in Nat, n + 1 \in 1 .. Len(s)
        PROVE  step[<<n, v>>] = v + Share(s[n + 1], g)
    <3>1. <<n, v>> \in Nat \X Nat /\ <<n, v>>[1] = n /\ <<n, v>>[2] = v
      OBVIOUS
    <3>2. QED
      BY <2>4, <3>1
  <2>5. QED
    BY <2>3, <2>4
<1> HIDE DEF step
<1>5. PICK F : Unfolds(F, Nat, 0, step)
  BY <1>4, Recursion
<1> DEFINE f == [n \in 0 .. Len(s) |-> F[n]]
<1>6. F \in [Nat -> Nat] /\ F[0] = 0 /\ \A n \in Nat : F[n + 1] = step[<<n, F[n]>>]
  BY <1>5 DEF Unfolds
<1>7. f \in [0 .. Len(s) -> Nat] /\ f[0] = 0
  BY <1>1, <1>6
<1>8. ASSUME NEW n \in 1 .. Len(s) PROVE f[n] = f[n - 1] + Share(s[n], g)
  <2>1. n - 1 \in Nat /\ (n - 1) + 1 = n /\ n - 1 \in 0 .. Len(s) /\ n \in 0 .. Len(s)
    BY <1>1
  <2>2. F[n] = step[<<n - 1, F[n - 1]>>]
    BY <1>6, <2>1
  <2>3. F[n - 1] \in Nat
    BY <1>6, <2>1
  <2>4. step[<<n - 1, F[n - 1]>>] = F[n - 1] + Share(s[n], g)
    BY <1>4, <2>1, <2>3
  <2>5. QED
    BY <2>1, <2>2, <2>4
<1>9. QED
  BY <1>7, <1>8 DEF Sums

\* The totals of the same records are the same.
LEMMA SumsAgree ==
    ASSUME NEW s \in Seq(Records), NEW t \in Seq(Records), NEW g,
           Len(s) <= Len(t), \A i \in 1 .. Len(s) : s[i] = t[i],
           NEW f, Sums(f, s, g), NEW h, Sums(h, t, g)
    PROVE  f[Len(s)] = h[Len(s)]
<1>1. Len(s) \in Nat /\ Len(t) \in Nat
  OBVIOUS
<1> DEFINE T == {n \in Nat : n <= Len(s) => f[n] = h[n]}
<1>2. 0 \in T
  BY DEF Sums
<1>3. ASSUME NEW n \in Nat, n \in T PROVE n + 1 \in T
  <2>1. SUFFICES ASSUME n + 1 <= Len(s) PROVE f[n + 1] = h[n + 1]
    OBVIOUS
  <2>2. n + 1 \in 1 .. Len(s) /\ n + 1 \in 1 .. Len(t) /\ (n + 1) - 1 = n /\ f[n] = h[n]
    BY <1>1, <1>3, <2>1
  <2>3. f[n + 1] = f[n] + Share(s[n + 1], g) /\ h[n + 1] = h[n] + Share(t[n + 1], g)
    BY <2>2 DEF Sums
  <2>4. QED
    BY <2>2, <2>3
<1>4. Nat \subseteq T
  BY <1>2, <1>3, Induction
<1>5. QED
  BY <1>1, <1>4

\* The total is the last of them.
LEMMA TotalIsSum ==
    ASSUME NEW s \in Seq(Records), NEW g \in Goods
    PROVE  \E f : Sums(f, s, g) /\ Total(s, g) = f[Len(s)]
<1> DEFINE Def(f) ==
              f = [n \in 0 .. Len(s) |->
                      IF n = 0 THEN 0
                      ELSE f[n - 1] + (IF s[n].navn = g THEN s[n].antall ELSE 0)]
           sum == CHOOSE f : Def(f)
<1>1. Len(s) \in Nat
  OBVIOUS
<1>2. PICK f : Sums(f, s, g)
  BY SumsExist
<1>3. Def(f)
  <2>1. \A n \in 0 .. Len(s) : n # 0 => n \in 1 .. Len(s)
    BY <1>1
  <2>2. \A n \in 0 .. Len(s) :
           f[n] = IF n = 0 THEN 0
                  ELSE f[n - 1] + (IF s[n].navn = g THEN s[n].antall ELSE 0)
    BY <1>2, <2>1 DEF Sums, Share
  <2>3. DOMAIN f = 0 .. Len(s) /\ f = [n \in DOMAIN f |-> f[n]]
    BY <1>2 DEF Sums
  <2>4. QED
    BY <2>2, <2>3
<1>4. Def(sum)
  BY <1>3
<1>5. Total(s, g) = sum[Len(s)]
  BY DEF Total
<1> HIDE DEF sum
<1>6. sum[0] = 0 /\ \A n \in 1 .. Len(s) : sum[n] = sum[n - 1] + Share(s[n], g)
  <2>1. \A n \in 0 .. Len(s) :
           sum[n] = IF n = 0 THEN 0
                    ELSE sum[n - 1] + (IF s[n].navn = g THEN s[n].antall ELSE 0)
    BY <1>4
  <2>2. 0 \in 0 .. Len(s) /\ \A n \in 1 .. Len(s) : n \in 0 .. Len(s) /\ n # 0
    BY <1>1
  <2>3. QED
    BY <2>1, <2>2 DEF Share
<1> DEFINE T == {n \in Nat : n <= Len(s) => sum[n] = f[n]}
<1>7. Nat \subseteq T
  <2>1. 0 \in T
    BY <1>2, <1>6 DEF Sums
  <2>2. ASSUME NEW n \in Nat, n \in T PROVE n + 1 \in T
    <3>1. SUFFICES ASSUME n + 1 <= Len(s) PROVE sum[n + 1] = f[n + 1]
      OBVIOUS
    <3>2. n + 1 \in 1 .. Len(s) /\ (n + 1) - 1 = n /\ sum[n] = f[n]
      BY <1>1, <2>2, <3>1
    <3>3. QED
      BY <1>2, <1>6, <3>2 DEF Sums
  <2>3. QED
    BY <2>1, <2>2, Induction
<1>8. sum[Len(s)] = f[Len(s)]
  BY <1>1, <1>7
<1>9. QED
  BY <1>2, <1>5, <1>8

\* So a record more adds its amount.
LEMMA TotalEffect ==
    ASSUME NEW g \in Goods
    PROVE  /\ Total(<<>>, g) = 0
           /\ \A s \in Seq(Records), r \in Records :
                 /\ Total(s, g) \in Nat
                 /\ Total(Append(s, r), g) = Total(s, g) + Share(r, g)
<1>1. Total(<<>>, g) = 0
  <2>1. <<>> \in Seq(Records) /\ Len(<<>>) = 0
    OBVIOUS
  <2>2. PICK f : Sums(f, <<>>, g) /\ Total(<<>>, g) = f[Len(<<>>)]
    BY <2>1, TotalIsSum
  <2>3. QED
    BY <2>1, <2>2 DEF Sums
<1>2. ASSUME NEW s \in Seq(Records), NEW r \in Records
      PROVE  /\ Total(s, g) \in Nat
             /\ Total(Append(s, r), g) = Total(s, g) + Share(r, g)
  <2> DEFINE t == Append(s, r)
  <2>1. /\ t \in Seq(Records) /\ Len(s) \in Nat /\ Len(t) = Len(s) + 1
        /\ t[Len(s) + 1] = r /\ \A i \in 1 .. Len(s) : s[i] = t[i]
    OBVIOUS
  <2>2. PICK f : Sums(f, s, g) /\ Total(s, g) = f[Len(s)]
    BY TotalIsSum
  <2> HIDE DEF t
  <2>3. PICK h : Sums(h, t, g) /\ Total(t, g) = h[Len(t)]
    BY <2>1, TotalIsSum
  <2>4. f[Len(s)] = h[Len(s)]
    BY <2>1, <2>2, <2>3, SumsAgree
  <2>5. h[Len(t)] = h[Len(s)] + Share(r, g)
    <3>1. Len(t) \in 1 .. Len(t) /\ Len(t) - 1 = Len(s)
      BY <2>1
    <3>2. QED
      BY <2>1, <2>3, <3>1 DEF Sums
  <2>6. f[Len(s)] \in Nat
    BY <2>1, <2>2 DEF Sums
  <2>7. QED
    BY <2>2, <2>3, <2>4, <2>5, <2>6 DEF t
<1>3. QED
  BY <1>1, <1>2

\* The record that counts is the last one of its good.
LEMMA CountedEffect ==
    ASSUME NEW g \in Goods
    PROVE  /\ Counted(<<>>, g) = 0
           /\ \A s \in Seq(Records), r \in Records :
                 Counted(Append(s, r), g) = IF r.navn = g THEN r.antall ELSE Counted(s, g)
<1>1. Counted(<<>>, g) = 0
  BY DEF Counted
<1>2. ASSUME NEW s \in Seq(Records), NEW r \in Records
      PROVE  Counted(Append(s, r), g) = IF r.navn = g THEN r.antall ELSE Counted(s, g)
  <2> DEFINE t == Append(s, r)
             of == {i \in 1 .. Len(s) : s[i].navn = g}
             ofAll == {i \in 1 .. Len(t) : t[i].navn = g}
  <2>1. PICK n \in Nat : n = Len(s) /\ Len(t) = n + 1 /\ DOMAIN s = 1 .. n /\ DOMAIN t = 1 .. n + 1
    OBVIOUS
  <2>2. t[n + 1] = r /\ \A i \in 1 .. n : t[i] = s[i]
    BY <2>1
  <2> HIDE DEF t
  <2>3. /\ Counted(s, g) =
              IF of = {} THEN 0 ELSE s[CHOOSE i \in of : \A j \in of : j <= i].antall
        /\ Counted(t, g) =
              IF ofAll = {} THEN 0 ELSE t[CHOOSE i \in ofAll : \A j \in ofAll : j <= i].antall
    BY <2>1 DEF Counted
  <2>4. CASE r.navn = g
    <3>1. n + 1 \in ofAll /\ \A j \in ofAll : j <= n + 1 /\ j \in Nat
      BY <2>1, <2>2, <2>4
    <3>2. (CHOOSE i \in ofAll : \A j \in ofAll : j <= i) = n + 1
      <4>1. PICK m : m = CHOOSE i \in ofAll : \A j \in ofAll : j <= i
        OBVIOUS
      <4>2. m \in ofAll /\ \A j \in ofAll : j <= m
        BY <3>1, <4>1
      <4>3. m <= n + 1 /\ n + 1 <= m /\ m \in Nat
        BY <3>1, <4>2
      <4>4. QED
        BY <4>1, <4>3
    <3>3. QED
      BY <2>2, <2>3, <2>4, <3>1, <3>2 DEF t
  <2>5. CASE r.navn # g
    <3>1. ofAll = of
      <4>1. n + 1 \notin ofAll
        BY <2>2, <2>5
      <4>2. \A i \in 1 .. n + 1 : i # n + 1 => i \in 1 .. n
        BY <2>1
      <4>3. \A i \in 1 .. n : i \in 1 .. n + 1
        BY <2>1
      <4>4. QED
        BY <2>1, <2>2, <4>1, <4>2, <4>3
    <3>2. CASE of = {}
      BY <2>3, <2>5, <3>1, <3>2 DEF t
    <3>3. CASE of # {}
      <4> DEFINE T == {k \in 0 .. n : \E i \in of : k = n - i}
      <4>1. ASSUME NEW i \in of PROVE i \in 1 .. n /\ n - i \in T
        <5>1. i \in 1 .. n
          BY <2>1
        <5>2. n - i \in 0 .. n
          BY <5>1
        <5>3. QED
          BY <5>1, <5>2
      <4>2. T # {}
        BY <3>3, <4>1
      <4>10. T \in SUBSET Nat
        OBVIOUS
      <4>3. PICK m \in T : \A k \in T : m <= k
        BY <4>2, <4>10, Least
      <4>4. PICK i \in of : m = n - i
        OBVIOUS
      <4>5. ASSUME NEW j \in of PROVE j <= i
        <5>1. m <= n - j
          BY <4>1, <4>3
        <5>2. i \in 1 .. n /\ j \in 1 .. n
          BY <4>1
        <5>3. QED
          BY <2>1, <4>4, <5>1, <5>2
      <4> HIDE DEF of, ofAll
      <4>6. (CHOOSE c \in of : \A j \in of : j <= c) \in of
        BY <4>5
      <4>7. PICK d : d = CHOOSE c \in of : \A j \in of : j <= c
        OBVIOUS
      <4>8. t[d] = s[d]
        BY <2>2, <4>1, <4>6, <4>7
      <4>9. QED
        BY <2>3, <2>5, <3>1, <3>3, <4>7, <4>8 DEF t
    <3>4. QED
      BY <3>2, <3>3
  <2>6. QED
    BY <2>4, <2>5
<1>3. QED
  BY <1>1, <1>2

\* The amounts of a good are those of the records in the logs.
IsRight(v, logs) ==
    /\ v.registrert_inn_ut = Total(logs["LEVERING"], v.navn) - Total(logs["SALG"], v.navn)
    /\ v.beholdning = Counted(logs["BEHOLDNING"], v.navn)

Named(logs, g) == \E t \in Types : \E i \in DOMAIN logs[t] : logs[t][i].navn = g

\* No log has a record of g.
NothingOf(logs, g) ==
    /\ Total(logs["LEVERING"], g) = 0 /\ Total(logs["SALG"], g) = 0
    /\ Counted(logs["BEHOLDNING"], g) = 0

\* finnsvinn.c: what is read is in the list, each of the goods once.
ListIsRight(goods, logs) ==
    /\ \A i, j \in DOMAIN goods : goods[i].navn = goods[j].navn => i = j
    /\ \A i \in DOMAIN goods : IsRight(goods[i], logs) /\ Named(logs, goods[i].navn)
    /\ \A g \in Goods : (\A i \in DOMAIN goods : goods[i].navn # g) =>
          ~Named(logs, g) /\ NothingOf(logs, g)

WarehouseInv ==
    /\ stage \in Types \cup {"start", "printed", "failed"}
    /\ varer \in Seq(Elements)
    /\ lest \in [Types -> Seq(Records)]
    /\ stage # "failed" => ListIsRight(varer, lest)

\* What a record of log t changes in the list is what it changes in the logs.
Recorded(logs, next, t, r) ==
    /\ next \in [Types -> Seq(Records)]
    /\ \A g \in Goods : Named(next, g) <=> Named(logs, g) \/ g = r.navn
    /\ \A v \in Elements :
          v.navn # r.navn /\ IsRight(v, logs) => IsRight(v, next)
    /\ \A g \in Goods : g # r.navn /\ NothingOf(logs, g) => NothingOf(next, g)
    /\ \A v \in Elements : v.navn = r.navn /\ IsRight(v, logs) =>
          /\ IsRight(Registered(v, r.antall, t), next)
          /\ Registered(v, r.antall, t) \in Elements
          /\ Registered(v, r.antall, t).navn = v.navn

LEMMA RecordEffect ==
    ASSUME NEW logs \in [Types -> Seq(Records)], NEW t \in Types, NEW r \in Records,
           NEW next, next = [logs EXCEPT ![t] = Append(@, r)]
    PROVE  Recorded(logs, next, t, r)
<1>1. r.navn \in Goods /\ r.antall \in Nat
  <2>1. Amounts \subseteq Nat
    BY WarehouseAssumption
  <2>2. QED
    BY <2>1 DEF Records
<1>2. /\ next[t] = Append(logs[t], r) /\ \A x \in Types \ {t} : next[x] = logs[x]
      /\ \A x \in Types : logs[x] \in Seq(Records)
      /\ next \in [Types -> Seq(Records)]
  OBVIOUS
<1>3. ASSUME NEW g \in Goods
      PROVE  \A x \in Types :
                /\ Total(logs[x], g) \in Nat
                /\ Total(next[x], g) =
                      IF x = t THEN Total(logs[x], g) + Share(r, g) ELSE Total(logs[x], g)
                /\ Counted(next[x], g) =
                      IF x = t /\ g = r.navn THEN r.antall ELSE Counted(logs[x], g)
  <2>1. SUFFICES ASSUME NEW x \in Types
                 PROVE  /\ Total(logs[x], g) \in Nat
                        /\ Total(next[x], g) =
                              IF x = t THEN Total(logs[x], g) + Share(r, g)
                              ELSE Total(logs[x], g)
                        /\ Counted(next[x], g) =
                              IF x = t /\ g = r.navn THEN r.antall ELSE Counted(logs[x], g)
    OBVIOUS
  <2>2. CASE x = t
    BY <1>2, <2>2, TotalEffect, CountedEffect
  <2>3. CASE x # t
    BY <1>2, <2>3, TotalEffect
  <2>4. QED
    BY <2>2, <2>3
<1>4. Share(r, r.navn) = r.antall /\ \A g : g # r.navn => Share(r, g) = 0
  BY DEF Share
<1>5. {"SALG", "LEVERING", "BEHOLDNING"} = Types
  BY DEF Types
<1>6. ASSUME NEW g \in Goods PROVE Named(next, g) <=> Named(logs, g) \/ g = r.navn
  <2>1. PICK n \in Nat : n = Len(logs[t]) /\ DOMAIN logs[t] = 1 .. n
    BY <1>2
  <2>2. /\ DOMAIN next[t] = 1 .. n + 1 /\ next[t][n + 1] = r
        /\ \A i \in 1 .. n : next[t][i] = logs[t][i]
    BY <1>2, <2>1
  <2>3. ASSUME Named(next, g) PROVE Named(logs, g) \/ g = r.navn
    <3>6. PICK x \in Types : \E i \in DOMAIN next[x] : next[x][i].navn = g
      BY <2>3 DEF Named
    <3>1. PICK i \in DOMAIN next[x] : next[x][i].navn = g
      BY <3>6
    <3>2. CASE x # t
      BY <1>2, <3>1, <3>2 DEF Named
    <3>3. CASE x = t /\ i = n + 1
      BY <2>2, <3>1, <3>3
    <3>4. CASE x = t /\ i # n + 1
      <4>1. i \in 1 .. n
        BY <2>1, <2>2, <3>4
      <4>2. logs[t][i].navn = g
        BY <2>2, <3>1, <3>4, <4>1
      <4>3. QED
        BY <2>1, <4>1, <4>2 DEF Named
    <3>5. QED
      BY <3>2, <3>3, <3>4
  <2>4. ASSUME Named(logs, g) PROVE Named(next, g)
    <3>6. PICK x \in Types : \E i \in DOMAIN logs[x] : logs[x][i].navn = g
      BY <2>4 DEF Named
    <3>1. PICK i \in DOMAIN logs[x] : logs[x][i].navn = g
      BY <3>6
    <3>2. i \in DOMAIN next[x] /\ next[x][i] = logs[x][i]
      BY <1>2, <2>1, <2>2
    <3>3. QED
      BY <3>1, <3>2 DEF Named
  <2>5. ASSUME g = r.navn PROVE Named(next, g)
    <3>1. n + 1 \in DOMAIN next[t]
      BY <2>1, <2>2
    <3>2. QED
      BY <2>2, <2>5, <3>1 DEF Named
  <2>6. QED
    BY <2>3, <2>4, <2>5
<1>7. ASSUME NEW v \in Elements, v.navn # r.navn, IsRight(v, logs) PROVE IsRight(v, next)
  <2>1. v.navn \in Goods
    BY DEF Elements
  <2>2. \A x \in Types : /\ Total(next[x], v.navn) = Total(logs[x], v.navn)
                         /\ Counted(next[x], v.navn) = Counted(logs[x], v.navn)
    BY <1>3, <1>4, <1>7, <2>1
  <2>3. QED
    BY <1>5, <1>7, <2>2 DEF IsRight
<1>8. ASSUME NEW g \in Goods, g # r.navn, NothingOf(logs, g) PROVE NothingOf(next, g)
  <2>1. \A x \in Types : /\ Total(next[x], g) = Total(logs[x], g)
                         /\ Counted(next[x], g) = Counted(logs[x], g)
    BY <1>3, <1>4, <1>8
  <2>2. QED
    BY <1>5, <1>8, <2>1 DEF NothingOf
<1>9. ASSUME NEW v \in Elements, v.navn = r.navn, IsRight(v, logs)
      PROVE  /\ IsRight(Registered(v, r.antall, t), next)
             /\ Registered(v, r.antall, t) \in Elements
             /\ Registered(v, r.antall, t).navn = v.navn
  <2>1. v.navn \in Goods /\ v.registrert_inn_ut \in Int /\ v.beholdning \in Nat
    BY DEF Elements
  <2>2. PICK d \in Nat, s \in Nat :
           d = Total(logs["LEVERING"], v.navn) /\ s = Total(logs["SALG"], v.navn)
    BY <1>3, <1>5, <2>1
  <2>3. /\ v.registrert_inn_ut = d - s
        /\ v.beholdning = Counted(logs["BEHOLDNING"], v.navn)
    BY <1>9, <2>2 DEF IsRight
  <2>4. /\ Total(next["LEVERING"], v.navn) = IF t = "LEVERING" THEN d + r.antall ELSE d
        /\ Total(next["SALG"], v.navn) = IF t = "SALG" THEN s + r.antall ELSE s
        /\ Counted(next["BEHOLDNING"], v.navn) =
              IF t = "BEHOLDNING" THEN r.antall ELSE v.beholdning
    BY <1>3, <1>4, <1>5, <1>9, <2>1, <2>2, <2>3
  <2>5. CASE t = "LEVERING"
    <3>1. PICK w : w = Registered(v, r.antall, t)
      OBVIOUS
    <3>2. w = [v EXCEPT !.registrert_inn_ut = @ + r.antall]
      BY <2>5, <3>1 DEF Registered
    <3>3. /\ w.navn = v.navn /\ w.beholdning = v.beholdning
          /\ w.registrert_inn_ut = v.registrert_inn_ut + r.antall
      BY <3>2 DEF Elements
    <3>4. w \in Elements
      <4>1. PICK z \in Int : z = v.registrert_inn_ut + r.antall
        BY <1>1, <2>1
      <4>2. w = [v EXCEPT !.registrert_inn_ut = z]
        BY <3>2, <4>1
      <4>3. v \in [navn : Goods, beholdning : Nat, registrert_inn_ut : Int]
        BY DEF Elements
      <4>4. QED
        BY <4>2, <4>3 DEF Elements
    <3>5. w.registrert_inn_ut =
             Total(next["LEVERING"], v.navn) - Total(next["SALG"], v.navn)
      BY <1>1, <2>2, <2>3, <2>4, <2>5, <3>3
    <3>6. IsRight(w, next)
      BY <2>4, <2>5, <3>3, <3>5 DEF IsRight
    <3>7. QED
      BY <3>1, <3>3, <3>4, <3>6
  <2>6. CASE t = "SALG"
    <3>1. PICK w : w = Registered(v, r.antall, t)
      OBVIOUS
    <3>2. w = [v EXCEPT !.registrert_inn_ut = @ - r.antall]
      BY <2>6, <3>1 DEF Registered
    <3>3. /\ w.navn = v.navn /\ w.beholdning = v.beholdning
          /\ w.registrert_inn_ut = v.registrert_inn_ut - r.antall
      BY <3>2 DEF Elements
    <3>4. w \in Elements
      <4>1. PICK z \in Int : z = v.registrert_inn_ut - r.antall
        BY <1>1, <2>1
      <4>2. w = [v EXCEPT !.registrert_inn_ut = z]
        BY <3>2, <4>1
      <4>3. v \in [navn : Goods, beholdning : Nat, registrert_inn_ut : Int]
        BY DEF Elements
      <4>4. QED
        BY <4>2, <4>3 DEF Elements
    <3>5. w.registrert_inn_ut =
             Total(next["LEVERING"], v.navn) - Total(next["SALG"], v.navn)
      BY <1>1, <2>2, <2>3, <2>4, <2>6, <3>3
    <3>6. IsRight(w, next)
      BY <2>4, <2>6, <3>3, <3>5 DEF IsRight
    <3>7. QED
      BY <3>1, <3>3, <3>4, <3>6
  <2>7. CASE t = "BEHOLDNING"
    <3>1. Registered(v, r.antall, t) = [v EXCEPT !.beholdning = r.antall]
      BY <2>7 DEF Registered
    <3>2. QED
      BY <1>1, <2>1, <2>2, <2>3, <2>4, <2>7, <3>1 DEF IsRight, Elements
  <2>8. QED
    BY <1>5, <2>5, <2>6, <2>7
<1>10. QED
  BY <1>2, <1>6, <1>7, <1>8, <1>9 DEF Recorded

LEMMA NewVareEffect ==
    ASSUME NEW logs \in [Types -> Seq(Records)], NEW g \in Goods, NothingOf(logs, g)
    PROVE  NewVare(g) \in Elements /\ NewVare(g).navn = g /\ IsRight(NewVare(g), logs)
<1>1. NewVare(g) = [navn |-> g, beholdning |-> 0, registrert_inn_ut |-> 0]
  BY DEF NewVare
<1>2. NewVare(g) \in Elements
  BY <1>1 DEF Elements
<1>3. IsRight(NewVare(g), logs)
  BY <1>1 DEF IsRight, NothingOf
<1>4. QED
  BY <1>1, <1>2, <1>3

LEMMA ReadRecordInv == WarehouseInv /\ ReadRecord => WarehouseInv'
<1> SUFFICES ASSUME WarehouseInv, ReadRecord PROVE WarehouseInv'
  OBVIOUS
<1>1. PICK navn \in Goods, antall \in Amounts :
         /\ LeggTilVare(navn, antall, stage)
         /\ lest' = [lest EXCEPT ![stage] = Append(@, [navn |-> navn, antall |-> antall])]
  BY DEF ReadRecord
<1>2. PICK r \in Records : r = [navn |-> navn, antall |-> antall]
  BY DEF Records
<1>3. r.navn = navn /\ r.antall = antall
  BY <1>2
<1>4. PICK logs, next : logs = lest /\ next = lest'
  OBVIOUS
<1>5. PICK goods, after : goods = varer /\ after = varer'
  OBVIOUS
<1>6. stage \in Types /\ stage' = stage
  BY DEF ReadRecord
<1>7. PICK t \in Types : t = stage
  BY <1>6
<1>8. /\ goods \in Seq(Elements) /\ logs \in [Types -> Seq(Records)]
      /\ ListIsRight(goods, logs)
  BY <1>4, <1>5, <1>6 DEF WarehouseInv, Types
<1>9. next = [logs EXCEPT ![t] = Append(@, r)]
  BY <1>1, <1>2, <1>4, <1>7
<1>10. /\ next \in [Types -> Seq(Records)]
       /\ \A g \in Goods : Named(next, g) <=> Named(logs, g) \/ g = r.navn
       /\ \A v \in Elements : v.navn # r.navn /\ IsRight(v, logs) => IsRight(v, next)
       /\ \A g \in Goods : g # r.navn /\ NothingOf(logs, g) => NothingOf(next, g)
       /\ \A v \in Elements : v.navn = r.navn /\ IsRight(v, logs) =>
             /\ IsRight(Registered(v, r.antall, t), next)
             /\ Registered(v, r.antall, t) \in Elements
             /\ Registered(v, r.antall, t).navn = v.navn
  <2>1. Recorded(logs, next, t, r)
    BY <1>8, <1>9, RecordEffect
  <2>2. QED
    BY <2>1 DEF Recorded
<1>11. PICK n \in Nat : n = Len(goods) /\ DOMAIN goods = 1 .. n
  BY <1>8
<1>12. \A i \in 1 .. n : goods[i] \in Elements /\ goods[i].navn \in Goods
  <2>1. \A i \in 1 .. n : goods[i] \in Elements
    BY <1>8, <1>11
  <2>2. QED
    BY <2>1 DEF Elements
<1>13. /\ \A i, j \in 1 .. n : goods[i].navn = goods[j].navn => i = j
       /\ \A i \in 1 .. n : IsRight(goods[i], logs) /\ Named(logs, goods[i].navn)
       /\ \A g \in Goods : (\A i \in 1 .. n : goods[i].navn # g) =>
             ~Named(logs, g) /\ NothingOf(logs, g)
  BY <1>8, <1>11 DEF ListIsRight
<1> DEFINE same == {i \in 1 .. n : goods[i].navn = navn}
<1>14. after = IF same = {} THEN <<Registered(NewVare(navn), antall, t)>> \o goods
               ELSE [goods EXCEPT ![CHOOSE i \in same : \A j \in same : i <= j] =
                       Registered(@, antall, t)]
  BY <1>1, <1>5, <1>7, <1>11 DEF LeggTilVare
<1>15. after \in Seq(Elements) /\ ListIsRight(after, next)
  <2>1. CASE same = {}
    <3>1. NothingOf(logs, navn) /\ \A i \in 1 .. n : goods[i].navn # navn
      BY <1>13, <2>1
    <3>2. PICK w : w = Registered(NewVare(navn), antall, t)
      OBVIOUS
    <3>3. w \in Elements /\ w.navn = navn /\ IsRight(w, next)
      BY <1>3, <1>8, <1>10, <3>1, <3>2, NewVareEffect
    <3>4. after = <<w>> \o goods
      BY <1>14, <2>1, <3>2
    <3>5. /\ after \in Seq(Elements) /\ DOMAIN after = 1 .. n + 1 /\ after[1] = w
          /\ \A i \in 2 .. n + 1 : i - 1 \in 1 .. n /\ after[i] = goods[i - 1]
          /\ \A i \in 1 .. n + 1 : i = 1 \/ i \in 2 .. n + 1
      BY <1>8, <1>11, <3>3, <3>4
    <3>6. ASSUME NEW i \in 1 .. n + 1, NEW j \in 1 .. n + 1, after[i].navn = after[j].navn
          PROVE  i = j
      <4>1. CASE i = 1
        BY <3>1, <3>3, <3>5, <3>6, <4>1
      <4>2. CASE j = 1
        BY <3>1, <3>3, <3>5, <3>6, <4>2
      <4>3. CASE i # 1 /\ j # 1
        <5>1. i \in 2 .. n + 1 /\ j \in 2 .. n + 1
          BY <4>3
        <5>2. /\ i - 1 \in 1 .. n /\ after[i] = goods[i - 1]
              /\ j - 1 \in 1 .. n /\ after[j] = goods[j - 1]
          BY <3>5, <5>1
        <5>3. goods[i - 1].navn = goods[j - 1].navn
          BY <3>6, <5>2
        <5>4. i - 1 = j - 1
          BY <1>13, <5>2, <5>3
        <5>5. QED
          BY <5>1, <5>4
      <4>4. QED
        BY <4>1, <4>2, <4>3
    <3>7. ASSUME NEW i \in 1 .. n + 1
          PROVE  IsRight(after[i], next) /\ Named(next, after[i].navn)
      <4>1. CASE i = 1
        BY <1>3, <1>10, <3>3, <3>5, <4>1
      <4>2. CASE i # 1
        <5>1. i - 1 \in 1 .. n /\ after[i] = goods[i - 1]
          BY <3>5, <4>2
        <5>2. QED
          BY <1>3, <1>10, <1>12, <1>13, <3>1, <5>1
      <4>3. QED
        BY <4>1, <4>2
    <3>8. ASSUME NEW g \in Goods, \A i \in 1 .. n + 1 : after[i].navn # g
          PROVE  ~Named(next, g) /\ NothingOf(next, g)
      <4>1. g # navn
        <5>1. 1 \in 1 .. n + 1
          BY <1>11
        <5>2. QED
          BY <3>3, <3>5, <3>8, <5>1
      <4>2. \A i \in 1 .. n : goods[i].navn # g
        <5>1. ASSUME NEW i \in 1 .. n PROVE goods[i].navn # g
          <6>1. i + 1 \in 2 .. n + 1 /\ i + 1 \in 1 .. n + 1 /\ (i + 1) - 1 = i
            BY <1>11
          <6>2. QED
            BY <3>5, <3>8, <6>1
        <5>2. QED
          BY <5>1
      <4>3. QED
        BY <1>3, <1>10, <1>13, <4>1, <4>2
    <3>9. QED
      BY <3>5, <3>6, <3>7, <3>8 DEF ListIsRight
  <2>2. CASE same # {}
    <3>1. PICK k \in 1 .. n : goods[k].navn = navn
      BY <2>2
    <3>2. same = {k}
      BY <1>13, <3>1
    <3>3. (CHOOSE i \in same : \A j \in same : i <= j) = k
      <4>1. k <= k
        OBVIOUS
      <4>2. QED
        BY <3>2, <4>1
    <3>4. PICK w : w = Registered(goods[k], antall, t)
      OBVIOUS
    <3>5. w \in Elements /\ w.navn = navn /\ IsRight(w, next)
      BY <1>3, <1>10, <1>12, <1>13, <3>1, <3>4
    <3>6. after = [goods EXCEPT ![k] = w]
      BY <1>14, <2>2, <3>3, <3>4
    <3>7. /\ after \in Seq(Elements) /\ DOMAIN after = 1 .. n /\ after[k] = w
          /\ \A i \in 1 .. n : i # k => after[i] = goods[i]
      BY <1>8, <1>11, <3>5, <3>6
    <3>8. \A i \in 1 .. n : after[i].navn = goods[i].navn
      BY <3>1, <3>5, <3>7
    <3>9. ASSUME NEW i \in 1 .. n
          PROVE  IsRight(after[i], next) /\ Named(next, after[i].navn)
      <4>1. CASE i = k
        BY <1>3, <1>10, <3>5, <3>7, <4>1
      <4>2. CASE i # k
        <5>1. after[i] = goods[i] /\ goods[i].navn # navn
          BY <1>13, <3>1, <3>7, <4>2
        <5>2. QED
          BY <1>3, <1>10, <1>12, <1>13, <5>1
      <4>3. QED
        BY <4>1, <4>2
    <3>10. ASSUME NEW g \in Goods, \A i \in 1 .. n : after[i].navn # g
           PROVE  ~Named(next, g) /\ NothingOf(next, g)
      <4>1. g # navn
        BY <3>1, <3>8, <3>10
      <4>2. ~Named(logs, g) /\ NothingOf(logs, g)
        BY <1>13, <3>8, <3>10
      <4>3. QED
        BY <1>3, <1>10, <4>1, <4>2
    <3>11. QED
      BY <1>13, <3>7, <3>8, <3>9, <3>10 DEF ListIsRight
  <2>3. QED
    BY <2>1, <2>2
<1>16. QED
  BY <1>4, <1>5, <1>6, <1>10, <1>15 DEF WarehouseInv

LEMMA WarehouseStep_Inv == WarehouseInv /\ [WarehouseNext]_warehouseVars => WarehouseInv'
<1> SUFFICES ASSUME WarehouseInv, [WarehouseNext]_warehouseVars PROVE WarehouseInv'
  OBVIOUS
<1>1. CASE NextLog
  <2>1. /\ stage # "failed" /\ stage' \in Types \cup {"printed"}
        /\ UNCHANGED <<varer, lest>>
    BY <1>1 DEF NextLog, AfterStage, Types
  <2>2. QED
    BY <2>1 DEF WarehouseInv, Types
<1>2. CASE Fails
  <2>1. stage' = "failed" /\ varer' = <<>> /\ UNCHANGED lest
    BY <1>2 DEF Fails
  <2>2. QED
    BY <2>1 DEF WarehouseInv
<1>3. CASE UNCHANGED warehouseVars
  BY <1>3 DEF warehouseVars, WarehouseInv
<1>4. QED
  BY <1>1, <1>2, <1>3, ReadRecordInv DEF WarehouseNext

LEMMA WarehouseInit_Inv == WarehouseInit => WarehouseInv
<1> SUFFICES ASSUME WarehouseInit PROVE WarehouseInv
  OBVIOUS
<1>1. varer = <<>> /\ stage = "start" /\ lest = [t \in Types |-> <<>>]
  BY DEF WarehouseInit
<1>2. \A t \in Types : lest[t] = <<>> /\ DOMAIN lest[t] = {}
  BY <1>1
<1>3. ASSUME NEW g \in Goods PROVE ~Named(lest, g) /\ NothingOf(lest, g)
  <2>1. ~Named(lest, g)
    BY <1>2 DEF Named
  <2>2. lest["LEVERING"] = <<>> /\ lest["SALG"] = <<>> /\ lest["BEHOLDNING"] = <<>>
    BY <1>2 DEF Types
  <2>3. NothingOf(lest, g)
    BY <2>2, TotalEffect, CountedEffect DEF NothingOf
  <2>4. QED
    BY <2>1, <2>3
<1>4. varer \in Seq(Elements) /\ DOMAIN varer = {}
  BY <1>1
<1>5. ListIsRight(varer, lest)
  BY <1>3, <1>4 DEF ListIsRight
<1>6. lest \in [Types -> Seq(Records)]
  BY <1>1
<1>7. QED
  BY <1>1, <1>4, <1>5, <1>6 DEF WarehouseInv

\* finnsvinn.c:47-51: what is printed is right, for any logs: whatever goods
\* they name, in whatever order, and whatever amounts.
THEOREM SvinnIsRightHolds == WarehouseSpec => []SvinnIsRight
<1>1. ASSUME WarehouseInv PROVE SvinnIsRight
  <2>1. SUFFICES ASSUME stage = "printed", NEW g \in Goods
                 PROVE  LET elements == {i \in DOMAIN varer : varer[i].navn = g}
                        IN IF ~Named(lest, g) THEN elements = {}
                           ELSE \E i \in elements :
                                   /\ elements = {i}
                                   /\ varer[i].registrert_inn_ut - varer[i].beholdning =
                                         Total(lest["LEVERING"], g) - Total(lest["SALG"], g)
                                         - Counted(lest["BEHOLDNING"], g)
    BY DEF SvinnIsRight, Named
  <2> DEFINE elements == {i \in DOMAIN varer : varer[i].navn = g}
  <2>2. /\ \A i, j \in DOMAIN varer : varer[i].navn = varer[j].navn => i = j
        /\ \A i \in DOMAIN varer : IsRight(varer[i], lest) /\ Named(lest, varer[i].navn)
        /\ (\A i \in DOMAIN varer : varer[i].navn # g) => ~Named(lest, g)
    BY <1>1, <2>1 DEF WarehouseInv, ListIsRight
  <2>3. CASE ~Named(lest, g)
    BY <2>2, <2>3
  <2>4. CASE Named(lest, g)
    <3>1. PICK i \in DOMAIN varer : varer[i].navn = g
      BY <2>2, <2>4
    <3>2. elements = {i}
      BY <2>2, <3>1
    <3>3. varer[i].registrert_inn_ut - varer[i].beholdning =
             Total(lest["LEVERING"], g) - Total(lest["SALG"], g)
             - Counted(lest["BEHOLDNING"], g)
      BY <2>2, <3>1 DEF IsRight
    <3>4. QED
      BY <2>4, <3>2, <3>3
  <2>5. QED
    BY <2>3, <2>4
<1>2. QED
  BY <1>1, WarehouseInit_Inv, WarehouseStep_Inv, PTL DEF WarehouseSpec

-------------------------------------------------------------------------------
(* uke9.c *)

\* main's mistake: the requests after the first are the tracks but the last.
LEMMA RequestsEffect ==
    ASSUME NEW S, NEW s \in Seq(S), s # <<>>
    PROVE  /\ Head(Requests(s)) = 0
           /\ Tail(Requests(s)) = SubSeq(s, 1, Len(s) - 1)
           /\ SubSeq(s, 1, Len(s) - 1) \in Seq(S)
<1> DEFINE all == <<0>> \o s
           r == SubSeq(all, 1, Len(s))
           kept == SubSeq(s, 1, Len(s) - 1)
<1>1. Len(s) \in Nat /\ Len(s) >= 1 /\ s \in Seq(S \cup {0}) /\ <<0>> \in Seq(S \cup {0})
  OBVIOUS
<1>2. all \in Seq(S \cup {0}) /\ Len(all) = Len(s) + 1
  BY <1>1
<1>3. all[1] = 0 /\ \A i \in 1 .. Len(s) : all[i + 1] = s[i]
  BY <1>1
<1> HIDE DEF all
<1>4. r \in Seq(S \cup {0}) /\ Len(r) = Len(s) /\ \A i \in 1 .. Len(s) : r[i] = all[i]
  BY <1>1, <1>2
<1>5. kept \in Seq(S) /\ Len(kept) = Len(s) - 1 /\ \A i \in 1 .. Len(s) - 1 : kept[i] = s[i]
  BY AllButLast
<1> HIDE DEF r, kept
<1>6. /\ Tail(r) \in Seq(S \cup {0}) /\ Len(Tail(r)) = Len(s) - 1
      /\ \A i \in 1 .. Len(s) - 1 : Tail(r)[i] = r[i + 1]
  BY <1>1, <1>4
<1>7. Tail(r) = kept
  <2>1. \A i \in 1 .. Len(s) - 1 : i \in 1 .. Len(s) /\ i + 1 \in 1 .. Len(s)
    BY <1>1
  <2>2. \A i \in 1 .. Len(s) - 1 : Tail(r)[i] = kept[i]
    BY <1>3, <1>4, <1>5, <1>6, <2>1
  <2>3. kept \in Seq(S \cup {0})
    BY <1>5
  <2>4. QED
    BY <1>5, <1>6, <2>2, <2>3, SameSequence
<1>8. Head(r) = 0
  BY <1>1, <1>3, <1>4
<1>9. QED
  BY <1>5, <1>7, <1>8 DEF Requests, r, kept, all

\* An arrangement is as long, and has the same elements.
LEMMA ArrangementEffect ==
    ASSUME NEW S, NEW s \in Seq(S), NEW t \in Arrangements(s)
    PROVE  /\ t \in Seq(S) /\ Len(t) = Len(s)
           /\ \A i \in 1 .. Len(s) : \E k \in 1 .. Len(s) : t[i] = s[k]
           /\ \A k \in 1 .. Len(s) : \E i \in 1 .. Len(s) : t[i] = s[k]
<1>1. PICK n \in Nat : n = Len(s) /\ DOMAIN s = 1 .. n
  OBVIOUS
<1> DEFINE Moves == {g \in [1 .. n -> 1 .. n] : \A i, j \in 1 .. n : g[i] = g[j] => i = j}
<1>2. t \in {[i \in 1 .. n |-> s[from[i]]] : from \in Moves}
  BY <1>1 DEF Arrangements
<1>3. PICK g \in Moves : t = [i \in 1 .. n |-> s[g[i]]]
  BY <1>2
<1>4. /\ g \in [1 .. n -> 1 .. n]
      /\ \A i, j \in 1 .. n : g[i] = g[j] => i = j
  OBVIOUS
<1>5. \A i \in 1 .. n : g[i] \in 1 .. n /\ t[i] = s[g[i]] /\ s[g[i]] \in S
  BY <1>1, <1>3, <1>4
<1>6. \A k \in 1 .. n : \E i \in 1 .. n : g[i] = k
  BY <1>4, ArrangementIsOnto
<1>7. t \in Seq(S) /\ Len(t) = n
  BY <1>5, <1>3
<1>8. QED
  BY <1>1, <1>5, <1>6, <1>7

InOrderOf(s) == \A i, j \in DOMAIN s : i < j => s[i] <= s[j]

\* Numbers can be sorted.
LEMMA AscendingEffect ==
    ASSUME NEW s \in Seq(Nat)
    PROVE  Ascending(s) \in Arrangements(s) /\ InOrderOf(Ascending(s))
<1>1. PICK n \in Nat : n = Len(s) /\ DOMAIN s = 1 .. n
  OBVIOUS
<1>2. \A i \in 1 .. n : s[i] \in Nat
  BY <1>1
<1> DEFINE R == {p \in (1 .. n) \X (1 .. n) :
                    s[p[1]] < s[p[2]] \/ (s[p[1]] = s[p[2]] /\ p[1] < p[2])}
<1>3. \A i, j \in 1 .. n : <<i, j>> \in R <=> s[i] < s[j] \/ (s[i] = s[j] /\ i < j)
  OBVIOUS
<1> HIDE DEF R
<1>4. IsOrder(R, n)
  <2>1. \A i \in 1 .. n : <<i, i>> \notin R
    BY <1>2, <1>3
  <2>2. \A i, j \in 1 .. n : i # j => <<i, j>> \in R \/ <<j, i>> \in R
    BY <1>2, <1>3
  <2>3. ASSUME NEW i \in 1 .. n, NEW j \in 1 .. n, NEW k \in 1 .. n,
               <<i, j>> \in R, <<j, k>> \in R
        PROVE  <<i, k>> \in R
    <3>1. s[i] \in Nat /\ s[j] \in Nat /\ s[k] \in Nat
      BY <1>2
    <3>2. /\ s[i] < s[j] \/ (s[i] = s[j] /\ i < j)
          /\ s[j] < s[k] \/ (s[j] = s[k] /\ j < k)
      BY <1>3, <2>3
    <3>3. s[i] < s[k] \/ (s[i] = s[k] /\ i < k)
      BY <3>1, <3>2
    <3>4. QED
      BY <1>3, <3>3
  <2>4. QED
    BY <2>1, <2>2, <2>3 DEF IsOrder
<1>5. PICK g : PutsInOrder(g, R, n)
  BY <1>4, CanBePutInOrder
<1>6. /\ g \in [1 .. n -> 1 .. n]
      /\ \A k, m \in 1 .. n : g[k] = g[m] => k = m
      /\ \A k, m \in 1 .. n : k < m => <<g[m], g[k]>> \notin R
  BY <1>5 DEF PutsInOrder
<1> DEFINE t == [k \in 1 .. n |-> s[g[k]]]
<1>7. t \in Arrangements(s)
  <2>1. g \in {h \in [DOMAIN s -> DOMAIN s] : \A k, m \in DOMAIN s : h[k] = h[m] => k = m}
    BY <1>1, <1>6
  <2>2. t = [k \in DOMAIN s |-> s[g[k]]]
    BY <1>1
  <2>3. QED
    BY <2>1, <2>2 DEF Arrangements
<1>8. InOrderOf(t)
  <2>1. ASSUME NEW k \in 1 .. n, NEW m \in 1 .. n, k < m PROVE s[g[k]] <= s[g[m]]
    <3>1. g[k] \in 1 .. n /\ g[m] \in 1 .. n /\ <<g[m], g[k]>> \notin R
      BY <1>6, <2>1
    <3>2. s[g[k]] \in Nat /\ s[g[m]] \in Nat /\ ~(s[g[m]] < s[g[k]])
      BY <1>2, <1>3, <3>1
    <3>3. QED
      BY <3>2
  <2>2. QED
    BY <2>1 DEF InOrderOf
<1>9. QED
  BY <1>7, <1>8 DEF Ascending, InOrderOf

\* From track 0 nothing is below, so look serves all there is and lookdown
\* nothing.
LEMMA FromTrackZero ==
    ASSUME NEW s \in Seq(Nat)
    PROVE  Look(0, s) = Ascending(s) /\ Lookdown(0, s) = <<>>
<1> DEFINE a == Ascending(s)
<1>1. a \in Seq(Nat)
  BY AscendingEffect, ArrangementEffect
<1> HIDE DEF a
<1>2. Len(a) \in Nat /\ \A i \in 1 .. Len(a) : a[i] \in Nat
  BY <1>1
<1>3. Below(0, a) = 0
  <2> DEFINE IsBelow(n) == /\ \A i \in 1 .. n : a[i] < 0
                           /\ n < Len(a) => a[n + 1] >= 0
  <2>1. 0 \in 0 .. Len(a) /\ IsBelow(0)
    BY <1>2
  <2>2. ASSUME NEW n \in 0 .. Len(a), IsBelow(n) PROVE n = 0
    <3>1. SUFFICES ASSUME n >= 1 PROVE FALSE
      BY <1>2
    <3>2. 1 \in 1 .. n /\ 1 \in 1 .. Len(a)
      BY <1>2, <3>1
    <3>3. a[1] < 0 /\ a[1] \in Nat
      BY <1>2, <2>2, <3>2
    <3>4. QED
      BY <3>3
  <2>3. Below(0, a) = CHOOSE n \in 0 .. Len(a) : IsBelow(n)
    BY DEF Below
  <2> HIDE DEF IsBelow
  <2>4. QED
    BY <2>1, <2>2, <2>3
<1>4. SubSeq(a, 1, Len(a)) = a
  BY <1>1
<1>5. Look(0, s) = a
  BY <1>3, <1>4 DEF Look, a
<1>6. Lookdown(0, s) = [i \in 1 .. 0 |-> a[0 + 1 - i]]
  BY <1>3 DEF Lookdown, a
<1>7. QED
  BY <1>5, <1>6 DEF a

\* What a[1], a[2], ... add up to.
Adds(f, a, n) ==
    /\ f \in [0 .. n -> Nat]
    /\ f[0] = 0 /\ \A k \in 1 .. n : f[k] = f[k - 1] + a[k]

LEMMA AddsUp ==
    ASSUME NEW n \in Nat, NEW a \in [1 .. n -> Nat]
    PROVE  \E f : Adds(f, a, n)
<1> DEFINE step == [p \in Nat \X Nat |-> IF p[1] + 1 \in 1 .. n THEN p[2] + a[p[1] + 1] ELSE 0]
<1>1. ASSUME NEW p \in Nat \X Nat
      PROVE  (IF p[1] + 1 \in 1 .. n THEN p[2] + a[p[1] + 1] ELSE 0) \in Nat
  <2>1. p[1] \in Nat /\ p[2] \in Nat
    OBVIOUS
  <2>2. p[1] + 1 \in 1 .. n => a[p[1] + 1] \in Nat
    OBVIOUS
  <2>3. QED
    BY <2>1, <2>2
<1>2. step \in [Nat \X Nat -> Nat]
  BY <1>1
<1>3. \A k, v \in Nat : k + 1 \in 1 .. n => step[<<k, v>>] = v + a[k + 1]
  OBVIOUS
<1> HIDE DEF step
<1>4. PICK F : Unfolds(F, Nat, 0, step)
  BY <1>2, Recursion
<1> DEFINE f == [k \in 0 .. n |-> F[k]]
<1>5. F \in [Nat -> Nat] /\ F[0] = 0 /\ \A k \in Nat : F[k + 1] = step[<<k, F[k]>>]
  BY <1>4 DEF Unfolds
<1>6. f \in [0 .. n -> Nat] /\ f[0] = 0
  BY <1>5
<1>7. ASSUME NEW k \in 1 .. n PROVE f[k] = f[k - 1] + a[k]
  <2>1. k - 1 \in Nat /\ (k - 1) + 1 = k /\ k - 1 \in 0 .. n /\ k \in 0 .. n
    OBVIOUS
  <2>2. F[k] = step[<<k - 1, F[k - 1]>>] /\ F[k - 1] \in Nat
    BY <1>5, <2>1
  <2>3. step[<<k - 1, F[k - 1]>>] = F[k - 1] + a[k]
    BY <1>3, <2>1, <2>2
  <2>4. QED
    BY <2>1, <2>2, <2>3
<1>8. QED
  BY <1>6, <1>7 DEF Adds

\* The way from track 0 over some tracks is at least as long as to any of them.
LEMMA WayOverEffect ==
    ASSUME NEW t \in Seq(Nat)
    PROVE  WayOver(0, t) \in Nat /\ \A k \in 1 .. Len(t) : t[k] <= WayOver(0, t)
<1> DEFINE move(n) == Way(IF n = 1 THEN 0 ELSE t[n - 1], t[n])
           Def(w) == w = [n \in 0 .. Len(t) |-> IF n = 0 THEN 0 ELSE w[n - 1] + move(n)]
           way == CHOOSE w : Def(w)
<1>1. Len(t) \in Nat /\ \A k \in 1 .. Len(t) : t[k] \in Nat
  OBVIOUS
<1>2. ASSUME NEW n \in 1 .. Len(t)
      PROVE  /\ move(n) \in Nat
             /\ n = 1 => move(n) = t[n]
             /\ n # 1 => t[n - 1] \in Nat /\ t[n] <= t[n - 1] + move(n)
  <2>1. t[n] \in Nat
    BY <1>1
  <2>2. CASE n = 1
    BY <2>1, <2>2 DEF Way
  <2>3. CASE n # 1
    <3>1. n - 1 \in 1 .. Len(t)
      BY <1>1, <2>3
    <3>2. t[n - 1] \in Nat
      BY <1>1, <3>1
    <3>3. QED
      BY <2>1, <2>3, <3>2 DEF Way
  <2>4. QED
    BY <2>2, <2>3
<1>3. WayOver(0, t) = way[Len(t)]
  BY DEF WayOver
<1> HIDE DEF move
<1>4. \E w : Def(w)
  <2> DEFINE a == [n \in 1 .. Len(t) |-> move(n)]
  <2>1. a \in [1 .. Len(t) -> Nat]
    BY <1>2
  <2>2. \A n \in 1 .. Len(t) : a[n] = move(n)
    OBVIOUS
  <2> HIDE DEF a
  <2>3. PICK f : Adds(f, a, Len(t))
    BY <1>1, <2>1, AddsUp
  <2>4. \A n \in 0 .. Len(t) : n # 0 => n \in 1 .. Len(t)
    BY <1>1
  <2>5. \A n \in 0 .. Len(t) : f[n] = IF n = 0 THEN 0 ELSE f[n - 1] + move(n)
    BY <2>2, <2>3, <2>4 DEF Adds
  <2>6. f = [n \in 0 .. Len(t) |-> f[n]]
    BY <2>3 DEF Adds
  <2>7. Def(f)
    BY <2>5, <2>6
  <2>8. QED
    BY <2>7
<1>5. Def(way)
  BY <1>4
<1> HIDE DEF way
<1>6. \A n \in 0 .. Len(t) : way[n] = IF n = 0 THEN 0 ELSE way[n - 1] + move(n)
  BY <1>5
<1> DEFINE T == {n \in Nat : n <= Len(t) => way[n] \in Nat /\ \A k \in 1 .. n : t[k] <= way[n]}
<1>7. 0 \in T
  BY <1>1, <1>6
<1>8. ASSUME NEW n \in Nat, n \in T PROVE n + 1 \in T
  <2>1. SUFFICES ASSUME n + 1 <= Len(t)
                 PROVE  way[n + 1] \in Nat /\ \A k \in 1 .. n + 1 : t[k] <= way[n + 1]
    OBVIOUS
  <2>2. /\ n + 1 \in 0 .. Len(t) /\ n + 1 \in 1 .. Len(t) /\ n <= Len(t)
        /\ n + 1 # 0 /\ (n + 1) - 1 = n
    BY <1>1, <2>1
  <2>3. way[n + 1] = way[n] + move(n + 1)
    BY <1>6, <2>2
  <2>4. way[n] \in Nat /\ \A k \in 1 .. n : t[k] <= way[n]
    BY <1>8, <2>2
  <2>5. move(n + 1) \in Nat
    BY <1>2, <2>2
  <2>6. way[n + 1] \in Nat /\ way[n] <= way[n + 1]
    BY <2>3, <2>4, <2>5
  <2>7. t[n + 1] <= way[n + 1]
    <3>1. t[n + 1] \in Nat
      BY <1>1, <2>2
    <3>2. CASE n = 0
      <4>1. move(n + 1) = t[n + 1]
        BY <1>2, <2>2, <3>2
      <4>2. QED
        BY <2>3, <2>4, <3>1, <4>1
    <3>3. CASE n # 0
      <4>1. n + 1 # 1 /\ n \in 1 .. n
        BY <3>3
      <4>2. t[n] \in Nat /\ t[n + 1] <= t[n] + move(n + 1)
        BY <1>2, <2>2, <4>1
      <4>3. t[n] <= way[n]
        BY <2>4, <4>1
      <4>4. QED
        BY <2>3, <2>4, <2>5, <3>1, <4>2, <4>3
    <3>4. QED
      BY <3>2, <3>3
  <2>8. ASSUME NEW k \in 1 .. n + 1 PROVE t[k] <= way[n + 1]
    <3>1. CASE k = n + 1
      BY <2>7, <3>1
    <3>2. CASE k # n + 1
      <4>1. k \in 1 .. n /\ k \in 1 .. Len(t)
        BY <2>1, <3>2
      <4>2. t[k] <= way[n] /\ t[k] \in Nat
        BY <1>1, <2>4, <4>1
      <4>3. QED
        BY <2>4, <2>6, <4>2
    <3>3. QED
      BY <3>1, <3>2
  <2>9. QED
    BY <2>6, <2>8
<1>9. Nat \subseteq T
  BY <1>7, <1>8, Induction
<1>10. way[Len(t)] \in Nat /\ \A k \in 1 .. Len(t) : t[k] <= way[Len(t)]
  BY <1>1, <1>9
<1>11. QED
  BY <1>3, <1>10

\* The tracks that count.
ReadTracks == SubSeq(given, 1, Len(given) - 1)

\* What is served and what is still to be served make up the plan.  On the way
\* of look, the head has moved over no track twice.
SchedInv ==
    /\ algo \in {"", "FCFS", "LOOK", "LOOKDOWN", "SCAN"}
    /\ served \in Seq(Tracks) /\ route \in Seq(Tracks)
    /\ algo = "" => served = <<>> /\ route = <<>> /\ pos = 0 /\ dist = 0
    /\ algo # "" => /\ ReadTracks \in Seq(Tracks)
                    /\ Head(Requests(given)) = 0
                    /\ served \o route \in Routes(algo, 0, ReadTracks)
    /\ algo = "LOOK" =>
          /\ dist = pos
          /\ served = <<>> => pos = 0
          /\ served # <<>> => pos = served[Len(served)]

LEMMA TracksAreNumbers ==
    /\ Tracks \subseteq Nat /\ 0 \in Tracks /\ DISKSIZE - 1 \in Tracks
    /\ Seq(Tracks) \subseteq Seq(Nat)
<1>1. Tracks \subseteq Nat /\ 0 \in Tracks /\ DISKSIZE - 1 \in Tracks
  BY DiskAssumption DEF Tracks
<1>2. QED
  BY <1>1, SeqMonotonic

\* All algorithms go over tracks of the disk.
LEMMA RoutesAreTracks ==
    ASSUME NEW a \in {"FCFS", "LOOK", "LOOKDOWN", "SCAN"}, NEW s \in Seq(Tracks)
    PROVE  Routes(a, 0, s) \subseteq Seq(Tracks)
<1> DEFINE e == <<0, DISKSIZE - 1>> \o s
<1>1. e \in Seq(Tracks)
  BY TracksAreNumbers, PairInFront
<1> HIDE DEF e
<1>2. \A r \in Seq(Tracks) : Look(0, r) \in Seq(Tracks) /\ Lookdown(0, r) = <<>>
  <2>1. SUFFICES ASSUME NEW r \in Seq(Tracks)
                 PROVE  Look(0, r) \in Seq(Tracks) /\ Lookdown(0, r) = <<>>
    OBVIOUS
  <2>2. r \in Seq(Nat)
    BY TracksAreNumbers
  <2>3. Look(0, r) = Ascending(r) /\ Lookdown(0, r) = <<>>
    BY <2>2, FromTrackZero
  <2>4. Ascending(r) \in Arrangements(r)
    BY <2>2, AscendingEffect
  <2>5. Ascending(r) \in Seq(Tracks)
    BY <2>4, ArrangementEffect
  <2>6. QED
    BY <2>3, <2>5
<1>3. Look(0, s) \in Seq(Tracks) /\ Look(0, e) \in Seq(Tracks) /\ Lookdown(0, s) \in Seq(Tracks)
  <2>1. <<>> \in Seq(Tracks)
    OBVIOUS
  <2>2. QED
    BY <1>1, <1>2, <2>1
<1>4. CASE a = "FCFS"
  BY <1>4 DEF Routes, Fcfs
<1>5. CASE a = "LOOK"
  BY <1>3, <1>5 DEF Routes
<1>6. CASE a = "LOOKDOWN"
  BY <1>3, <1>6 DEF Routes
<1>7. CASE a = "SCAN"
  BY <1>3, <1>7 DEF Routes, Scan, e
<1>8. QED
  BY <1>4, <1>5, <1>6, <1>7

LEMMA RunAlgorithmInv == SchedInv /\ RunAlgorithm => SchedInv'
<1> SUFFICES ASSUME SchedInv, RunAlgorithm PROVE SchedInv'
  OBVIOUS
<1>1. /\ algo' \in {"FCFS", "LOOK", "LOOKDOWN", "SCAN"} /\ algo' # ""
      /\ served = <<>> /\ dist = 0 /\ served' = served /\ dist' = dist
      /\ pos' = Head(Requests(given'))
      /\ route' \in Routes(algo', pos', Tail(Requests(given')))
  BY DEF SchedInv, RunAlgorithm
<1>2. given' \in Seq(Tracks) /\ given' # <<>>
  <2>1. PICK n \in 1 .. MaxTracks : given' \in [1 .. n -> Tracks]
    BY DEF RunAlgorithm
  <2>2. n \in Nat /\ n >= 1
    BY DiskAssumption
  <2>3. QED
    BY <2>1, <2>2
<1>3. /\ pos' = 0 /\ Tail(Requests(given')) = ReadTracks' /\ ReadTracks' \in Seq(Tracks)
  BY <1>1, <1>2, RequestsEffect DEF ReadTracks
<1>4. route' \in Routes(algo', 0, ReadTracks')
  BY <1>1, <1>3
<1>5. route' \in Seq(Tracks)
  <2>1. algo' \in {"FCFS", "LOOK", "LOOKDOWN", "SCAN"}
    BY <1>1
  <2>2. Routes(algo', 0, ReadTracks') \subseteq Seq(Tracks)
    BY <1>3, <2>1, RoutesAreTracks
  <2>3. QED
    BY <1>4, <2>2
<1>6. served' = <<>>
  BY <1>1
<1>7. served' \o route' = route'
  BY <1>5, <1>6, ConcatNothing
<1>8. served' \in Seq(Tracks) /\ dist' = pos'
  <2>1. <<>> \in Seq(Tracks)
    OBVIOUS
  <2>2. dist' = 0 /\ pos' = 0
    BY <1>1, <1>3
  <2>3. QED
    BY <1>6, <2>1, <2>2
<1>9. QED
  BY <1>1, <1>3, <1>4, <1>5, <1>7, <1>8, <1>6 DEF SchedInv

LEMMA MoveInv == SchedInv /\ Move => SchedInv'
<1> SUFFICES ASSUME SchedInv, Move PROVE SchedInv'
  OBVIOUS
<1> DEFINE h == Head(route)
<1>1. /\ route # <<>> /\ dist' = dist + Way(pos, h) /\ pos' = h
      /\ served' = Append(served, h) /\ route' = Tail(route)
      /\ algo' = algo /\ given' = given /\ ReadTracks' = ReadTracks
  BY DEF Move, ReadTracks
<1>2. /\ served \in Seq(Tracks) /\ route \in Seq(Tracks) /\ algo # ""
      /\ algo \in {"FCFS", "LOOK", "LOOKDOWN", "SCAN"}
      /\ ReadTracks \in Seq(Tracks)
      /\ Head(Requests(given)) = 0 /\ Head(Requests(given')) = 0
      /\ served \o route \in Routes(algo, 0, ReadTracks)
  BY <1>1 DEF SchedInv
<1>3. /\ h \in Tracks /\ Tail(route) \in Seq(Tracks)
      /\ Append(served, h) \in Seq(Tracks) /\ Append(served, h) # <<>>
      /\ Append(served, h)[Len(Append(served, h))] = h
      /\ Append(served, h) \o Tail(route) = served \o route
      /\ Len(served) + 1 \in DOMAIN (served \o route)
      /\ (served \o route)[Len(served) + 1] = h
      /\ Len(served) \in Nat
      /\ served # <<>> => /\ Len(served) \in DOMAIN (served \o route)
                          /\ (served \o route)[Len(served)] = served[Len(served)]
                          /\ served[Len(served)] \in Tracks
  <2>1. served \in Seq(Tracks) /\ route \in Seq(Tracks) /\ route # <<>>
    BY <1>1, <1>2
  <2>2. QED
    BY <2>1, MovesHead
<1> HIDE DEF h
<1>4. served' \in Seq(Tracks) /\ route' \in Seq(Tracks)
  BY <1>1, <1>3
<1>5. served' \o route' = served \o route
  BY <1>1, <1>3
<1>6. ASSUME algo = "LOOK"
      PROVE  /\ dist' = pos' /\ served' # <<>> /\ pos' = served'[Len(served')]
  <2>1. /\ dist = pos
        /\ served = <<>> => pos = 0
        /\ served # <<>> => pos = served[Len(served)]
    BY <1>6 DEF SchedInv
  <2>2. InOrderOf(served \o route)
    <3>1. ReadTracks \in Seq(Nat)
      BY <1>2, TracksAreNumbers
    <3>2. served \o route = Ascending(ReadTracks)
      BY <1>2, <1>6, <3>1, FromTrackZero DEF Routes
    <3>3. QED
      BY <3>1, <3>2, AscendingEffect
  <2>3. pos \in Nat /\ pos <= h /\ h \in Nat
    <3>1. h \in Nat
      BY <1>3, TracksAreNumbers
    <3>2. CASE served = <<>>
      BY <2>1, <3>1, <3>2
    <3>3. CASE served # <<>>
      <4>1. Len(served) \in Nat /\ served[Len(served)] \in Tracks
        BY <1>3, <3>3
      <4> DEFINE both == served \o route
      <4>2. both[Len(served)] = served[Len(served)] /\ both[Len(served) + 1] = h
        BY <1>3, <3>3
      <4>3. /\ Len(served) \in DOMAIN both /\ Len(served) + 1 \in DOMAIN both
            /\ Len(served) < Len(served) + 1
        BY <1>3, <3>3
      <4> HIDE DEF both
      <4>4. both[Len(served)] <= both[Len(served) + 1]
        BY <2>2, <4>3 DEF InOrderOf, both
      <4>5. served[Len(served)] \in Nat
        BY <4>1, TracksAreNumbers
      <4>6. QED
        BY <2>1, <3>1, <3>3, <4>2, <4>4, <4>5
    <3>4. QED
      BY <3>2, <3>3
  <2>4. dist' = h
    <3>1. Way(pos, h) = h - pos
      BY <2>3 DEF Way
    <3>2. dist' = dist + Way(pos, h) /\ dist = pos
      BY <1>1, <2>1
    <3>3. QED
      BY <2>3, <3>1, <3>2
  <2>5. served' # <<>> /\ served'[Len(served')] = h
    BY <1>1, <1>3
  <2>6. QED
    BY <1>1, <2>4, <2>5
<1>7. QED
  BY <1>1, <1>2, <1>4, <1>5, <1>6 DEF SchedInv

LEMMA SchedStep_Inv == SchedInv /\ [SchedNext]_schedVars => SchedInv'
<1> SUFFICES ASSUME SchedInv, [SchedNext]_schedVars PROVE SchedInv'
  OBVIOUS
<1>1. CASE UNCHANGED schedVars
  BY <1>1 DEF schedVars, SchedInv, ReadTracks
<1>2. CASE SchedNext
  BY <1>2, RunAlgorithmInv, MoveInv DEF SchedNext
<1>3. QED
  BY <1>1, <1>2

LEMMA SchedInit_Inv == SchedInit => SchedInv
<1> SUFFICES ASSUME SchedInit PROVE SchedInv
  OBVIOUS
<1>1. algo = "" /\ route = <<>> /\ pos = 0 /\ dist = 0 /\ served = <<>>
  BY DEF SchedInit
<1>2. <<>> \in Seq(Tracks)
  OBVIOUS
<1>3. served \in Seq(Tracks) /\ route \in Seq(Tracks)
  BY <1>1, <1>2
<1>4. QED
  BY <1>1, <1>3 DEF SchedInv

\* uke9.c:8-10: for any tracks of any disk, look goes the shortest way there is
\* over the tracks it serves.
THEOREM LookIsShortestHolds == SchedSpec => []LookIsShortest
<1>1. ASSUME SchedInv PROVE LookIsShortest
  <2>1. SUFFICES ASSUME algo = "LOOK", route = <<>>, NEW other \in Arrangements(served)
                 PROVE  dist <= WayOver(Head(Requests(given)), other)
    BY DEF LookIsShortest
  <2>2. /\ served \in Seq(Tracks) /\ Head(Requests(given)) = 0
        /\ dist = pos
        /\ served = <<>> => pos = 0
        /\ served # <<>> => pos = served[Len(served)]
    BY <1>1, <2>1 DEF SchedInv
  <2>3. other \in Seq(Tracks) /\ Len(other) = Len(served)
    BY <2>2, ArrangementEffect
  <2>4. /\ WayOver(0, other) \in Nat
        /\ \A k \in 1 .. Len(other) : other[k] <= WayOver(0, other)
    BY <2>3, TracksAreNumbers, WayOverEffect
  <2>5. CASE served = <<>>
    BY <2>2, <2>4, <2>5
  <2>6. CASE served # <<>>
    <3>1. dist = served[Len(served)] /\ Len(served) \in 1 .. Len(served)
      BY <2>2, <2>6
    <3>2. PICK i \in 1 .. Len(served) : other[i] = served[Len(served)]
      BY <2>2, <3>1, ArrangementEffect
    <3>3. QED
      BY <2>2, <2>3, <2>4, <3>1, <3>2
  <2>7. QED
    BY <2>5, <2>6
<1>2. QED
  BY <1>1, SchedInit_Inv, SchedStep_Inv, PTL DEF SchedSpec

===============================================================================
