------------------------------ MODULE Recursion ------------------------------
(***************************************************************************)
(* Induction and recursion over the natural numbers, in the form the       *)
(* proofs of the other modules use: about sets and functions.              *)
(***************************************************************************)
EXTENDS FiniteSetTheorems, TLAPS

\* A set that has 0 and with every number its successor has all of Nat.  If x
\* were missing, what is missing up to x would be mapped by n - 1 one-to-one
\* into what is missing below x, which is less.
LEMMA SetInduction ==
  ASSUME NEW T, 0 \in T, \A n \in Nat : n \in T => n + 1 \in T
  PROVE  Nat \subseteq T
<1> SUFFICES ASSUME NEW x \in Nat, x \notin T PROVE FALSE
  OBVIOUS
<1> DEFINE B == {n \in 0 .. x : n \notin T}
           C == B \ {x}
           pred == [y \in B |-> y - 1]
<1>1. IsFiniteSet(B)
  <2>1. IsFiniteSet(0 .. x)
    BY FS_Interval
  <2>2. B \in SUBSET (0 .. x)
    OBVIOUS
  <2> QED
    BY <2>1, <2>2, FS_Subset
<1>2. pred \in [B -> C]
  <2> SUFFICES ASSUME NEW y \in B PROVE y - 1 \in C
    OBVIOUS
  <2>1. y \in Nat /\ y <= x /\ y # 0
    OBVIOUS
  <2>2. y - 1 \in Nat /\ (y - 1) + 1 = y
    BY <2>1
  <2> QED
    BY <2>1, <2>2
<1>3. x \in B
  OBVIOUS
<1>4. IsFiniteSet(C) /\ Cardinality(C) < Cardinality(B)
  <2> HIDE DEF B
  <2>1. Cardinality(B) \in Nat
    BY <1>1, FS_CardinalityType
  <2>2. IsFiniteSet(C) /\ Cardinality(C) = Cardinality(B) - 1
    BY <1>1, <1>3, FS_RemoveElement
  <2> QED
    BY <2>1, <2>2
<1>5. PICK y, z \in B : y # z /\ pred[y] = pred[z]
  <2> HIDE DEF B, C, pred
  <2> QED
    BY <1>1, <1>2, <1>4, FS_PigeonHole
<1> QED
  BY <1>5

\* Every set of natural numbers that is not empty has a least element, and a
\* greatest one if it is bounded.
LEMMA LeastNumber ==
  ASSUME NEW S \in SUBSET Nat, S # {}
  PROVE  \E x \in S : \A y \in S : x <= y
<1> SUFFICES ASSUME \A x \in S : \E y \in S : ~(x <= y) PROVE FALSE
  OBVIOUS
<1> DEFINE T == {n \in Nat : \A y \in S : n <= y}
<1>1. 0 \in T
  OBVIOUS
<1>2. ASSUME NEW n \in Nat, n \in T PROVE n + 1 \in T
  <2>1. n \notin S
    BY <1>2
  <2>2. ASSUME NEW y \in S PROVE n + 1 <= y
    BY <1>2, <2>1
  <2> QED
    BY <2>2
<1>3. Nat \subseteq T
  <2> HIDE DEF T
  <2> QED
    BY <1>1, <1>2, SetInduction
<1>4. PICK x \in S : TRUE
  OBVIOUS
<1>5. x + 1 \in Nat
  OBVIOUS
<1> QED
  BY <1>3, <1>4, <1>5

LEMMA GreatestNumber ==
  ASSUME NEW n \in Nat, NEW S \in SUBSET (0 .. n), S # {}
  PROVE  \E x \in S : \A y \in S : y <= x
<1> DEFINE D == {k \in Nat : n - k \in S}
<1>1. ASSUME NEW y \in S PROVE y \in Nat /\ n - y \in Nat /\ n - (n - y) = y
  OBVIOUS
<1>2. D # {} /\ D \in SUBSET Nat
  BY <1>1
<1>3. PICK k \in D : \A j \in D : k <= j
  <2> HIDE DEF D
  <2> QED
    BY <1>2, LeastNumber
<1>4. k \in Nat /\ n - k \in S
  OBVIOUS
<1>5. ASSUME NEW y \in S PROVE y <= n - k
  <2>1. n - y \in D
    BY <1>1
  <2>2. k <= n - y
    <3> HIDE DEF D
    <3> QED
      BY <1>3, <2>1
  <2> QED
    BY ONLY <1>1, <1>4, <2>2, n \in Nat, y \in S
<1> QED
  BY ONLY <1>4, <1>5

\* F gives the value at i of the one at i - 1, and g is what this recursion
\* over 0 .. N comes to from a on.
Recurrence(F, N, A) == \A i \in 1 .. N : \A v \in A : F[i][v] \in A
Recurs(g, F, a, N, A) ==
  g \in [0 .. N -> A] /\ g[0] = a /\ \A i \in 1 .. N : g[i] = F[i][g[i - 1]]

\* Every recursion over 0 .. N has a solution.
LEMMA FiniteRecursion ==
  ASSUME NEW N \in Nat, NEW A, NEW a \in A, NEW F, Recurrence(F, N, A)
  PROVE  \E g : Recurs(g, F, a, N, A)
<1> USE DEF Recurrence, Recurs
<1> DEFINE Solves(g, n) == g[0] = a /\ \A i \in 1 .. n : g[i] = F[i][g[i - 1]]
           T == {n \in Nat : n <= N => \E g \in [0 .. n -> A] : Solves(g, n)}
<1>1. 0 \in T
  <2> DEFINE g == [i \in 0 .. 0 |-> a]
  <2>1. g \in [0 .. 0 -> A] /\ g[0] = a
    OBVIOUS
  <2>2. 1 .. 0 = {}
    OBVIOUS
  <2>3. Solves(g, 0)
    <3> HIDE DEF g
    <3> QED
      BY <2>1, <2>2
  <2>4. \E f \in [0 .. 0 -> A] : Solves(f, 0)
    <3> HIDE DEF g, Solves
    <3> QED
      BY <2>1, <2>3
  <2> QED
    BY <2>4
<1>2. ASSUME NEW n \in Nat, n \in T PROVE n + 1 \in T
  <2>1. SUFFICES ASSUME n + 1 <= N
                 PROVE  \E g \in [0 .. n + 1 -> A] : Solves(g, n + 1)
    OBVIOUS
  <2>2. n <= N /\ n + 1 \in Nat
    BY <2>1
  <2>3. PICK g \in [0 .. n -> A] : Solves(g, n)
    BY <1>2, <2>2
  <2> DEFINE b == F[n + 1][g[n]]
             h == [i \in 0 .. n + 1 |-> IF i = n + 1 THEN b ELSE g[i]]
  <2>4. n + 1 \in 1 .. N /\ n \in 0 .. n
    BY <2>1
  <2>5. b \in A
    BY <2>3, <2>4
  <2> HIDE DEF b
  <2>6. ASSUME NEW i \in 0 .. n PROVE i \in 0 .. n + 1 /\ i # n + 1
    OBVIOUS
  <2>7. ASSUME NEW i \in 0 .. n + 1, i # n + 1 PROVE i \in 0 .. n
    BY <2>7
  <2>8. h \in [0 .. n + 1 -> A]
    BY <2>3, <2>5, <2>7
  <2>9. \A i \in 0 .. n : h[i] = g[i]
    BY <2>6
  <2>10. h[n + 1] = b
    BY <2>2
  <2> HIDE DEF h
  <2>11. ASSUME NEW i \in 1 .. n + 1 PROVE h[i] = F[i][h[i - 1]]
    <3>1. CASE i = n + 1
      <4>1. i - 1 = n
        BY <3>1
      <4>2. h[n] = g[n]
        BY <2>4, <2>9
      <4> QED
        BY <2>10, <3>1, <4>1, <4>2 DEF b
    <3>2. CASE i # n + 1
      <4>1. i \in 1 .. n /\ i \in 0 .. n /\ i - 1 \in 0 .. n
        BY <3>2
      <4>2. h[i] = g[i] /\ h[i - 1] = g[i - 1]
        BY <2>9, <4>1
      <4>3. g[i] = F[i][g[i - 1]]
        BY <2>3, <4>1
      <4> QED
        BY ONLY <4>2, <4>3
    <3> QED
      BY <3>1, <3>2
  <2>12. h[0] = a
    <3>1. 0 \in 0 .. n
      OBVIOUS
    <3> QED
      BY <2>3, <2>9, <3>1
  <2>13. Solves(h, n + 1)
    BY <2>11, <2>12
  <2> HIDE DEF Solves
  <2> QED
    BY <2>8, <2>13
<1>3. Nat \subseteq T
  <2> HIDE DEF T
  <2> QED
    BY <1>1, <1>2, SetInduction
<1> QED
  BY <1>3
\* What holds of the first value and is kept by every step holds of all values.
LEMMA RecursionStays ==
  ASSUME NEW N \in Nat, NEW A, NEW v, v[0] \in A, \A i \in 1 .. N : v[i - 1] \in A => v[i] \in A
  PROVE  \A i \in 0 .. N : v[i] \in A
<1> DEFINE T == {n \in Nat : n <= N => v[n] \in A}
<1>1. 0 \in T
  OBVIOUS
<1>2. ASSUME NEW n \in Nat, n \in T PROVE n + 1 \in T
  <2>1. SUFFICES ASSUME n + 1 <= N PROVE v[n + 1] \in A
    OBVIOUS
  <2>2. n + 1 \in 1 .. N /\ n <= N /\ (n + 1) - 1 = n
    BY <2>1
  <2> QED
    BY <1>2, <2>2
<1>3. Nat \subseteq T
  <2> HIDE DEF T
  <2> QED
    BY <1>1, <1>2, SetInduction
<1> QED
  BY <1>3

==============================================================================
