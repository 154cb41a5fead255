--------------------------- MODULE LintFileProofs ---------------------------
(***************************************************************************)
(* Proofs about LintFile, for every set of files.                          *)
(***************************************************************************)
EXTENDS LintFile, Recursion, SequenceTheorems

------------------------------------------------------------------------------
\* Folds.

\* What MapThenFoldSet goes by: g gives the value for every set of positions,
\* and F[i] the one with i from the one without it, when i is the greatest.
Folds(g, F, a, N, A) ==
  /\ g \in [SUBSET (1 .. N) -> A]
  /\ \A s \in SUBSET (1 .. N) : g[s] = IF s = {} THEN a ELSE F[Max(s)][g[s \ {Max(s)}]]

LEMMA MaxIs ==
  ASSUME NEW n \in Nat, NEW s \in SUBSET (1 .. n), NEW x \in s, \A y \in s : y <= x
  PROVE  Max(s) = x
<1>1. s \subseteq Int /\ \A y \in s : x >= y
  OBVIOUS
<1>2. Max(s) \in s /\ \A y \in s : Max(s) >= y
  BY <1>1, Zenon DEF Max
<1>3. x \in Int /\ Max(s) \in Int /\ Max(s) >= x /\ x >= Max(s)
  BY ONLY <1>1, <1>2, x \in s
<1> QED
  BY ONLY <1>3

LEMMA MaxType ==
  ASSUME NEW n \in Nat, NEW s \in SUBSET (1 .. n), s # {}
  PROVE  Max(s) \in s /\ Max(s) \in 1 .. n /\ s \ {Max(s)} \in SUBSET (1 .. n)
<1>1. s \in SUBSET (0 .. n)
  OBVIOUS
<1>2. PICK x \in s : \A y \in s : y <= x
  BY <1>1, GreatestNumber
<1>3. Max(s) = x
  BY <1>2, MaxIs
<1> QED
  BY <1>3

\* Every fold over 1 .. N has a solution.
LEMMA FiniteFold ==
  ASSUME NEW N \in Nat, NEW A, NEW a \in A, NEW F, Recurrence(F, N, A)
  PROVE  \E g : Folds(g, F, a, N, A)
<1> USE DEF Recurrence
<1> DEFINE T == {n \in Nat : n <= N => \E g : Folds(g, F, a, n, A)}
<1>1. 0 \in T
  <2> DEFINE g == [s \in SUBSET (1 .. 0) |-> a]
  <2>1. \A s \in SUBSET (1 .. 0) : s = {}
    OBVIOUS
  <2>2. Folds(g, F, a, 0, A)
    BY <2>1 DEF Folds
  <2> QED
    BY <2>2, Zenon
<1>2. ASSUME NEW n \in Nat, n \in T PROVE n + 1 \in T
  <2>1. SUFFICES ASSUME n + 1 <= N PROVE \E g : Folds(g, F, a, n + 1, A)
    OBVIOUS
  <2>2. n <= N /\ n + 1 \in 1 .. N /\ n + 1 \in Nat
    BY <2>1
  <2>3. PICK g : Folds(g, F, a, n, A)
    BY <1>2, <2>2
  <2> DEFINE h == [s \in SUBSET (1 .. n + 1) |->
                     IF n + 1 \in s THEN F[n + 1][g[s \ {n + 1}]] ELSE g[s]]
  <2>4. ASSUME NEW s \in SUBSET (1 .. n + 1) PROVE s \ {n + 1} \in SUBSET (1 .. n)
    OBVIOUS
  <2>5. ASSUME NEW s \in SUBSET (1 .. n)
        PROVE  s \in SUBSET (1 .. n + 1) /\ n + 1 \notin s
    OBVIOUS
  <2>6. ASSUME NEW s \in SUBSET (1 .. n + 1), n + 1 \notin s PROVE s \in SUBSET (1 .. n)
    BY <2>6
  <2>7. \A s \in SUBSET (1 .. n) : g[s] \in A
    BY <2>3 DEF Folds
  <2>8. ASSUME NEW s \in SUBSET (1 .. n + 1)
        PROVE  h[s] = IF n + 1 \in s THEN F[n + 1][g[s \ {n + 1}]] ELSE g[s]
    OBVIOUS
  <2>9. h = [s \in SUBSET (1 .. n + 1) |-> h[s]]
    OBVIOUS
  <2> HIDE DEF h
  <2>10. ASSUME NEW s \in SUBSET (1 .. n + 1) PROVE h[s] \in A
    BY <2>2, <2>4, <2>6, <2>7, <2>8
  <2>11. \A s \in SUBSET (1 .. n) : h[s] = g[s]
    BY <2>5, <2>8
  <2>12. ASSUME NEW s \in SUBSET (1 .. n + 1)
         PROVE  h[s] = IF s = {} THEN a ELSE F[Max(s)][h[s \ {Max(s)}]]
    <3>1. CASE n + 1 \in s
      <4>1. \A y \in s : y <= n + 1
        OBVIOUS
      <4>2. Max(s) = n + 1
        BY <2>2, <3>1, <4>1, MaxIs
      <4>3. h[s \ {n + 1}] = g[s \ {n + 1}]
        BY <2>4, <2>11
      <4> QED
        BY <2>8, <3>1, <4>2, <4>3
    <3>2. CASE n + 1 \notin s
      <4>1. s \in SUBSET (1 .. n) /\ s \ {Max(s)} \in SUBSET (1 .. n)
        BY <2>6, <3>2
      <4>2. h[s] = g[s] /\ h[s \ {Max(s)}] = g[s \ {Max(s)}]
        BY <2>11, <4>1
      <4>3. g[s] = IF s = {} THEN a ELSE F[Max(s)][g[s \ {Max(s)}]]
        BY <2>3, <4>1 DEF Folds
      <4> QED
        BY <4>2, <4>3
    <3> QED
      BY <3>1, <3>2
  <2>13. h \in [SUBSET (1 .. n + 1) -> A]
    BY <2>9, <2>10
  <2>14. Folds(h, F, a, n + 1, A)
    BY <2>12, <2>13 DEF Folds
  <2> QED
    BY <2>14
<1>3. Nat \subseteq T
  <2> HIDE DEF T
  <2> QED
    BY <1>1, <1>2, SetInduction
<1> QED
  BY <1>3

\* The sets of the first positions, and what holds of the values for all of
\* them: what holds of the first and is kept by every step.
LEMMA FirstPositions ==
  ASSUME NEW N \in Nat, NEW i \in 1 .. N
  PROVE  /\ 1 .. i \in SUBSET (1 .. N) /\ 1 .. i # {} /\ Max(1 .. i) = i
         /\ (1 .. i) \ {i} = 1 .. (i - 1) /\ i - 1 \in 0 .. N
<1>1. i \in Nat /\ 1 .. i \in SUBSET (1 .. i) /\ i \in 1 .. i /\ \A y \in 1 .. i : y <= i
  OBVIOUS
<1>2. Max(1 .. i) = i
  BY <1>1, MaxIs
<1>3. (1 .. i) \ {i} = 1 .. (i - 1)
  OBVIOUS
<1> QED
  BY <1>1, <1>2, <1>3

LEMMA FoldGrows ==
  ASSUME NEW N \in Nat, NEW g, NEW A, g[{}] \in A[0],
         \A i \in 1 .. N : g[1 .. (i - 1)] \in A[i - 1] => g[1 .. i] \in A[i]
  PROVE  g[1 .. N] \in A[N]
<1> DEFINE One == {1}
           v == [i \in 0 .. N |-> IF g[1 .. i] \in A[i] THEN 1 ELSE 0]
<1>1. v[0] \in One
  <2>1. 1 .. 0 = {} /\ 0 \in 0 .. N
    OBVIOUS
  <2> QED
    BY <2>1
<1>2. ASSUME NEW i \in 1 .. N, v[i - 1] \in One PROVE v[i] \in One
  <2>1. i \in 0 .. N /\ i - 1 \in 0 .. N
    OBVIOUS
  <2> QED
    BY <1>2, <2>1
<1>3. N \in 0 .. N /\ (v[N] \in One => g[1 .. N] \in A[N])
  OBVIOUS
<1> HIDE DEF v, One
<1>4. \A i \in 0 .. N : v[i] \in One
  BY <1>1, <1>2, RecursionStays
<1> QED
  BY <1>3, <1>4

LEMMA FoldStays ==
  ASSUME NEW N \in Nat, NEW g, NEW A, g[{}] \in A,
         \A i \in 1 .. N : g[1 .. (i - 1)] \in A => g[1 .. i] \in A
  PROVE  g[1 .. N] \in A
<1> DEFINE B == [i \in 0 .. N |-> A]
<1>1. g[{}] \in B[0] /\ B[N] = A
  OBVIOUS
<1>2. \A i \in 1 .. N : B[i] = A /\ B[i - 1] = A
  OBVIOUS
<1> HIDE DEF B
<1>3. \A i \in 1 .. N : g[1 .. (i - 1)] \in B[i - 1] => g[1 .. i] \in B[i]
  BY <1>2
<1> QED
  BY <1>1, <1>3, FoldGrows

\* Two traces that agree at the start and wherever they agreed before agree at
\* the end.
LEMMA SameTrace ==
  ASSUME NEW N \in Nat, NEW v, NEW w, w[0] = v[0],
         \A i \in 1 .. N : w[i - 1] = v[i - 1] => w[i] = v[i]
  PROVE  w[N] = v[N]
<1> DEFINE Same == {n \in Nat : n <= N => w[n] = v[n]}
<1>1. 0 \in Same
  OBVIOUS
<1>2. ASSUME NEW n \in Nat, n \in Same PROVE n + 1 \in Same
  <2>1. SUFFICES ASSUME n + 1 <= N PROVE w[n + 1] = v[n + 1]
    OBVIOUS
  <2>2. n <= N /\ n + 1 \in 1 .. N /\ (n + 1) - 1 = n
    BY <2>1
  <2> QED
    BY <1>2, <2>2
<1>3. Nat \subseteq Same
  <2> HIDE DEF Same
  <2> QED
    BY <1>1, <1>2, SetInduction
<1> QED
  BY <1>3

------------------------------------------------------------------------------
\* Lines.

\* The parts of a line.
LEMMA WhereType ==
  ASSUME NEW X, NEW line \in Seq(X), NEW t
  PROVE  Where(line, t) \in 0 .. Len(line)
<1> DEFINE I == {i \in 1 .. Len(line) : line[i] = t}
<1>1. Where(line, t) = IF I # {} THEN Min(I) ELSE 0
  BY Zenon DEF Where, SelectInSeq
<1>2. Len(line) \in Nat
  BY LenProperties
<1>3. ASSUME I # {} PROVE Min(I) \in I
  <2>1. I \in SUBSET Nat
    BY <1>2
  <2>2. PICK x \in I : \A y \in I : x <= y
    <3> HIDE DEF I
    <3> QED
      BY <1>3, <2>1, LeastNumber
  <2> HIDE DEF I
  <2> QED
    BY <2>2, Zenon DEF Min
<1> QED
  BY <1>1, <1>2, <1>3

LEMMA PartType ==
  ASSUME NEW X, NEW line \in Seq(X), NEW m \in Nat \ {0}, NEW n \in Int, n <= Len(line)
  PROVE  SubSeq(line, m, n) \in Seq(X)
<1>1. Len(line) \in Nat
  BY LenProperties
<1>2. ASSUME NEW i \in m .. n PROVE line[i] \in X
  <2>1. i \in 1 .. Len(line)
    BY <1>1
  <2> QED
    BY <2>1, ElementOfSeq
<1> QED
  BY <1>2, SubSeqProperties

LEMMA StrippedType ==
  ASSUME NEW X, NEW line \in Seq(X)
  PROVE  Stripped(line) \in Seq(X)
BY HeadTailProperties DEF Stripped

LEMMA CountType ==
  ASSUME NEW X, NEW line \in Seq(X), NEW T
  PROVE  Count(line, T) \in Nat
<1> DEFINE P == {k \in DOMAIN line : line[k] \in T}
<1>1. Len(line) \in Nat /\ P \in SUBSET (1 .. Len(line))
  BY LenProperties
<1>2. IsFiniteSet(1 .. Len(line))
  BY <1>1, FS_Interval
<1>3. Count(line, T) = Cardinality(P)
  BY Zenon DEF Count
<1> HIDE DEF P
<1> QED
  BY <1>1, <1>2, <1>3, FS_Subset, FS_CardinalityType

\* What the passes over a line and the reading of it go by.
RawStates(X) == [inside : BOOLEAN, comment : BOOLEAN, odd : BOOLEAN, out : Seq(X)]
RawStart(inside) == [inside |-> inside, comment |-> FALSE, odd |-> FALSE,
                     out |-> IF inside THEN <<"QQ">> ELSE <<>>]
Holding(X) == [out : Seq(X), held : Seq(X)]
HoldingNone == [out |-> <<>>, held |-> <<>>]
Classes == {"code", "string", "raw", "line", "block"}
LexStates(X) == [in : Classes, read : SUBSET (Classes \X X), code : Seq(X)]
LexStart(from) == [in |-> from, read |-> {}, code |-> IF from = "raw" THEN <<"QQ">> ELSE <<>>]

\* A raw string's line, token by token.
LEMMA RawLineTrace ==
  ASSUME NEW X, "QQ" \in X, NEW line \in Seq(X), NEW inside \in BOOLEAN
  PROVE  \E v : /\ v[0] = RawStart(inside)
                /\ v[Len(line)] = RawLine(inside, line)
                /\ \A i \in 1 .. Len(line) : v[i] = RawToken(v[i - 1], line[i])
                /\ \A i \in 0 .. Len(line) : v[i] \in RawStates(X)
<1> DEFINE base == RawStart(inside)
           A == RawStates(X)
           N == Len(line)
           F == [i \in 1 .. N |-> [v \in A |-> RawToken(v, line[i])]]
           iter[s \in SUBSET (DOMAIN line)] ==
             IF s = {} THEN base ELSE RawToken(iter[s \ {Max(s)}], line[Max(s)])
           v == [i \in 0 .. N |-> iter[1 .. i]]
<1>1. N \in Nat /\ DOMAIN line = 1 .. N /\ \A i \in 1 .. N : line[i] \in X
  BY LenProperties, ElementOfSeq
<1>2. base \in A
  BY DEF RawStart, RawStates
<1>3. ASSUME NEW w \in A, NEW t \in X PROVE RawToken(w, t) \in A
  <2>1. Append(w.out, "QQ") \in Seq(X) /\ Append(w.out, t) \in Seq(X)
    BY AppendProperties DEF RawStates
  <2> QED
    BY <2>1 DEF RawToken, RawStates
<1>4. RawLine(inside, line) = iter[DOMAIN line]
  BY Zenon DEF RawLine, RawStart, FoldLeft, MapThenFoldSet
<1> HIDE DEF base, A, N
<1>5. Recurrence(F, N, A)
  BY <1>1, <1>3 DEF Recurrence
<1>6. PICK g : Folds(g, F, base, N, A)
  <2> HIDE DEF F
  <2> QED
    BY <1>1, <1>2, <1>5, FiniteFold
<1>7. g = [s \in SUBSET (DOMAIN line) |->
             IF s = {} THEN base ELSE RawToken(g[s \ {Max(s)}], line[Max(s)])]
  <2>1. g = [s \in SUBSET (DOMAIN line) |-> g[s]]
    BY <1>1, <1>6 DEF Folds
  <2>2. ASSUME NEW s \in SUBSET (DOMAIN line)
        PROVE  g[s] = IF s = {} THEN base ELSE RawToken(g[s \ {Max(s)}], line[Max(s)])
    <3>1. CASE s = {}
      BY <1>1, <1>6, <3>1 DEF Folds
    <3>2. CASE s # {}
      <4>1. Max(s) \in 1 .. N /\ s \ {Max(s)} \in SUBSET (1 .. N)
        BY <1>1, <3>2, MaxType
      <4>2. g[s] = F[Max(s)][g[s \ {Max(s)}]] /\ g[s \ {Max(s)}] \in A
        BY <1>1, <1>6, <3>2, <4>1 DEF Folds
      <4> QED
        BY <3>2, <4>1, <4>2
    <3> QED
      BY <3>1, <3>2
  <2> QED
    BY <2>1, <2>2, Zenon
<1>8. iter = [s \in SUBSET (DOMAIN line) |->
                IF s = {} THEN base ELSE RawToken(iter[s \ {Max(s)}], line[Max(s)])]
  BY <1>7, Zenon
<1> HIDE DEF iter
<1>9. v[0] = base /\ v[N] = RawLine(inside, line) /\ \A i \in 0 .. N : v[i] = iter[1 .. i]
  <2>1. 1 .. 0 = {} /\ iter[{}] = base /\ 0 \in 0 .. N /\ N \in 0 .. N
    BY <1>1, <1>8
  <2> QED
    BY <1>1, <1>4, <2>1
<1> HIDE DEF v
<1>10. ASSUME NEW i \in 1 .. N PROVE v[i] = RawToken(v[i - 1], line[i])
  <2>1. /\ 1 .. i \in SUBSET (DOMAIN line) /\ 1 .. i # {} /\ Max(1 .. i) = i
        /\ (1 .. i) \ {i} = 1 .. (i - 1) /\ i - 1 \in 0 .. N /\ i \in 0 .. N
    <3>1. /\ 1 .. i \in SUBSET (1 .. N) /\ 1 .. i # {} /\ Max(1 .. i) = i
          /\ (1 .. i) \ {i} = 1 .. (i - 1) /\ i - 1 \in 0 .. N
      BY <1>1, FirstPositions
    <3>2. i \in 0 .. N /\ DOMAIN line = 1 .. N
      BY <1>1
    <3> QED
      BY <3>1, <3>2
  <2>2. iter[1 .. i] = RawToken(iter[1 .. (i - 1)], line[i])
    BY <1>8, <2>1
  <2> QED
    BY <1>9, <2>1, <2>2
<1>11. ASSUME NEW i \in 1 .. N, v[i - 1] \in A PROVE v[i] \in A
  BY <1>1, <1>3, <1>10, <1>11
<1>12. \A i \in 0 .. N : v[i] \in A
  BY <1>1, <1>2, <1>9, <1>11, RecursionStays
<1> QED
  BY <1>9, <1>10, <1>12 DEF base, A, N

\* It grows by a token at a time.
LEMMA RawLineGrows ==
  ASSUME NEW X, "QQ" \in X, NEW line \in Seq(X), NEW inside \in BOOLEAN
  PROVE  /\ RawLine(inside, <<>>) = RawStart(inside) /\ RawLine(inside, line) \in RawStates(X)
         /\ \A t \in X : RawLine(inside, Append(line, t)) = RawToken(RawLine(inside, line), t)
<1>1. Len(line) \in Nat
  BY LenProperties
<1>2. PICK v : /\ v[0] = RawStart(inside) /\ v[Len(line)] = RawLine(inside, line)
               /\ \A i \in 1 .. Len(line) : v[i] = RawToken(v[i - 1], line[i])
               /\ \A i \in 0 .. Len(line) : v[i] \in RawStates(X)
  BY RawLineTrace
<1>3. RawLine(inside, <<>>) = RawStart(inside)
  <2>1. <<>> \in Seq(X) /\ Len(<<>>) = 0
    OBVIOUS
  <2>2. PICK w : w[0] = RawStart(inside) /\ w[Len(<<>>)] = RawLine(inside, <<>>)
    BY <2>1, RawLineTrace
  <2> QED
    BY <2>1, <2>2
<1>4. RawLine(inside, line) \in RawStates(X)
  <2>1. Len(line) \in 0 .. Len(line)
    BY <1>1
  <2> QED
    BY <1>2, <2>1
<1>5. ASSUME NEW t \in X PROVE RawLine(inside, Append(line, t)) = RawToken(RawLine(inside, line), t)
  <2> DEFINE more == Append(line, t)
             N == Len(line)
  <2>1. /\ more \in Seq(X) /\ Len(more) = N + 1 /\ more[N + 1] = t
        /\ \A i \in 1 .. N : more[i] = line[i]
    BY AppendProperties
  <2> HIDE DEF more
  <2>2. PICK w : /\ w[0] = RawStart(inside) /\ w[Len(more)] = RawLine(inside, more)
                 /\ \A i \in 1 .. Len(more) : w[i] = RawToken(w[i - 1], more[i])
                 /\ \A i \in 0 .. Len(more) : w[i] \in RawStates(X)
    BY <2>1, RawLineTrace
  <2>3. ASSUME NEW i \in 1 .. N, w[i - 1] = v[i - 1] PROVE w[i] = v[i]
    <3>1. i \in 1 .. Len(more)
      BY <1>1, <2>1
    <3> QED
      BY <1>2, <2>1, <2>2, <2>3, <3>1
  <2>4. w[N] = v[N]
    BY <1>1, <1>2, <2>2, <2>3, SameTrace
  <2>5. N + 1 \in 1 .. Len(more) /\ (N + 1) - 1 = N
    BY <1>1, <2>1
  <2>6. w[N + 1] = RawToken(w[N], t)
    BY <2>1, <2>2, <2>5
  <2>7. RawLine(inside, more) = RawToken(RawLine(inside, line), t)
    BY <1>2, <2>1, <2>2, <2>4, <2>6
  <2> QED
    BY <2>7 DEF more
<1> QED
  BY <1>3, <1>4, <1>5

\* The comments of a line, token by token.
LEMMA UncommentingTrace ==
  ASSUME NEW X, NEW line \in Seq(X)
  PROVE  \E v : /\ v[0] = HoldingNone
                /\ v[Len(line)] = Uncommenting(line)
                /\ \A i \in 1 .. Len(line) : v[i] = CommentToken(v[i - 1], line[i])
                /\ \A i \in 0 .. Len(line) : v[i] \in Holding(X)
<1> DEFINE base == HoldingNone
           A == Holding(X)
           N == Len(line)
           F == [i \in 1 .. N |-> [v \in A |-> CommentToken(v, line[i])]]
           iter[s \in SUBSET (DOMAIN line)] ==
             IF s = {} THEN base ELSE CommentToken(iter[s \ {Max(s)}], line[Max(s)])
           v == [i \in 0 .. N |-> iter[1 .. i]]
<1>1. N \in Nat /\ DOMAIN line = 1 .. N /\ \A i \in 1 .. N : line[i] \in X
  BY LenProperties, ElementOfSeq
<1>2. base \in A
  BY EmptySeq DEF HoldingNone, Holding
<1>3. ASSUME NEW w \in A, NEW t \in X PROVE CommentToken(w, t) \in A
  <2>1. Append(w.out, t) \in Seq(X) /\ Append(w.held, t) \in Seq(X)
    BY AppendProperties DEF Holding
  <2> QED
    BY <2>1, EmptySeq DEF CommentToken, Holding
<1>4. Uncommenting(line) = iter[DOMAIN line]
  BY Zenon DEF Uncommenting, HoldingNone, FoldLeft, MapThenFoldSet
<1> HIDE DEF base, A, N
<1>5. Recurrence(F, N, A)
  BY <1>1, <1>3 DEF Recurrence
<1>6. PICK g : Folds(g, F, base, N, A)
  <2> HIDE DEF F
  <2> QED
    BY <1>1, <1>2, <1>5, FiniteFold
<1>7. g = [s \in SUBSET (DOMAIN line) |->
             IF s = {} THEN base ELSE CommentToken(g[s \ {Max(s)}], line[Max(s)])]
  <2>1. g = [s \in SUBSET (DOMAIN line) |-> g[s]]
    BY <1>1, <1>6 DEF Folds
  <2>2. ASSUME NEW s \in SUBSET (DOMAIN line)
        PROVE  g[s] = IF s = {} THEN base ELSE CommentToken(g[s \ {Max(s)}], line[Max(s)])
    <3>1. CASE s = {}
      BY <1>1, <1>6, <3>1 DEF Folds
    <3>2. CASE s # {}
      <4>1. Max(s) \in 1 .. N /\ s \ {Max(s)} \in SUBSET (1 .. N)
        BY <1>1, <3>2, MaxType
      <4>2. g[s] = F[Max(s)][g[s \ {Max(s)}]] /\ g[s \ {Max(s)}] \in A
        BY <1>1, <1>6, <3>2, <4>1 DEF Folds
      <4> QED
        BY <3>2, <4>1, <4>2
    <3> QED
      BY <3>1, <3>2
  <2> QED
    BY <2>1, <2>2, Zenon
<1>8. iter = [s \in SUBSET (DOMAIN line) |->
                IF s = {} THEN base ELSE CommentToken(iter[s \ {Max(s)}], line[Max(s)])]
  BY <1>7, Zenon
<1> HIDE DEF iter
<1>9. v[0] = base /\ v[N] = Uncommenting(line) /\ \A i \in 0 .. N : v[i] = iter[1 .. i]
  <2>1. 1 .. 0 = {} /\ iter[{}] = base /\ 0 \in 0 .. N /\ N \in 0 .. N
    BY <1>1, <1>8
  <2> QED
    BY <1>1, <1>4, <2>1
<1> HIDE DEF v
<1>10. ASSUME NEW i \in 1 .. N PROVE v[i] = CommentToken(v[i - 1], line[i])
  <2>1. /\ 1 .. i \in SUBSET (DOMAIN line) /\ 1 .. i # {} /\ Max(1 .. i) = i
        /\ (1 .. i) \ {i} = 1 .. (i - 1) /\ i - 1 \in 0 .. N /\ i \in 0 .. N
    <3>1. /\ 1 .. i \in SUBSET (1 .. N) /\ 1 .. i # {} /\ Max(1 .. i) = i
          /\ (1 .. i) \ {i} = 1 .. (i - 1) /\ i - 1 \in 0 .. N
      BY <1>1, FirstPositions
    <3>2. i \in 0 .. N /\ DOMAIN line = 1 .. N
      BY <1>1
    <3> QED
      BY <3>1, <3>2
  <2>2. iter[1 .. i] = CommentToken(iter[1 .. (i - 1)], line[i])
    BY <1>8, <2>1
  <2> QED
    BY <1>9, <2>1, <2>2
<1>11. ASSUME NEW i \in 1 .. N, v[i - 1] \in A PROVE v[i] \in A
  BY <1>1, <1>3, <1>10, <1>11
<1>12. \A i \in 0 .. N : v[i] \in A
  BY <1>1, <1>2, <1>9, <1>11, RecursionStays
<1> QED
  BY <1>9, <1>10, <1>12 DEF base, A, N

\* It grows by a token at a time.
LEMMA UncommentingGrows ==
  ASSUME NEW X, NEW line \in Seq(X)
  PROVE  /\ Uncommenting(<<>>) = HoldingNone /\ Uncommenting(line) \in Holding(X)
         /\ \A t \in X : Uncommenting(Append(line, t)) = CommentToken(Uncommenting(line), t)
<1>1. Len(line) \in Nat
  BY LenProperties
<1>2. PICK v : /\ v[0] = HoldingNone /\ v[Len(line)] = Uncommenting(line)
               /\ \A i \in 1 .. Len(line) : v[i] = CommentToken(v[i - 1], line[i])
               /\ \A i \in 0 .. Len(line) : v[i] \in Holding(X)
  BY UncommentingTrace
<1>3. Uncommenting(<<>>) = HoldingNone
  <2>1. <<>> \in Seq(X) /\ Len(<<>>) = 0
    OBVIOUS
  <2>2. PICK w : w[0] = HoldingNone /\ w[Len(<<>>)] = Uncommenting(<<>>)
    BY <2>1, UncommentingTrace
  <2> QED
    BY <2>1, <2>2
<1>4. Uncommenting(line) \in Holding(X)
  <2>1. Len(line) \in 0 .. Len(line)
    BY <1>1
  <2> QED
    BY <1>2, <2>1
<1>5. ASSUME NEW t \in X PROVE Uncommenting(Append(line, t)) = CommentToken(Uncommenting(line), t)
  <2> DEFINE more == Append(line, t)
             N == Len(line)
  <2>1. /\ more \in Seq(X) /\ Len(more) = N + 1 /\ more[N + 1] = t
        /\ \A i \in 1 .. N : more[i] = line[i]
    BY AppendProperties
  <2> HIDE DEF more
  <2>2. PICK w : /\ w[0] = HoldingNone /\ w[Len(more)] = Uncommenting(more)
                 /\ \A i \in 1 .. Len(more) : w[i] = CommentToken(w[i - 1], more[i])
                 /\ \A i \in 0 .. Len(more) : w[i] \in Holding(X)
    BY <2>1, UncommentingTrace
  <2>3. ASSUME NEW i \in 1 .. N, w[i - 1] = v[i - 1] PROVE w[i] = v[i]
    <3>1. i \in 1 .. Len(more)
      BY <1>1, <2>1
    <3> QED
      BY <1>2, <2>1, <2>2, <2>3, <3>1
  <2>4. w[N] = v[N]
    BY <1>1, <1>2, <2>2, <2>3, SameTrace
  <2>5. N + 1 \in 1 .. Len(more) /\ (N + 1) - 1 = N
    BY <1>1, <2>1
  <2>6. w[N + 1] = CommentToken(w[N], t)
    BY <2>1, <2>2, <2>5
  <2>7. Uncommenting(more) = CommentToken(Uncommenting(line), t)
    BY <1>2, <2>1, <2>2, <2>4, <2>6
  <2> QED
    BY <2>7 DEF more
<1> QED
  BY <1>3, <1>4, <1>5

\* The strings of a line, token by token.
LEMMA CollapsingTrace ==
  ASSUME NEW X, "QQ" \in X, NEW line \in Seq(X)
  PROVE  \E v : /\ v[0] = HoldingNone
                /\ v[Len(line)] = Collapsing(line)
                /\ \A i \in 1 .. Len(line) : v[i] = StringToken(v[i - 1], line[i])
                /\ \A i \in 0 .. Len(line) : v[i] \in Holding(X)
<1> DEFINE base == HoldingNone
           A == Holding(X)
           N == Len(line)
           F == [i \in 1 .. N |-> [v \in A |-> StringToken(v, line[i])]]
           iter[s \in SUBSET (DOMAIN line)] ==
             IF s = {} THEN base ELSE StringToken(iter[s \ {Max(s)}], line[Max(s)])
           v == [i \in 0 .. N |-> iter[1 .. i]]
<1>1. N \in Nat /\ DOMAIN line = 1 .. N /\ \A i \in 1 .. N : line[i] \in X
  BY LenProperties, ElementOfSeq
<1>2. base \in A
  BY EmptySeq DEF HoldingNone, Holding
<1>3. ASSUME NEW w \in A, NEW t \in X PROVE StringToken(w, t) \in A
  <2>1. /\ Append(w.out, t) \in Seq(X) /\ Append(w.held, t) \in Seq(X)
        /\ Append(w.out, "QQ") \in Seq(X)
    BY AppendProperties DEF Holding
  <2> QED
    BY <2>1, EmptySeq DEF StringToken, Holding
<1>4. Collapsing(line) = iter[DOMAIN line]
  BY Zenon DEF Collapsing, HoldingNone, FoldLeft, MapThenFoldSet
<1> HIDE DEF base, A, N
<1>5. Recurrence(F, N, A)
  BY <1>1, <1>3 DEF Recurrence
<1>6. PICK g : Folds(g, F, base, N, A)
  <2> HIDE DEF F
  <2> QED
    BY <1>1, <1>2, <1>5, FiniteFold
<1>7. g = [s \in SUBSET (DOMAIN line) |->
             IF s = {} THEN base ELSE StringToken(g[s \ {Max(s)}], line[Max(s)])]
  <2>1. g = [s \in SUBSET (DOMAIN line) |-> g[s]]
    BY <1>1, <1>6 DEF Folds
  <2>2. ASSUME NEW s \in SUBSET (DOMAIN line)
        PROVE  g[s] = IF s = {} THEN base ELSE StringToken(g[s \ {Max(s)}], line[Max(s)])
    <3>1. CASE s = {}
      BY <1>1, <1>6, <3>1 DEF Folds
    <3>2. CASE s # {}
      <4>1. Max(s) \in 1 .. N /\ s \ {Max(s)} \in SUBSET (1 .. N)
        BY <1>1, <3>2, MaxType
      <4>2. g[s] = F[Max(s)][g[s \ {Max(s)}]] /\ g[s \ {Max(s)}] \in A
        BY <1>1, <1>6, <3>2, <4>1 DEF Folds
      <4> QED
        BY <3>2, <4>1, <4>2
    <3> QED
      BY <3>1, <3>2
  <2> QED
    BY <2>1, <2>2, Zenon
<1>8. iter = [s \in SUBSET (DOMAIN line) |->
                IF s = {} THEN base ELSE StringToken(iter[s \ {Max(s)}], line[Max(s)])]
  BY <1>7, Zenon
<1> HIDE DEF iter
<1>9. v[0] = base /\ v[N] = Collapsing(line) /\ \A i \in 0 .. N : v[i] = iter[1 .. i]
  <2>1. 1 .. 0 = {} /\ iter[{}] = base /\ 0 \in 0 .. N /\ N \in 0 .. N
    BY <1>1, <1>8
  <2> QED
    BY <1>1, <1>4, <2>1
<1> HIDE DEF v
<1>10. ASSUME NEW i \in 1 .. N PROVE v[i] = StringToken(v[i - 1], line[i])
  <2>1. /\ 1 .. i \in SUBSET (DOMAIN line) /\ 1 .. i # {} /\ Max(1 .. i) = i
        /\ (1 .. i) \ {i} = 1 .. (i - 1) /\ i - 1 \in 0 .. N /\ i \in 0 .. N
    <3>1. /\ 1 .. i \in SUBSET (1 .. N) /\ 1 .. i # {} /\ Max(1 .. i) = i
          /\ (1 .. i) \ {i} = 1 .. (i - 1) /\ i - 1 \in 0 .. N
      BY <1>1, FirstPositions
    <3>2. i \in 0 .. N /\ DOMAIN line = 1 .. N
      BY <1>1
    <3> QED
      BY <3>1, <3>2
  <2>2. iter[1 .. i] = StringToken(iter[1 .. (i - 1)], line[i])
    BY <1>8, <2>1
  <2> QED
    BY <1>9, <2>1, <2>2
<1>11. ASSUME NEW i \in 1 .. N, v[i - 1] \in A PROVE v[i] \in A
  BY <1>1, <1>3, <1>10, <1>11
<1>12. \A i \in 0 .. N : v[i] \in A
  BY <1>1, <1>2, <1>9, <1>11, RecursionStays
<1> QED
  BY <1>9, <1>10, <1>12 DEF base, A, N

\* It grows by a token at a time.
LEMMA CollapsingGrows ==
  ASSUME NEW X, "QQ" \in X, NEW line \in Seq(X)
  PROVE  /\ Collapsing(<<>>) = HoldingNone /\ Collapsing(line) \in Holding(X)
         /\ \A t \in X : Collapsing(Append(line, t)) = StringToken(Collapsing(line), t)
<1>1. Len(line) \in Nat
  BY LenProperties
<1>2. PICK v : /\ v[0] = HoldingNone /\ v[Len(line)] = Collapsing(line)
               /\ \A i \in 1 .. Len(line) : v[i] = StringToken(v[i - 1], line[i])
               /\ \A i \in 0 .. Len(line) : v[i] \in Holding(X)
  BY CollapsingTrace
<1>3. Collapsing(<<>>) = HoldingNone
  <2>1. <<>> \in Seq(X) /\ Len(<<>>) = 0
    OBVIOUS
  <2>2. PICK w : w[0] = HoldingNone /\ w[Len(<<>>)] = Collapsing(<<>>)
    BY <2>1, CollapsingTrace
  <2> QED
    BY <2>1, <2>2
<1>4. Collapsing(line) \in Holding(X)
  <2>1. Len(line) \in 0 .. Len(line)
    BY <1>1
  <2> QED
    BY <1>2, <2>1
<1>5. ASSUME NEW t \in X PROVE Collapsing(Append(line, t)) = StringToken(Collapsing(line), t)
  <2> DEFINE more == Append(line, t)
             N == Len(line)
  <2>1. /\ more \in Seq(X) /\ Len(more) = N + 1 /\ more[N + 1] = t
        /\ \A i \in 1 .. N : more[i] = line[i]
    BY AppendProperties
  <2> HIDE DEF more
  <2>2. PICK w : /\ w[0] = HoldingNone /\ w[Len(more)] = Collapsing(more)
                 /\ \A i \in 1 .. Len(more) : w[i] = StringToken(w[i - 1], more[i])
                 /\ \A i \in 0 .. Len(more) : w[i] \in Holding(X)
    BY <2>1, CollapsingTrace
  <2>3. ASSUME NEW i \in 1 .. N, w[i - 1] = v[i - 1] PROVE w[i] = v[i]
    <3>1. i \in 1 .. Len(more)
      BY <1>1, <2>1
    <3> QED
      BY <1>2, <2>1, <2>2, <2>3, <3>1
  <2>4. w[N] = v[N]
    BY <1>1, <1>2, <2>2, <2>3, SameTrace
  <2>5. N + 1 \in 1 .. Len(more) /\ (N + 1) - 1 = N
    BY <1>1, <2>1
  <2>6. w[N + 1] = StringToken(w[N], t)
    BY <2>1, <2>2, <2>5
  <2>7. Collapsing(more) = StringToken(Collapsing(line), t)
    BY <1>2, <2>1, <2>2, <2>4, <2>6
  <2> QED
    BY <2>7 DEF more
<1> QED
  BY <1>3, <1>4, <1>5

\* A line as C++ has it, token by token.
LEMMA LexTrace ==
  ASSUME NEW X, "QQ" \in X, NEW text \in Seq(X), NEW from \in Classes
  PROVE  \E v : /\ v[0] = LexStart(from)
                /\ v[Len(text)] = Lex(from, text)
                /\ \A i \in 1 .. Len(text) : v[i] = LexToken(v[i - 1], text[i])
                /\ \A i \in 0 .. Len(text) : v[i] \in LexStates(X)
<1> DEFINE base == LexStart(from)
           A == LexStates(X)
           N == Len(text)
           F == [i \in 1 .. N |-> [v \in A |-> LexToken(v, text[i])]]
           iter[s \in SUBSET (DOMAIN text)] ==
             IF s = {} THEN base ELSE LexToken(iter[s \ {Max(s)}], text[Max(s)])
           v == [i \in 0 .. N |-> iter[1 .. i]]
<1>1. N \in Nat /\ DOMAIN text = 1 .. N /\ \A i \in 1 .. N : text[i] \in X
  BY LenProperties, ElementOfSeq
<1>2. base \in A
  BY EmptySeq DEF LexStart, LexStates
<1>3. ASSUME NEW w \in A, NEW t \in X PROVE LexToken(w, t) \in A
  <2>1. Append(w.code, t) \in Seq(X) /\ Append(w.code, "QQ") \in Seq(X)
    BY AppendProperties DEF LexStates
  <2>2. Class(w.in, t) \in Classes
    BY DEF Class, Classes, LexStates
  <2>3. w.read \cup {<<Class(w.in, t), t>>} \in SUBSET (Classes \X X)
    BY <2>2 DEF LexStates
  <2>4. "code" \in Classes
    BY DEF Classes
  <2> DEFINE class == Class(w.in, t)
             code == CASE class = "code" -> Append(w.code, t)
                       [] class \in {"string", "raw"} /\ w.in # class -> Append(w.code, "QQ")
                       [] OTHER -> w.code
  <2>5. code \in Seq(X)
    <3> HIDE DEF class
    <3> QED
      BY <2>1 DEF LexStates
  <2>6. LexToken(w, t) = [in |-> IF w.in = class /\ Closes(w.in, t) THEN "code" ELSE class,
                          read |-> w.read \cup {<<class, t>>}, code |-> code]
    BY Zenon DEF LexToken
  <2> HIDE DEF class, code
  <2>7. class \in Classes /\ w.read \cup {<<class, t>>} \in SUBSET (Classes \X X)
    BY <2>2, <2>3 DEF class
  <2> QED
    BY <2>4, <2>5, <2>6, <2>7 DEF LexStates
<1>4. Lex(from, text) = iter[DOMAIN text]
  BY Zenon DEF Lex, LexStart, FoldLeft, MapThenFoldSet
<1> HIDE DEF base, A, N
<1>5. Recurrence(F, N, A)
  BY <1>1, <1>3 DEF Recurrence
<1>6. PICK g : Folds(g, F, base, N, A)
  <2> HIDE DEF F
  <2> QED
    BY <1>1, <1>2, <1>5, FiniteFold
<1>7. g = [s \in SUBSET (DOMAIN text) |->
             IF s = {} THEN base ELSE LexToken(g[s \ {Max(s)}], text[Max(s)])]
  <2>1. g = [s \in SUBSET (DOMAIN text) |-> g[s]]
    BY <1>1, <1>6 DEF Folds
  <2>2. ASSUME NEW s \in SUBSET (DOMAIN text)
        PROVE  g[s] = IF s = {} THEN base ELSE LexToken(g[s \ {Max(s)}], text[Max(s)])
    <3>1. CASE s = {}
      BY <1>1, <1>6, <3>1 DEF Folds
    <3>2. CASE s # {}
      <4>1. Max(s) \in 1 .. N /\ s \ {Max(s)} \in SUBSET (1 .. N)
        BY <1>1, <3>2, MaxType
      <4>2. g[s] = F[Max(s)][g[s \ {Max(s)}]] /\ g[s \ {Max(s)}] \in A
        BY <1>1, <1>6, <3>2, <4>1 DEF Folds
      <4> QED
        BY <3>2, <4>1, <4>2
    <3> QED
      BY <3>1, <3>2
  <2> QED
    BY <2>1, <2>2, Zenon
<1>8. iter = [s \in SUBSET (DOMAIN text) |->
                IF s = {} THEN base ELSE LexToken(iter[s \ {Max(s)}], text[Max(s)])]
  BY <1>7, Zenon
<1> HIDE DEF iter
<1>9. v[0] = base /\ v[N] = Lex(from, text) /\ \A i \in 0 .. N : v[i] = iter[1 .. i]
  <2>1. 1 .. 0 = {} /\ iter[{}] = base /\ 0 \in 0 .. N /\ N \in 0 .. N
    BY <1>1, <1>8
  <2> QED
    BY <1>1, <1>4, <2>1
<1> HIDE DEF v
<1>10. ASSUME NEW i \in 1 .. N PROVE v[i] = LexToken(v[i - 1], text[i])
  <2>1. /\ 1 .. i \in SUBSET (DOMAIN text) /\ 1 .. i # {} /\ Max(1 .. i) = i
        /\ (1 .. i) \ {i} = 1 .. (i - 1) /\ i - 1 \in 0 .. N /\ i \in 0 .. N
    <3>1. /\ 1 .. i \in SUBSET (1 .. N) /\ 1 .. i # {} /\ Max(1 .. i) = i
          /\ (1 .. i) \ {i} = 1 .. (i - 1) /\ i - 1 \in 0 .. N
      BY <1>1, FirstPositions
    <3>2. i \in 0 .. N /\ DOMAIN text = 1 .. N
      BY <1>1
    <3> QED
      BY <3>1, <3>2
  <2>2. iter[1 .. i] = LexToken(iter[1 .. (i - 1)], text[i])
    BY <1>8, <2>1
  <2> QED
    BY <1>9, <2>1, <2>2
<1>11. ASSUME NEW i \in 1 .. N, v[i - 1] \in A PROVE v[i] \in A
  BY <1>1, <1>3, <1>10, <1>11
<1>12. \A i \in 0 .. N : v[i] \in A
  BY <1>1, <1>2, <1>9, <1>11, RecursionStays
<1> QED
  BY <1>9, <1>10, <1>12 DEF base, A, N

\* It grows by a token at a time.
LEMMA LexGrows ==
  ASSUME NEW X, "QQ" \in X, NEW text \in Seq(X), NEW from \in Classes
  PROVE  /\ Lex(from, <<>>) = LexStart(from) /\ Lex(from, text) \in LexStates(X)
         /\ \A t \in X : Lex(from, Append(text, t)) = LexToken(Lex(from, text), t)
<1>1. Len(text) \in Nat
  BY LenProperties
<1>2. PICK v : /\ v[0] = LexStart(from) /\ v[Len(text)] = Lex(from, text)
               /\ \A i \in 1 .. Len(text) : v[i] = LexToken(v[i - 1], text[i])
               /\ \A i \in 0 .. Len(text) : v[i] \in LexStates(X)
  BY LexTrace
<1>3. Lex(from, <<>>) = LexStart(from)
  <2>1. <<>> \in Seq(X) /\ Len(<<>>) = 0
    OBVIOUS
  <2>2. PICK w : w[0] = LexStart(from) /\ w[Len(<<>>)] = Lex(from, <<>>)
    BY <2>1, LexTrace
  <2> QED
    BY <2>1, <2>2
<1>4. Lex(from, text) \in LexStates(X)
  <2>1. Len(text) \in 0 .. Len(text)
    BY <1>1
  <2> QED
    BY <1>2, <2>1
<1>5. ASSUME NEW t \in X PROVE Lex(from, Append(text, t)) = LexToken(Lex(from, text), t)
  <2> DEFINE more == Append(text, t)
             N == Len(text)
  <2>1. /\ more \in Seq(X) /\ Len(more) = N + 1 /\ more[N + 1] = t
        /\ \A i \in 1 .. N : more[i] = text[i]
    BY AppendProperties
  <2> HIDE DEF more
  <2>2. PICK w : /\ w[0] = LexStart(from) /\ w[Len(more)] = Lex(from, more)
                 /\ \A i \in 1 .. Len(more) : w[i] = LexToken(w[i - 1], more[i])
                 /\ \A i \in 0 .. Len(more) : w[i] \in LexStates(X)
    BY <2>1, LexTrace
  <2>3. ASSUME NEW i \in 1 .. N, w[i - 1] = v[i - 1] PROVE w[i] = v[i]
    <3>1. i \in 1 .. Len(more)
      BY <1>1, <2>1
    <3> QED
      BY <1>2, <2>1, <2>2, <2>3, <3>1
  <2>4. w[N] = v[N]
    BY <1>1, <1>2, <2>2, <2>3, SameTrace
  <2>5. N + 1 \in 1 .. Len(more) /\ (N + 1) - 1 = N
    BY <1>1, <2>1
  <2>6. w[N + 1] = LexToken(w[N], t)
    BY <2>1, <2>2, <2>5
  <2>7. Lex(from, more) = LexToken(Lex(from, text), t)
    BY <1>2, <2>1, <2>2, <2>4, <2>6
  <2> QED
    BY <2>7 DEF more
<1> QED
  BY <1>3, <1>4, <1>5

\* What taking the raw strings out of the lines goes by.
RawScans(X) == [inside : BOOLEAN, out : Seq(Seq(X))]
RawScanStart == [inside |-> FALSE, out |-> <<>>]
RawScan(st, line) ==
  [inside |-> RawLine(st.inside, line).inside, out |-> Append(st.out, RawLine(st.inside, line).out)]

\* The raw strings of the lines, line by line.
LEMMA RawStringsTrace ==
  ASSUME NEW X, "QQ" \in X, NEW texts \in Seq(Seq(X))
  PROVE  \E v : /\ v[0] = RawScanStart
                /\ v[Len(texts)].out = CleanseRawStrings(texts)
                /\ \A i \in 1 .. Len(texts) : v[i] = RawScan(v[i - 1], texts[i])
                /\ \A i \in 0 .. Len(texts) : v[i] \in RawScans(X)
<1> DEFINE base == RawScanStart
           A == RawScans(X)
           N == Len(texts)
           F == [i \in 1 .. N |-> [v \in A |-> RawScan(v, texts[i])]]
           iter[s \in SUBSET (DOMAIN texts)] ==
             IF s = {} THEN base ELSE RawScan(iter[s \ {Max(s)}], texts[Max(s)])
           v == [i \in 0 .. N |-> iter[1 .. i]]
<1>1. N \in Nat /\ DOMAIN texts = 1 .. N /\ \A i \in 1 .. N : texts[i] \in Seq(X)
  BY LenProperties, ElementOfSeq
<1>2. base \in A
  BY EmptySeq DEF RawScanStart, RawScans
<1>3. ASSUME NEW w \in A, NEW t \in Seq(X) PROVE RawScan(w, t) \in A
  <2>1. w.inside \in BOOLEAN
    BY DEF RawScans
  <2>2. RawLine(w.inside, t) \in RawStates(X)
    BY <2>1, RawLineGrows
  <2>3. RawLine(w.inside, t).inside \in BOOLEAN /\ RawLine(w.inside, t).out \in Seq(X)
    BY <2>2 DEF RawStates
  <2>4. Append(w.out, RawLine(w.inside, t).out) \in Seq(Seq(X))
    BY <2>3, AppendProperties DEF RawScans
  <2> QED
    BY <2>3, <2>4 DEF RawScan, RawScans
<1>4. CleanseRawStrings(texts) = iter[DOMAIN texts].out
  BY Zenon DEF CleanseRawStrings, RawScan, RawScanStart, FoldLeft, MapThenFoldSet
<1> HIDE DEF base, A, N
<1>5. Recurrence(F, N, A)
  BY <1>1, <1>3 DEF Recurrence
<1>6. PICK g : Folds(g, F, base, N, A)
  <2> HIDE DEF F
  <2> QED
    BY <1>1, <1>2, <1>5, FiniteFold
<1>7. g = [s \in SUBSET (DOMAIN texts) |->
             IF s = {} THEN base ELSE RawScan(g[s \ {Max(s)}], texts[Max(s)])]
  <2>1. g = [s \in SUBSET (DOMAIN texts) |-> g[s]]
    BY <1>1, <1>6 DEF Folds
  <2>2. ASSUME NEW s \in SUBSET (DOMAIN texts)
        PROVE  g[s] = IF s = {} THEN base ELSE RawScan(g[s \ {Max(s)}], texts[Max(s)])
    <3>1. CASE s = {}
      BY <1>1, <1>6, <3>1 DEF Folds
    <3>2. CASE s # {}
      <4>1. Max(s) \in 1 .. N /\ s \ {Max(s)} \in SUBSET (1 .. N)
        BY <1>1, <3>2, MaxType
      <4>2. g[s] = F[Max(s)][g[s \ {Max(s)}]] /\ g[s \ {Max(s)}] \in A
        BY <1>1, <1>6, <3>2, <4>1 DEF Folds
      <4> QED
        BY <3>2, <4>1, <4>2
    <3> QED
      BY <3>1, <3>2
  <2> QED
    BY <2>1, <2>2, Zenon
<1>8. iter = [s \in SUBSET (DOMAIN texts) |->
                IF s = {} THEN base ELSE RawScan(iter[s \ {Max(s)}], texts[Max(s)])]
  BY <1>7, Zenon
<1> HIDE DEF iter
<1>9. v[0] = base /\ v[N].out = CleanseRawStrings(texts) /\ \A i \in 0 .. N : v[i] = iter[1 .. i]
  <2>1. 1 .. 0 = {} /\ iter[{}] = base /\ 0 \in 0 .. N /\ N \in 0 .. N
    BY <1>1, <1>8
  <2> QED
    BY <1>1, <1>4, <2>1
<1> HIDE DEF v
<1>10. ASSUME NEW i \in 1 .. N PROVE v[i] = RawScan(v[i - 1], texts[i])
  <2>1. /\ 1 .. i \in SUBSET (DOMAIN texts) /\ 1 .. i # {} /\ Max(1 .. i) = i
        /\ (1 .. i) \ {i} = 1 .. (i - 1) /\ i - 1 \in 0 .. N /\ i \in 0 .. N
    <3>1. /\ 1 .. i \in SUBSET (1 .. N) /\ 1 .. i # {} /\ Max(1 .. i) = i
          /\ (1 .. i) \ {i} = 1 .. (i - 1) /\ i - 1 \in 0 .. N
      BY <1>1, FirstPositions
    <3>2. i \in 0 .. N /\ DOMAIN texts = 1 .. N
      BY <1>1
    <3> QED
      BY <3>1, <3>2
  <2>2. iter[1 .. i] = RawScan(iter[1 .. (i - 1)], texts[i])
    BY <1>8, <2>1
  <2> QED
    BY <1>9, <2>1, <2>2
<1>11. ASSUME NEW i \in 1 .. N, v[i - 1] \in A PROVE v[i] \in A
  BY <1>1, <1>3, <1>10, <1>11
<1>12. \A i \in 0 .. N : v[i] \in A
  BY <1>1, <1>2, <1>9, <1>11, RecursionStays
<1> QED
  BY <1>9, <1>10, <1>12 DEF base, A, N

\* Cleansing keeps the number of lines.
LEMMA CleanseRawStringsType ==
  ASSUME NEW X, "QQ" \in X, NEW texts \in Seq(Seq(X))
  PROVE  CleanseRawStrings(texts) \in Seq(Seq(X)) /\ Len(CleanseRawStrings(texts)) = Len(texts)
<1> DEFINE N == Len(texts)
<1>1. N \in Nat
  BY LenProperties
<1>2. PICK v : /\ v[0] = RawScanStart /\ v[N].out = CleanseRawStrings(texts)
               /\ \A i \in 1 .. N : v[i] = RawScan(v[i - 1], texts[i])
               /\ \A i \in 0 .. N : v[i] \in RawScans(X)
  BY RawStringsTrace
<1> DEFINE Good == {i \in Nat : i <= N => Len(v[i].out) = i}
<1>3. 0 \in Good
  <2>1. v[0].out = <<>> /\ Len(<<>>) = 0
    BY <1>2 DEF RawScanStart
  <2> QED
    BY <2>1
<1>4. ASSUME NEW n \in Nat, n \in Good PROVE n + 1 \in Good
  <2>1. SUFFICES ASSUME n + 1 <= N PROVE Len(v[n + 1].out) = n + 1
    OBVIOUS
  <2>2. n + 1 \in 1 .. N /\ (n + 1) - 1 = n /\ n \in 0 .. N /\ n + 1 \in 0 .. N /\ n <= N
    BY <1>1, <2>1
  <2>3. v[n + 1].out = Append(v[n].out, RawLine(v[n].inside, texts[n + 1]).out)
    <3>1. v[n + 1] = RawScan(v[n], texts[n + 1])
      BY <1>2, <2>2
    <3> QED
      BY <3>1 DEF RawScan
  <2>4. v[n].out \in Seq(Seq(X)) /\ v[n].inside \in BOOLEAN /\ texts[n + 1] \in Seq(X)
    BY <1>2, <2>2, ElementOfSeq DEF RawScans
  <2>5. RawLine(v[n].inside, texts[n + 1]).out \in Seq(X)
    <3>1. RawLine(v[n].inside, texts[n + 1]) \in RawStates(X)
      BY <2>4, RawLineGrows
    <3> QED
      BY <3>1 DEF RawStates
  <2>6. Len(v[n + 1].out) = Len(v[n].out) + 1
    BY <2>3, <2>4, <2>5, AppendProperties
  <2> QED
    BY <1>4, <2>2, <2>6
<1>5. Nat \subseteq Good
  <2> HIDE DEF Good
  <2> QED
    BY <1>3, <1>4, SetInduction
<1>6. N \in Good /\ N <= N /\ N \in 0 .. N
  BY <1>1, <1>5
<1>7. v[N].out \in Seq(Seq(X))
  BY <1>2, <1>6 DEF RawScans
<1> QED
  BY <1>2, <1>6, <1>7

\* What is left of a line without its comments, and without its strings.
LEMMA CleanseCommentsType ==
  ASSUME NEW X, NEW line \in Seq(X)
  PROVE  CleanseComments(line) \in Seq(X)
<1> DEFINE text == SingleLine(line)
           st == Uncommenting(text)
<1>1. text \in Seq(X)
  <2> DEFINE p == Where(line, "//")
  <2>1. p \in 0 .. Len(line) /\ Len(line) \in Nat
    BY WhereType, LenProperties
  <2>2. 1 \in Nat \ {0} /\ p - 1 \in Int /\ p - 1 <= Len(line)
    BY <2>1
  <2>3. SubSeq(line, 1, p - 1) \in Seq(X)
    <3> HIDE DEF p
    <3> QED
      BY <2>2, PartType
  <2> QED
    BY <2>3 DEF SingleLine
<1> HIDE DEF text
<1>2. st \in Holding(X)
  BY <1>1, UncommentingGrows
<1>3. CleanseComments(line) = st.out \o st.held
  BY Zenon DEF CleanseComments, text
<1> HIDE DEF st
<1>4. st.out \in Seq(X) /\ st.held \in Seq(X)
  BY <1>2 DEF Holding
<1> QED
  BY <1>3, <1>4, ConcatProperties

LEMMA CollapseStringsType ==
  ASSUME NEW X, "QQ" \in X, NEW line \in Seq(X)
  PROVE  CollapseStrings(line) \in Seq(X)
<1> DEFINE st == Collapsing(line)
<1>1. st \in Holding(X)
  BY CollapsingGrows
<1>2. CollapseStrings(line) = IF Starts(line, "#include") THEN line ELSE st.out \o st.held
  BY DEF CollapseStrings
<1> HIDE DEF st
<1>3. st.out \in Seq(X) /\ st.held \in Seq(X)
  BY <1>1 DEF Holding
<1>4. st.out \o st.held \in Seq(X)
  BY <1>3, ConcatProperties
<1> QED
  BY <1>2, <1>4

LEMMA ElidedType ==
  ASSUME NEW X, "QQ" \in X, NEW texts \in Seq(Seq(X))
  PROVE  Elided(texts) \in Seq(Seq(X)) /\ DOMAIN Elided(texts) = DOMAIN texts
<1> DEFINE raw == CleanseRawStrings(texts)
           N == Len(texts)
<1>1. N \in Nat /\ DOMAIN texts = 1 .. N
  BY LenProperties
<1>2. raw \in [1 .. N -> Seq(X)] /\ DOMAIN raw = 1 .. N
  BY CleanseRawStringsType, LenProperties
<1>3. Elided(texts) = [n \in 1 .. N |-> CleanseComments(CollapseStrings(raw[n]))]
  BY <1>2, Zenon DEF Elided
<1> HIDE DEF raw, N
<1>4. ASSUME NEW n \in 1 .. N PROVE CleanseComments(CollapseStrings(raw[n])) \in Seq(X)
  <2>1. raw[n] \in Seq(X)
    BY <1>2
  <2>2. CollapseStrings(raw[n]) \in Seq(X)
    BY <2>1, CollapseStringsType
  <2> QED
    BY <2>2, CleanseCommentsType
<1>5. [n \in 1 .. N |-> CleanseComments(CollapseStrings(raw[n]))] \in Seq(Seq(X))
  BY <1>1, <1>4
<1> QED
  BY <1>1, <1>3, <1>5

------------------------------------------------------------------------------
\* The nesting.

LEMMA BlockInfoType ==
  ASSUME NEW kind \in {"namespace", "class", "extern", "block"}, NEW n \in Nat, NEW seen \in BOOLEAN
  PROVE  BlockInfo(kind, n, seen) \in Blocks
BY DEF BlockInfo, Blocks

LEMMA StackTop ==
  ASSUME NEW X, NEW stack \in Seq(X), stack # <<>>
  PROVE  /\ Last(stack) \in X /\ Front(stack) \in Seq(X)
         /\ \A b \in X : SetTop(stack, b) \in Seq(X)
<1>1. Len(stack) \in Nat /\ Len(stack) # 0
  BY LenProperties
<1>2. Len(stack) \in 1 .. Len(stack)
  BY <1>1
<1>3. Last(stack) \in X
  BY <1>2, ElementOfSeq DEF Last
<1>4. Front(stack) \in Seq(X)
  <2>1. 1 \in Nat \ {0} /\ Len(stack) - 1 \in Int /\ Len(stack) - 1 <= Len(stack)
    BY <1>1
  <2> QED
    BY <2>1, PartType DEF Front
<1>5. ASSUME NEW b \in X PROVE SetTop(stack, b) \in Seq(X)
  BY <1>2, ExceptSeq DEF SetTop
<1> QED
  BY <1>3, <1>4, <1>5

LEMMA CountParenthesesType ==
  ASSUME NEW X, NEW stack \in Seq(Blocks), NEW line \in Seq(X)
  PROVE  CountParentheses(stack, line) \in Seq(Blocks)
<1>1. CASE stack = <<>>
  BY <1>1 DEF CountParentheses
<1>2. CASE stack # <<>>
  <2> DEFINE top == Last(stack)
             change == Count(line, {"("}) - Count(line, {")"})
             depth == top.open_parentheses + change
             asm == IF top.inline_asm \in {NoAsm, EndAsm}
                    THEN IF change # 0 /\ depth = 1 /\ MatchAsm(line) THEN InsideAsm ELSE NoAsm
                    ELSE IF top.inline_asm = InsideAsm /\ depth = 0 THEN EndAsm ELSE top.inline_asm
             new == [top EXCEPT !.open_parentheses = depth, !.inline_asm = asm]
  <2>1. top \in Blocks
    BY <1>2, StackTop
  <2>2. change \in Int
    BY CountType
  <2> HIDE DEF top, change
  <2>3. depth \in Int /\ asm \in {NoAsm, InsideAsm, EndAsm, BlockAsm}
    BY <2>1, <2>2 DEF Blocks
  <2> HIDE DEF depth, asm
  <2>4. new \in Blocks
    BY <2>1, <2>3 DEF Blocks
  <2>5. CountParentheses(stack, line) = SetTop(stack, new)
    BY <1>2 DEF CountParentheses, top, change, depth, asm
  <2> QED
    BY <1>2, <2>4, <2>5, StackTop
<1> QED
  BY <1>1, <1>2

LEMMA ConsumeNamespacesType ==
  ASSUME NEW X, NEW stack \in Seq(Blocks), NEW line \in Seq(X), NEW n \in Nat
  PROVE  ConsumeNamespaces(stack, line, n) \in [stack : Seq(Blocks), line : Seq(X)]
<1> DEFINE Consume(st, k) ==
             IF ~Starts(st.line, "ns") THEN st
             ELSE [stack |-> Append(st.stack,
                               BlockInfo("namespace", n, Where(Tail(Stripped(st.line)), "{") # 0)),
                   line |-> IF Where(Tail(Stripped(st.line)), "{") # 0
                            THEN SubSeq(Tail(Stripped(st.line)),
                                        Where(Tail(Stripped(st.line)), "{") + 1,
                                        Len(Tail(Stripped(st.line))))
                            ELSE Tail(Stripped(st.line))]
           base == [stack |-> stack, line |-> line]
           A == [stack : Seq(Blocks), line : Seq(X)]
           places == [k \in DOMAIN line |-> k]
           N == Len(line)
           F == [i \in 1 .. N |-> [v \in A |-> Consume(v, places[i])]]
           iter[s \in SUBSET (DOMAIN places)] ==
             IF s = {} THEN base ELSE Consume(iter[s \ {Max(s)}], places[Max(s)])
<1>1. N \in Nat /\ DOMAIN places = 1 .. N /\ \A i \in 1 .. N : places[i] = i
  BY LenProperties
<1>2. base \in A
  OBVIOUS
<1>3. ASSUME NEW v \in A, NEW k PROVE Consume(v, k) \in A
  <2>1. CASE ~Starts(v.line, "ns")
    BY <2>1
  <2>2. CASE Starts(v.line, "ns")
    <3> DEFINE rest == Tail(Stripped(v.line))
               brace == Where(rest, "{")
    <3>1. Stripped(v.line) \in Seq(X) /\ Stripped(v.line) # <<>>
      BY <2>2, StrippedType DEF Starts
    <3>2. rest \in Seq(X)
      BY <3>1, HeadTailProperties
    <3> HIDE DEF rest
    <3>3. brace \in 0 .. Len(rest) /\ Len(rest) \in Nat
      BY <3>2, WhereType, LenProperties
    <3> HIDE DEF brace
    <3>4. brace + 1 \in Nat \ {0} /\ Len(rest) \in Int /\ Len(rest) <= Len(rest)
      BY <3>3
    <3>5. SubSeq(rest, brace + 1, Len(rest)) \in Seq(X)
      BY <3>2, <3>4, PartType
    <3>6. BlockInfo("namespace", n, brace # 0) \in Blocks
      BY BlockInfoType
    <3>7. Append(v.stack, BlockInfo("namespace", n, brace # 0)) \in Seq(Blocks)
      BY <3>6, AppendProperties
    <3>8. Consume(v, k) = [stack |-> Append(v.stack, BlockInfo("namespace", n, brace # 0)),
                           line |-> IF brace # 0 THEN SubSeq(rest, brace + 1, Len(rest)) ELSE rest]
      BY <2>2, Zenon DEF rest, brace
    <3> QED
      BY <3>2, <3>5, <3>7, <3>8
  <2> QED
    BY <2>1, <2>2
<1>4. ConsumeNamespaces(stack, line, n) = iter[DOMAIN places]
  BY Zenon DEF ConsumeNamespaces, FoldLeft, MapThenFoldSet
<1> HIDE DEF Consume, base, A, N, places
<1>5. Recurrence(F, N, A)
  BY <1>1, <1>3 DEF Recurrence
<1>6. PICK g : Folds(g, F, base, N, A)
  <2> HIDE DEF F
  <2> QED
    BY <1>1, <1>2, <1>5, FiniteFold
<1>7. g = [s \in SUBSET (DOMAIN places) |->
             IF s = {} THEN base ELSE Consume(g[s \ {Max(s)}], places[Max(s)])]
  <2>1. g = [s \in SUBSET (DOMAIN places) |-> g[s]]
    BY <1>1, <1>6 DEF Folds
  <2>2. ASSUME NEW s \in SUBSET (DOMAIN places)
        PROVE  g[s] = IF s = {} THEN base ELSE Consume(g[s \ {Max(s)}], places[Max(s)])
    <3>1. CASE s = {}
      BY <1>1, <1>6, <3>1 DEF Folds
    <3>2. CASE s # {}
      <4>1. Max(s) \in 1 .. N /\ s \ {Max(s)} \in SUBSET (1 .. N)
        BY <1>1, <3>2, MaxType
      <4>2. g[s] = F[Max(s)][g[s \ {Max(s)}]] /\ g[s \ {Max(s)}] \in A
        BY <1>1, <1>6, <3>2, <4>1 DEF Folds
      <4> QED
        BY <3>2, <4>1, <4>2
    <3> QED
      BY <3>1, <3>2
  <2> QED
    BY <2>1, <2>2, Zenon
<1>8. iter = [s \in SUBSET (DOMAIN places) |->
                IF s = {} THEN base ELSE Consume(iter[s \ {Max(s)}], places[Max(s)])]
  BY <1>7, Zenon
<1> HIDE DEF iter
<1>9. iter[{}] = base
  BY <1>8
<1>10. ASSUME NEW i \in 1 .. N PROVE iter[1 .. i] = Consume(iter[1 .. (i - 1)], places[i])
  <2>1. /\ 1 .. i \in SUBSET (DOMAIN places) /\ 1 .. i # {} /\ Max(1 .. i) = i
        /\ (1 .. i) \ {i} = 1 .. (i - 1)
    BY <1>1, FirstPositions
  <2> QED
    BY <1>8, <2>1
<1>11. ASSUME NEW i \in 1 .. N, iter[1 .. (i - 1)] \in A PROVE iter[1 .. i] \in A
  BY <1>1, <1>3, <1>10, <1>11
<1>12. iter[1 .. N] \in A
  BY <1>1, <1>2, <1>9, <1>11, FoldStays
<1> QED
  BY <1>1, <1>4, <1>12 DEF A

LEMMA ConsumeClassType ==
  ASSUME NEW X, NEW st \in [stack : Seq(Blocks), line : Seq(X)], NEW n \in Nat, NEW below
  PROVE  ConsumeClass(st, n, below) \in [stack : Seq(Blocks), line : Seq(X)]
<1>1. CASE Starts(st.line, "cls") /\ (st.stack = <<>> \/ Last(st.stack).open_parentheses = 0)
  <2> DEFINE rest == Tail(Stripped(st.line))
             new == IF InTemplateArgumentList(rest, below) THEN st.stack
                    ELSE Append(st.stack, BlockInfo("class", n, FALSE))
  <2>1. Stripped(st.line) \in Seq(X) /\ Stripped(st.line) # <<>>
    BY <1>1, StrippedType DEF Starts
  <2>2. rest \in Seq(X)
    BY <2>1, HeadTailProperties
  <2>3. BlockInfo("class", n, FALSE) \in Blocks
    BY BlockInfoType
  <2>4. new \in Seq(Blocks)
    BY <2>3, AppendProperties
  <2>5. ConsumeClass(st, n, below) = [line |-> rest, stack |-> new]
    BY <1>1, Zenon DEF ConsumeClass
  <2> HIDE DEF rest, new
  <2> QED
    BY <2>2, <2>4, <2>5
<1>2. CASE ~(Starts(st.line, "cls") /\ (st.stack = <<>> \/ Last(st.stack).open_parentheses = 0))
  BY <1>2, Zenon DEF ConsumeClass
<1> QED
  BY <1>1, <1>2

LEMMA ConsumeTokenType ==
  ASSUME NEW stack \in Seq(Blocks), NEW t, NEW n \in Nat, NEW rest
  PROVE  ConsumeToken(stack, t, n, rest) \in Seq(Blocks)
<1> DEFINE asm == IF MatchAsm(rest) THEN BlockAsm ELSE NoAsm
           opened == [BlockInfo("block", n, TRUE) EXCEPT !.inline_asm = asm]
           block == BlockInfo(IF Head(rest) = "extern" THEN "extern" ELSE "block", n, TRUE)
<1>1. CASE t \in {"{", "extern"} /\ ~SeenOpenBrace(stack)
  <2>1. stack # <<>>
    BY <1>1 DEF SeenOpenBrace
  <2>2. Last(stack) \in Blocks /\ \A b \in Blocks : SetTop(stack, b) \in Seq(Blocks)
    BY <2>1, StackTop
  <2>3. [Last(stack) EXCEPT !.seen_open_brace = TRUE] \in Blocks
    BY <2>2 DEF Blocks
  <2>4. ConsumeToken(stack, t, n, rest) = SetTop(stack, [Last(stack) EXCEPT !.seen_open_brace = TRUE])
    BY <1>1 DEF ConsumeToken
  <2> QED
    BY <2>2, <2>3, <2>4
<1>2. CASE t = "extern" /\ SeenOpenBrace(stack)
  <2>1. block \in Blocks
    BY BlockInfoType
  <2>2. ConsumeToken(stack, t, n, rest) = Append(stack, block)
    BY <1>2 DEF ConsumeToken
  <2> HIDE DEF block
  <2> QED
    BY <2>1, <2>2, AppendProperties
<1>3. CASE t = "{" /\ SeenOpenBrace(stack)
  <2>1. BlockInfo("block", n, TRUE) \in Blocks
    BY BlockInfoType
  <2>2. opened \in Blocks
    BY <2>1 DEF Blocks
  <2>3. ConsumeToken(stack, t, n, rest) = Append(stack, opened)
    BY <1>3 DEF ConsumeToken
  <2> HIDE DEF opened
  <2> QED
    BY <2>2, <2>3, AppendProperties
<1>4. CASE t \in {";", ")"} /\ ~SeenOpenBrace(stack)
  <2>1. stack # <<>>
    BY <1>4 DEF SeenOpenBrace
  <2>2. ConsumeToken(stack, t, n, rest) = Front(stack)
    BY <1>4 DEF ConsumeToken
  <2> QED
    BY <2>1, <2>2, StackTop
<1>5. CASE t = "}" /\ stack # <<>>
  <2>1. ConsumeToken(stack, t, n, rest) = Front(stack)
    BY <1>5 DEF ConsumeToken
  <2> QED
    BY <1>5, <2>1, StackTop
<1>6. CASE /\ ~(t \in {"{", "extern"} /\ ~SeenOpenBrace(stack)) /\ ~(t = "extern" /\ SeenOpenBrace(stack))
           /\ ~(t = "{" /\ SeenOpenBrace(stack)) /\ ~(t \in {";", ")"} /\ ~SeenOpenBrace(stack))
           /\ ~(t = "}" /\ stack # <<>>)
  BY <1>6 DEF ConsumeToken
<1> QED
  BY <1>1, <1>2, <1>3, <1>4, <1>5, <1>6

LEMMA ConsumeBracesType ==
  ASSUME NEW X, NEW st \in [stack : Seq(Blocks), line : Seq(X)], NEW n \in Nat
  PROVE  ConsumeBraces(st, n) \in Seq(Blocks)
<1> DEFINE Consume(acc, k) ==
             IF st.line[k] \in {"{", "}", ";", ")", "extern"}
             THEN [from |-> k + 1,
                   stack |-> ConsumeToken(acc.stack, st.line[k], n,
                                          SubSeq(st.line, acc.from, Len(st.line)))]
             ELSE acc
           base == [from |-> 1, stack |-> st.stack]
           A == [from : Nat, stack : Seq(Blocks)]
           places == [k \in DOMAIN st.line |-> k]
           N == Len(st.line)
           F == [i \in 1 .. N |-> [v \in A |-> Consume(v, places[i])]]
           iter[s \in SUBSET (DOMAIN places)] ==
             IF s = {} THEN base ELSE Consume(iter[s \ {Max(s)}], places[Max(s)])
<1>1. N \in Nat /\ DOMAIN places = 1 .. N /\ \A i \in 1 .. N : places[i] \in Nat
  BY LenProperties
<1>2. base \in A
  OBVIOUS
<1>3. ASSUME NEW v \in A, NEW k \in Nat PROVE Consume(v, k) \in A
  <2> DEFINE new == ConsumeToken(v.stack, st.line[k], n, SubSeq(st.line, v.from, Len(st.line)))
  <2>1. new \in Seq(Blocks)
    BY ConsumeTokenType
  <2> HIDE DEF new
  <2>2. [from |-> k + 1, stack |-> new] \in A
    BY <2>1
  <2>3. Consume(v, k) = IF st.line[k] \in {"{", "}", ";", ")", "extern"}
                        THEN [from |-> k + 1, stack |-> new] ELSE v
    BY Zenon DEF new
  <2> HIDE DEF Consume
  <2> QED
    BY <2>2, <2>3
<1>4. ConsumeBraces(st, n) = iter[DOMAIN places].stack
  BY Zenon DEF ConsumeBraces, FoldLeft, MapThenFoldSet
<1> HIDE DEF Consume, base, A, N, places
<1>5. Recurrence(F, N, A)
  BY <1>1, <1>3 DEF Recurrence
<1>6. PICK g : Folds(g, F, base, N, A)
  <2> HIDE DEF F
  <2> QED
    BY <1>1, <1>2, <1>5, FiniteFold
<1>7. g = [s \in SUBSET (DOMAIN places) |->
             IF s = {} THEN base ELSE Consume(g[s \ {Max(s)}], places[Max(s)])]
  <2>1. g = [s \in SUBSET (DOMAIN places) |-> g[s]]
    BY <1>1, <1>6 DEF Folds
  <2>2. ASSUME NEW s \in SUBSET (DOMAIN places)
        PROVE  g[s] = IF s = {} THEN base ELSE Consume(g[s \ {Max(s)}], places[Max(s)])
    <3>1. CASE s = {}
      BY <1>1, <1>6, <3>1 DEF Folds
    <3>2. CASE s # {}
      <4>1. Max(s) \in 1 .. N /\ s \ {Max(s)} \in SUBSET (1 .. N)
        BY <1>1, <3>2, MaxType
      <4>2. g[s] = F[Max(s)][g[s \ {Max(s)}]] /\ g[s \ {Max(s)}] \in A
        BY <1>1, <1>6, <3>2, <4>1 DEF Folds
      <4> QED
        BY <3>2, <4>1, <4>2
    <3> QED
      BY <3>1, <3>2
  <2> QED
    BY <2>1, <2>2, Zenon
<1>8. iter = [s \in SUBSET (DOMAIN places) |->
                IF s = {} THEN base ELSE Consume(iter[s \ {Max(s)}], places[Max(s)])]
  BY <1>7, Zenon
<1> HIDE DEF iter
<1>9. iter[{}] = base
  BY <1>8
<1>10. ASSUME NEW i \in 1 .. N PROVE iter[1 .. i] = Consume(iter[1 .. (i - 1)], places[i])
  <2>1. /\ 1 .. i \in SUBSET (DOMAIN places) /\ 1 .. i # {} /\ Max(1 .. i) = i
        /\ (1 .. i) \ {i} = 1 .. (i - 1)
    BY <1>1, FirstPositions
  <2> QED
    BY <1>8, <2>1
<1>11. ASSUME NEW i \in 1 .. N, iter[1 .. (i - 1)] \in A PROVE iter[1 .. i] \in A
  BY <1>1, <1>3, <1>10, <1>11
<1>12. iter[1 .. N] \in A
  BY <1>1, <1>2, <1>9, <1>11, FoldStays
<1> QED
  BY <1>1, <1>4, <1>12 DEF A

Nestings == [stack : Seq(Blocks), pp_stack : Seq(Conditionals)]

LEMMA UpdatePreprocessorType ==
  ASSUME NEW st \in Nestings, NEW line
  PROVE  UpdatePreprocessor(st, line) \in Nestings
<1> DEFINE pp == Last(st.pp_stack)
           new == IF pp.seen_else THEN pp
                  ELSE [pp EXCEPT !.seen_else = TRUE, !.stack_before_else = st.stack]
<1>0. st.stack \in Seq(Blocks) /\ st.pp_stack \in Seq(Conditionals)
  BY DEF Nestings
<1>1. PreprocessorInfo(st.stack) \in Conditionals
  BY <1>0, EmptySeq DEF PreprocessorInfo, Conditionals
<1>2. Append(st.pp_stack, PreprocessorInfo(st.stack)) \in Seq(Conditionals)
  BY <1>0, <1>1, AppendProperties
<1>3. ASSUME st.pp_stack # <<>>
      PROVE  /\ pp \in Conditionals /\ Front(st.pp_stack) \in Seq(Conditionals)
             /\ SetTop(st.pp_stack, new) \in Seq(Conditionals)
  <2>1. pp \in Conditionals
    BY <1>0, <1>3, StackTop
  <2>2. new \in Conditionals
    <3> HIDE DEF pp
    <3> QED
      BY <1>0, <2>1 DEF Conditionals
  <2> HIDE DEF new
  <2> QED
    BY <1>0, <1>3, <2>1, <2>2, StackTop
<1>4. CASE Starts(line, "#if")
  <2>1. ~Starts(line, "#else") /\ ~Starts(line, "#endif")
    BY <1>4 DEF Starts
  <2>2. UpdatePreprocessor(st, line) = [st EXCEPT !.pp_stack = Append(@, PreprocessorInfo(st.stack))]
    BY <1>4, <2>1 DEF UpdatePreprocessor
  <2> QED
    BY <1>2, <2>2 DEF Nestings
<1>5. CASE ~Starts(line, "#if")
  <2>1. CASE st.pp_stack = <<>>
    BY <1>5, <2>1 DEF UpdatePreprocessor
  <2>2. CASE st.pp_stack # <<>>
    <3>1. \/ UpdatePreprocessor(st, line) = [stack |-> pp.stack_before_if, pp_stack |-> SetTop(st.pp_stack, new)]
          \/ UpdatePreprocessor(st, line) = [stack |-> IF pp.seen_else THEN pp.stack_before_else ELSE st.stack,
                                             pp_stack |-> Front(st.pp_stack)]
          \/ UpdatePreprocessor(st, line) = st
      BY <1>5, <2>2 DEF UpdatePreprocessor
    <3>2. pp.stack_before_if \in Seq(Blocks) /\ pp.stack_before_else \in Seq(Blocks)
      BY <1>3, <2>2 DEF Conditionals
    <3> HIDE DEF pp, new
    <3> QED
      BY <1>0, <1>3, <2>2, <3>1, <3>2 DEF Nestings
  <2> QED
    BY <2>1, <2>2
<1> QED
  BY <1>4, <1>5

LEMMA UpdateStackType ==
  ASSUME NEW X, NEW stack \in Seq(Blocks), NEW text \in Seq(Seq(X)), NEW n \in 1 .. Len(text)
  PROVE  UpdateStack(stack, text, n) \in Seq(Blocks)
<1> DEFINE counted == CountParentheses(stack, text[n])
           spaces == ConsumeNamespaces(counted, text[n], n)
           class == ConsumeClass(spaces, n, SubSeq(text, n + 1, Len(text)))
<1>1. n \in Nat /\ text[n] \in Seq(X)
  BY LenProperties, ElementOfSeq
<1>2. counted \in Seq(Blocks)
  BY <1>1, CountParenthesesType
<1>3. spaces \in [stack : Seq(Blocks), line : Seq(X)]
  <2> HIDE DEF counted
  <2> QED
    BY <1>1, <1>2, ConsumeNamespacesType
<1>4. class \in [stack : Seq(Blocks), line : Seq(X)]
  <2> HIDE DEF spaces
  <2> QED
    BY <1>1, <1>3, ConsumeClassType
<1>5. ConsumeBraces(class, n) \in Seq(Blocks)
  <2> HIDE DEF class
  <2> QED
    BY <1>1, <1>4, ConsumeBracesType
<1> QED
  BY <1>5 DEF UpdateStack

LEMMA UpdateType ==
  ASSUME NEW X, NEW st \in Nestings, NEW text \in Seq(Seq(X)), NEW n \in 1 .. Len(text)
  PROVE  Update(st, text, n) \in Nestings
<1> DEFINE pp == UpdatePreprocessor(st, text[n])
<1>1. pp \in Nestings
  BY UpdatePreprocessorType
<1>2. Update(st, text, n) = [pp EXCEPT !.stack = UpdateStack(pp.stack, text, n)]
  BY DEF Update
<1> HIDE DEF pp
<1>3. UpdateStack(pp.stack, text, n) \in Seq(Blocks)
  BY <1>1, UpdateStackType DEF Nestings
<1> QED
  BY <1>1, <1>2, <1>3 DEF Nestings

------------------------------------------------------------------------------
\* Conditionals.

LEMMA OneDirective ==
  ASSUME NEW line
  PROVE  /\ Starts(line, "#if") => ~Starts(line, "#else") /\ ~Starts(line, "#endif")
         /\ Starts(line, "#else") => ~Starts(line, "#endif")
BY DEF Starts

\* The directives of a kind among some lines, and among those and the next one.
LEMMA DirectivesGrow ==
  ASSUME NEW text, NEW d, NEW i \in Nat, NEW j \in Nat
  PROVE  /\ Directives(text, d, i, j) \in Nat
         /\ j < i => Directives(text, d, i, j) = 0
         /\ i <= j + 1 => Directives(text, d, i, j + 1) =
                            Directives(text, d, i, j) + (IF Starts(text[j + 1], d) THEN 1 ELSE 0)
<1> DEFINE P(k) == Starts(text[k], d)
           S == {k \in i .. j : P(k)}
           T == {k \in i .. j + 1 : P(k)}
<1>1. /\ Directives(text, d, i, j) = Cardinality(S)
      /\ Directives(text, d, i, j + 1) = Cardinality(T)
      /\ P(j + 1) <=> Starts(text[j + 1], d)
  BY DEF Directives
<1> HIDE DEF P
<1>2. IsFiniteSet(S)
  <2>1. IsFiniteSet(i .. j) /\ S \in SUBSET (i .. j)
    BY FS_Interval
  <2> QED
    BY <2>1, FS_Subset
<1>3. Cardinality(S) \in Nat
  BY <1>2, FS_CardinalityType
<1>4. j < i => S = {}
  OBVIOUS
<1>5. ASSUME i <= j + 1 PROVE T = IF P(j + 1) THEN S \cup {j + 1} ELSE S
  <2>1. \A k \in i .. j + 1 : k \in i .. j \/ k = j + 1
    OBVIOUS
  <2>2. j + 1 \in i .. j + 1 /\ i .. j \subseteq i .. j + 1
    BY <1>5
  <2> QED
    BY <2>1, <2>2
<1>6. j + 1 \notin S
  OBVIOUS
<1> HIDE DEF S, T
<1>7. Cardinality(S \cup {j + 1}) = Cardinality(S) + 1
  BY <1>2, <1>6, FS_AddElement
<1>8. j < i => Cardinality(S) = 0
  BY <1>4, FS_EmptySet
<1>9. i <= j + 1 => Cardinality(T) = Cardinality(S) + (IF P(j + 1) THEN 1 ELSE 0)
  <2>1. CASE P(j + 1)
    BY <1>5, <1>7, <2>1
  <2>2. CASE ~P(j + 1)
    BY <1>3, <1>5, <2>2
  <2> QED
    BY <2>1, <2>2
<1> QED
  BY <1>1, <1>3, <1>8, <1>9

LEMMA InsideGrows ==
  ASSUME NEW text, NEW i \in Nat, NEW j \in Nat
  PROVE  /\ Inside(text, i, j) \in Int
         /\ i <= j + 1 => Inside(text, i, j + 1) =
                            Inside(text, i, j) + (IF Starts(text[j + 1], "#if") THEN 1 ELSE 0)
                              - (IF Starts(text[j + 1], "#endif") THEN 1 ELSE 0)
         /\ Starts(text[j + 1], "#if") => Inside(text, j + 1, j + 1) = 1
<1> DEFINE I(k) == Directives(text, "#if", k, j)
           E(k) == Directives(text, "#endif", k, j)
           I1(k) == Directives(text, "#if", k, j + 1)
           E1(k) == Directives(text, "#endif", k, j + 1)
<1>1. ASSUME NEW k \in Nat
      PROVE  /\ I(k) \in Nat /\ E(k) \in Nat /\ (j < k => I(k) = 0 /\ E(k) = 0)
             /\ k <= j + 1 => /\ I1(k) = I(k) + (IF Starts(text[j + 1], "#if") THEN 1 ELSE 0)
                              /\ E1(k) = E(k) + (IF Starts(text[j + 1], "#endif") THEN 1 ELSE 0)
  BY DirectivesGrow
<1>2. \A k : Inside(text, k, j) = I(k) - E(k) /\ Inside(text, k, j + 1) = I1(k) - E1(k)
  BY DEF Inside
<1> HIDE DEF I, E, I1, E1
<1> DEFINE a == IF Starts(text[j + 1], "#if") THEN 1 ELSE 0
           b == IF Starts(text[j + 1], "#endif") THEN 1 ELSE 0
<1>3. /\ Inside(text, i, j) \in Int
      /\ i <= j + 1 => Inside(text, i, j + 1) = Inside(text, i, j) + a - b
  <2>1. a \in Int /\ b \in Int
    OBVIOUS
  <2>2. I(i) \in Nat /\ E(i) \in Nat /\ (i <= j + 1 => I1(i) = I(i) + a /\ E1(i) = E(i) + b)
    BY <1>1
  <2>3. Inside(text, i, j) = I(i) - E(i) /\ Inside(text, i, j + 1) = I1(i) - E1(i)
    BY <1>2
  <2> HIDE DEF a, b
  <2> QED
    BY <2>1, <2>2, <2>3
<1>4. ASSUME Starts(text[j + 1], "#if") PROVE Inside(text, j + 1, j + 1) = 1
  <2>1. j + 1 \in Nat /\ j < j + 1 /\ j + 1 <= j + 1 /\ ~Starts(text[j + 1], "#endif")
    BY <1>4, OneDirective
  <2>2. I1(j + 1) = 1 /\ E1(j + 1) = 0
    BY <1>1, <1>4, <2>1
  <2> QED
    BY <1>2, <2>2
<1> QED
  BY <1>3, <1>4

\* A conditional ends on the first line that closes it.
LEMMA EndOfIs ==
  ASSUME NEW X, NEW text \in Seq(Seq(X)), NEW i \in Ifs(text)
  PROVE  /\ i \in 1 .. Len(text) /\ EndOf(text, i) \in Nat
         /\ i < EndOf(text, i) /\ EndOf(text, i) <= Len(text) + 1
         /\ EndOf(text, i) <= Len(text) => Inside(text, i, EndOf(text, i)) = 0
         /\ \A j \in Nat : i < j /\ j < EndOf(text, i) => Inside(text, i, j) # 0
<1> DEFINE L == Len(text)
           ends == {j \in (i + 1) .. L : Inside(text, i, j) = 0} \cup {L + 1}
           e == EndOf(text, i)
<1>1. L \in Nat /\ i \in 1 .. L
  BY LenProperties DEF Ifs
<1>2. e = CHOOSE j \in ends : \A k \in ends : j <= k
  BY Zenon DEF EndOf
<1>3. ends \in SUBSET Nat /\ ends # {}
  BY <1>1
<1>4. e \in ends /\ \A k \in ends : e <= k
  <2> HIDE DEF ends, e
  <2>1. \E j \in ends : \A k \in ends : j <= k
    BY <1>3, LeastNumber
  <2> QED
    BY <1>2, <2>1, Zenon
<1>5. e \in Nat /\ i < e /\ e <= L + 1 /\ (e <= L => Inside(text, i, e) = 0)
  <2> HIDE DEF e
  <2> QED
    BY <1>1, <1>4
<1>6. ASSUME NEW j \in Nat, i < j, j < e PROVE Inside(text, i, j) # 0
  <2>1. j \notin ends
    <3> HIDE DEF ends, e
    <3> QED
      BY <1>3, <1>4, <1>5, <1>6
  <2>2. j \in (i + 1) .. L
    <3> HIDE DEF e
    <3> QED
      BY <1>1, <1>5, <1>6
  <2> QED
    BY <2>1, <2>2
<1> QED
  BY <1>1, <1>5, <1>6

\* The parts of a conditional are counted up.
LEMMA PartGrows ==
  ASSUME NEW X, NEW text \in Seq(Seq(X)), NEW i \in Ifs(text), NEW k \in Nat, NEW n \in Nat, k <= n
  PROVE  /\ Part(text, i, k) \in Nat /\ Part(text, i, k) <= Part(text, i, n)
         /\ Part(text, i, i) = 0
         /\ Part(text, i, n + 1) = Part(text, i, n) + (IF n + 1 \in Elses(text, i) THEN 1 ELSE 0)
<1> DEFINE P(m) == {j \in Elses(text, i) : j <= m}
           L == Len(text)
<1>1. i \in Nat /\ L \in Nat /\ Elses(text, i) \subseteq (i + 1) .. L
  BY EndOfIs, LenProperties DEF Elses
<1>2. \A m : Part(text, i, m) = Cardinality(P(m))
  BY DEF Part
<1>3. ASSUME NEW m \in Nat PROVE IsFiniteSet(P(m)) /\ Cardinality(P(m)) \in Nat
  <2>1. IsFiniteSet((i + 1) .. L) /\ P(m) \in SUBSET ((i + 1) .. L)
    BY <1>1, FS_Interval
  <2> HIDE DEF P
  <2> QED
    BY <2>1, FS_Subset, FS_CardinalityType
<1>4. Cardinality(P(k)) <= Cardinality(P(n))
  <2>1. P(k) \in SUBSET P(n)
    BY <1>1
  <2> HIDE DEF P
  <2> QED
    BY <1>3, <2>1, FS_Subset
<1>5. P(n + 1) = IF n + 1 \in Elses(text, i) THEN P(n) \cup {n + 1} ELSE P(n)
  BY <1>1
<1>6. n + 1 \notin P(n)
  OBVIOUS
<1>7. P(i) = {}
  BY <1>1
<1> HIDE DEF P
<1>8. Cardinality(P(n) \cup {n + 1}) = Cardinality(P(n)) + 1
  BY <1>3, <1>6, FS_AddElement
<1>9. Cardinality(P(i)) = 0
  BY <1>7, FS_EmptySet
<1>10. Cardinality(P(n + 1)) = Cardinality(P(n)) + (IF n + 1 \in Elses(text, i) THEN 1 ELSE 0)
  <2>1. CASE n + 1 \in Elses(text, i)
    BY <1>5, <1>8, <2>1
  <2>2. CASE n + 1 \notin Elses(text, i)
    BY <1>3, <1>5, <2>2
  <2> QED
    BY <2>1, <2>2
<1>11. Part(text, i, k) \in Nat /\ Part(text, i, k) <= Part(text, i, n) /\ Part(text, i, i) = 0
  BY <1>2, <1>3, <1>4, <1>9
<1>12. Part(text, i, n + 1) = Part(text, i, n) + (IF n + 1 \in Elses(text, i) THEN 1 ELSE 0)
  BY <1>2, <1>10
<1> QED
  BY <1>11, <1>12

------------------------------------------------------------------------------
\* The stack of some lines.

\* What StackOf goes by: the stacks after the lines up to m.
Stacks(s, text, K, m) ==
  /\ s \in [0 .. m -> Seq(Blocks)] /\ s[0] = <<>>
  /\ \A k \in 1 .. m : s[k] = IF k \in K THEN UpdateStack(s[k - 1], text, k) ELSE s[k - 1]

LEMMA StackOfIs ==
  ASSUME NEW X, NEW text \in Seq(Seq(X)), NEW K, NEW m \in 0 .. Len(text)
  PROVE  \E s : Stacks(s, text, K, m) /\ StackOf(text, K, m) = s[m]
<1> DEFINE A == Seq(Blocks)
           F == [k \in 1 .. m |-> [v \in A |-> IF k \in K THEN UpdateStack(v, text, k) ELSE v]]
           Body(f) == [k \in 0 .. m |->
                        IF k = 0 THEN <<>>
                        ELSE IF k \in K THEN UpdateStack(f[k - 1], text, k) ELSE f[k - 1]]
           s == CHOOSE f : f = Body(f)
<1>1. m \in Nat /\ 1 .. m \subseteq 1 .. Len(text) /\ m \in 0 .. m
  BY LenProperties
<1>2. <<>> \in A
  OBVIOUS
<1>3. \A k \in 1 .. m : \A v \in A :
        F[k][v] = (IF k \in K THEN UpdateStack(v, text, k) ELSE v)
  OBVIOUS
<1>4. Recurrence(F, m, A)
  <2>1. ASSUME NEW k \in 1 .. m, NEW v \in A PROVE UpdateStack(v, text, k) \in A
    BY <1>1, UpdateStackType
  <2> HIDE DEF A, F
  <2> QED
    BY <1>3, <2>1 DEF Recurrence
<1>5. PICK g : Recurs(g, F, <<>>, m, A)
  <2> HIDE DEF A, F
  <2> QED
    BY <1>1, <1>2, <1>4, FiniteRecursion
<1>6. Stacks(g, text, K, m)
  <2> HIDE DEF F
  <2>1. ASSUME NEW k \in 1 .. m PROVE k - 1 \in 0 .. m
    OBVIOUS
  <2> QED
    BY <1>3, <1>5, <2>1 DEF Recurs, Stacks
<1>7. g = Body(g)
  <2>1. g = [k \in 0 .. m |-> g[k]]
    BY <1>6 DEF Stacks
  <2>2. ASSUME NEW k \in 0 .. m
        PROVE  g[k] = IF k = 0 THEN <<>>
                      ELSE IF k \in K THEN UpdateStack(g[k - 1], text, k) ELSE g[k - 1]
    BY <1>1, <1>6 DEF Stacks
  <2> QED
    BY <2>1, <2>2
<1>8. s = Body(s)
  <2> HIDE DEF Body
  <2> QED
    BY <1>7, Zenon
<1>9. StackOf(text, K, m) = s[m]
  BY Zenon DEF StackOf
<1> HIDE DEF s
<1>10. Stacks(s, text, K, m)
  <2>1. \A k \in 0 .. m : s[k] = (IF k = 0 THEN <<>>
                      ELSE IF k \in K THEN UpdateStack(s[k - 1], text, k) ELSE s[k - 1])
    BY <1>8
  <2>2. 0 \in 0 .. m /\ 1 .. m \subseteq 0 .. m /\ \A k \in 1 .. m : k # 0 /\ k - 1 \in 0 .. m
    BY <1>1
  <2>3. s[0] = <<>> /\ \A k \in 1 .. m : s[k] = (IF k \in K THEN UpdateStack(s[k - 1], text, k) ELSE s[k - 1])
    BY <2>1, <2>2
  <2>4. s[0] \in A
    BY <1>2, <2>3
  <2>5. ASSUME NEW k \in 1 .. m, s[k - 1] \in A PROVE s[k] \in A
    BY <1>1, <2>3, <2>5, UpdateStackType
  <2>6. \A k \in 0 .. m : s[k] \in A
    <3> HIDE DEF A
    <3> QED
      BY <1>1, <2>4, <2>5, RecursionStays
  <2>7. s = [k \in 0 .. m |-> s[k]]
    <3>1. DOMAIN Body(s) = 0 .. m /\ Body(s) = [k \in 0 .. m |-> Body(s)[k]]
      OBVIOUS
    <3> HIDE DEF Body
    <3> QED
      BY <1>8, <3>1
  <2> QED
    BY <2>3, <2>6, <2>7 DEF Stacks
<1> QED
  BY <1>9, <1>10

Agree(K, L, j) == \A k \in 1 .. j : k \in K <=> k \in L
NoneOf(K, j, a) == \A k \in (j + 1) .. a : k \notin K

\* The stacks are the same as far as the lines that count are.
LEMMA StacksAgree ==
  ASSUME NEW text, NEW K, NEW L, NEW a \in Nat, NEW b \in Nat, NEW j \in Nat, j <= a, j <= b,
         NEW s, Stacks(s, text, K, a), NEW t, Stacks(t, text, L, b),
         Agree(K, L, j)
  PROVE  s[j] = t[j]
<1> DEFINE T == {i \in Nat : i <= j => s[i] = t[i]}
<1>1. 0 \in T
  BY DEF Stacks
<1>2. ASSUME NEW i \in Nat, i \in T PROVE i + 1 \in T
  <2>1. SUFFICES ASSUME i + 1 <= j PROVE s[i + 1] = t[i + 1]
    OBVIOUS
  <2>2. i + 1 \in 1 .. j /\ i + 1 \in 1 .. a /\ i + 1 \in 1 .. b /\ (i + 1) - 1 = i /\ s[i] = t[i]
    BY <1>2, <2>1
  <2> QED
    BY <2>2 DEF Stacks, Agree
<1>3. Nat \subseteq T
  <2> HIDE DEF T
  <2> QED
    BY <1>1, <1>2, SetInduction
<1> QED
  BY <1>3

\* Lines that do not count leave the stack.
LEMMA StacksRest ==
  ASSUME NEW text, NEW K, NEW a \in Nat, NEW j \in Nat, j <= a,
         NEW s, Stacks(s, text, K, a), NoneOf(K, j, a)
  PROVE  s[a] = s[j]
<1> DEFINE T == {i \in Nat : j + i <= a => s[j + i] = s[j]}
<1>1. 0 \in T
  OBVIOUS
<1>2. ASSUME NEW i \in Nat, i \in T PROVE i + 1 \in T
  <2>1. SUFFICES ASSUME j + (i + 1) <= a PROVE s[j + (i + 1)] = s[j]
    OBVIOUS
  <2> DEFINE k == j + (i + 1)
  <2>2. k \in 1 .. a /\ k \in (j + 1) .. a /\ k - 1 = j + i /\ s[j + i] = s[j]
    BY <1>2, <2>1
  <2> HIDE DEF k
  <2>3. s[k] = s[j]
    BY <2>2 DEF Stacks, NoneOf
  <2> QED
    BY <2>3 DEF k
<1>3. Nat \subseteq T
  <2> HIDE DEF T
  <2> QED
    BY <1>1, <1>2, SetInduction
<1>4. a - j \in Nat /\ j + (a - j) = a
  OBVIOUS
<1> QED
  BY <1>3, <1>4

LEMMA StackOfAgrees ==
  ASSUME NEW X, NEW text \in Seq(Seq(X)), NEW K, NEW L,
         NEW a \in 0 .. Len(text), NEW b \in 0 .. Len(text), NEW j \in Nat, j <= a, j <= b,
         Agree(K, L, j), NoneOf(K, j, a), NoneOf(L, j, b)
  PROVE  StackOf(text, K, a) = StackOf(text, L, b)
<1>1. a \in Nat /\ b \in Nat
  BY LenProperties
<1>2. PICK s : Stacks(s, text, K, a) /\ StackOf(text, K, a) = s[a]
  BY StackOfIs
<1>3. PICK t : Stacks(t, text, L, b) /\ StackOf(text, L, b) = t[b]
  BY StackOfIs
<1>4. s[a] = s[j]
  BY <1>1, <1>2, StacksRest
<1>5. t[b] = t[j]
  BY <1>1, <1>3, StacksRest
<1>6. s[j] = t[j]
  BY <1>1, <1>2, <1>3, StacksAgree
<1> QED
  BY <1>2, <1>3, <1>4, <1>5, <1>6

LEMMA StackOfNext ==
  ASSUME NEW X, NEW text \in Seq(Seq(X)), NEW K, NEW n \in 0 .. Len(text) - 1
  PROVE  /\ StackOf(text, K, 0) = <<>>
         /\ StackOf(text, K, n) \in Seq(Blocks)
         /\ StackOf(text, K, n + 1) = IF n + 1 \in K THEN UpdateStack(StackOf(text, K, n), text, n + 1)
                                       ELSE StackOf(text, K, n)
<1>1. /\ n \in Nat /\ n + 1 \in Nat /\ n \in 0 .. Len(text) /\ n + 1 \in 0 .. Len(text)
      /\ 0 \in 0 .. Len(text) /\ (n + 1) - 1 = n /\ n + 1 \in 1 .. n + 1 /\ n \in 0 .. n
  BY LenProperties
<1>2. PICK r : Stacks(r, text, K, 0) /\ StackOf(text, K, 0) = r[0]
  BY <1>1, StackOfIs
<1>3. PICK s : Stacks(s, text, K, n) /\ StackOf(text, K, n) = s[n]
  BY <1>1, StackOfIs
<1>4. PICK t : Stacks(t, text, K, n + 1) /\ StackOf(text, K, n + 1) = t[n + 1]
  BY <1>1, StackOfIs
<1>5. s[n] = t[n]
  <2>1. n <= n /\ n <= n + 1 /\ Agree(K, K, n)
    BY <1>1 DEF Agree
  <2> QED
    BY <1>1, <1>3, <1>4, <2>1, StacksAgree
<1>6. t[n + 1] = IF n + 1 \in K THEN UpdateStack(t[n], text, n + 1) ELSE t[n]
  BY <1>1, <1>4 DEF Stacks
<1>7. StackOf(text, K, 0) = <<>>
  BY <1>2 DEF Stacks
<1>8. StackOf(text, K, n) \in Seq(Blocks)
  BY <1>1, <1>3 DEF Stacks
<1> QED
  BY <1>3, <1>4, <1>5, <1>6, <1>7, <1>8
------------------------------------------------------------------------------
\* The conditionals around a line.

\* What becomes of them with the next line.
LEMMA NextLine ==
  ASSUME NEW X, NEW text \in Seq(Seq(X)), NEW n \in 0 .. Len(text) - 1, NEW i \in Around(text, n)
  PROVE  /\ i \in Ifs(text) /\ i \in 1 .. n /\ n + 1 <= EndOf(text, i) /\ EndOf(text, i) \in Nat
         /\ Inside(text, i, n) \in Int
         /\ Inside(text, i, n + 1) = Inside(text, i, n)
              + (IF Starts(text[n + 1], "#if") THEN 1 ELSE 0)
              - (IF Starts(text[n + 1], "#endif") THEN 1 ELSE 0)
         /\ i \in Around(text, n + 1) <=> Inside(text, i, n + 1) # 0
         /\ Part(text, i, n) \in Nat
         /\ Part(text, i, n + 1) = Part(text, i, n)
              + (IF Starts(text[n + 1], "#else") /\ Inside(text, i, n + 1) = 1 THEN 1 ELSE 0)
<1> DEFINE L == Len(text)
           e == EndOf(text, i)
           In(k) == Inside(text, i, k)
<1>1. n \in Nat /\ L \in Nat /\ n + 1 <= L
  BY LenProperties
<1>2. i \in Ifs(text) /\ i <= n /\ n < e
  BY DEF Around
<1>3. /\ i \in 1 .. L /\ e \in Nat /\ (e <= L => In(e) = 0)
      /\ \A j \in Nat : i < j /\ j < e => In(j) # 0
  BY <1>2, EndOfIs
<1>4. i \in Nat /\ i \in 1 .. n /\ n + 1 <= e /\ i <= n + 1 /\ i < n + 1 /\ n + 1 \in Nat
  BY <1>1, <1>2, <1>3
<1>5. e = n + 1 <=> In(n + 1) = 0
  <2> HIDE DEF e, In
  <2>1. ASSUME e = n + 1 PROVE In(n + 1) = 0
    <3>1. e <= L /\ In(e) = 0
      BY <1>1, <1>3, <2>1
    <3> QED
      BY <2>1, <3>1
  <2>2. ASSUME e # n + 1 PROVE In(n + 1) # 0
    <3>1. n + 1 < e
      BY <1>1, <1>3, <1>4, <2>2
    <3> QED
      BY <1>3, <1>4, <3>1
  <2> QED
    BY <2>1, <2>2
<1>6. i \in Around(text, n + 1) <=> n + 1 # e
  <2>1. i \in Around(text, n + 1) <=> n + 1 < e
    BY <1>2, <1>4 DEF Around
  <2> HIDE DEF e
  <2> QED
    BY <1>1, <1>3, <1>4, <2>1
<1>7. n + 1 \in Elses(text, i) <=> Starts(text[n + 1], "#else") /\ In(n + 1) = 1
  <2>1. In(n + 1) = 1 => n + 1 \in (i + 1) .. (e - 1)
    <3> HIDE DEF e, In
    <3> QED
      BY <1>1, <1>3, <1>4, <1>5
  <2> QED
    BY <2>1 DEF Elses
<1>8. /\ Part(text, i, n) \in Nat
      /\ Part(text, i, n + 1) = Part(text, i, n) + (IF n + 1 \in Elses(text, i) THEN 1 ELSE 0)
  <2>1. n <= n
    BY <1>1
  <2> QED
    BY <1>1, <1>2, <2>1, PartGrows
<1>9. Part(text, i, n + 1) = Part(text, i, n)
        + (IF Starts(text[n + 1], "#else") /\ Inside(text, i, n + 1) = 1 THEN 1 ELSE 0)
  BY <1>7, <1>8
<1>10. /\ Inside(text, i, n) \in Int
       /\ Inside(text, i, n + 1) = Inside(text, i, n)
            + (IF Starts(text[n + 1], "#if") THEN 1 ELSE 0)
            - (IF Starts(text[n + 1], "#endif") THEN 1 ELSE 0)
  BY <1>1, <1>4, InsideGrows
<1>11. i \in Around(text, n + 1) <=> Inside(text, i, n + 1) # 0
  <2> HIDE DEF e
  <2> QED
    BY <1>5, <1>6
<1>12. i \in Ifs(text) /\ i \in 1 .. n /\ n + 1 <= EndOf(text, i) /\ EndOf(text, i) \in Nat
  BY <1>2, <1>3, <1>4
<1>13. Part(text, i, n) \in Nat
  BY <1>8
<1> HIDE DEF L, e, In
<1> QED
  BY ONLY <1>9, <1>10, <1>11, <1>12, <1>13

LEMMA AroundNext ==
  ASSUME NEW X, NEW text \in Seq(Seq(X)), NEW n \in 0 .. Len(text) - 1
  PROVE  /\ \A i \in Around(text, n + 1) :
              i \in Around(text, n) \/ (i = n + 1 /\ Starts(text[n + 1], "#if"))
         /\ Starts(text[n + 1], "#if") =>
              /\ n + 1 \in Around(text, n + 1) /\ n + 1 \in Ifs(text)
              /\ Inside(text, n + 1, n + 1) = 1 /\ Part(text, n + 1, n + 1) = 0
<1>1. n \in Nat /\ n + 1 \in Nat /\ n + 1 \in 1 .. Len(text)
  BY LenProperties
<1>2. ASSUME NEW i \in Around(text, n + 1)
      PROVE  i \in Around(text, n) \/ (i = n + 1 /\ Starts(text[n + 1], "#if"))
  <2>1. i \in Ifs(text) /\ i <= n + 1 /\ n + 1 < EndOf(text, i) /\ Starts(text[i], "#if")
    BY DEF Around, Ifs
  <2>2. i \in Nat /\ EndOf(text, i) \in Nat
    BY <2>1, EndOfIs
  <2>3. CASE i = n + 1
    BY <2>1, <2>3
  <2>4. CASE i # n + 1
    <3>1. i <= n /\ n < EndOf(text, i)
      BY <1>1, <2>1, <2>2, <2>4
    <3> QED
      BY <2>1, <3>1 DEF Around
  <2> QED
    BY <2>3, <2>4
<1>3. ASSUME Starts(text[n + 1], "#if")
      PROVE  /\ n + 1 \in Around(text, n + 1) /\ n + 1 \in Ifs(text)
             /\ Inside(text, n + 1, n + 1) = 1 /\ Part(text, n + 1, n + 1) = 0
  <2>1. n + 1 \in Ifs(text)
    BY <1>1, <1>3, LenProperties DEF Ifs
  <2>2. n + 1 < EndOf(text, n + 1) /\ n + 1 <= n + 1
    BY <1>1, <2>1, EndOfIs
  <2>3. Inside(text, n + 1, n + 1) = 1
    BY <1>1, <1>3, InsideGrows
  <2>4. Part(text, n + 1, n + 1) = 0
    BY <1>1, <2>1, <2>2, PartGrows
  <2> QED
    BY <2>1, <2>2, <2>3, <2>4 DEF Around
<1> QED
  BY <1>2, <1>3

\* The conditionals that are open after line n, from the outermost on.
Nested(text, d, n, open) ==
  /\ open \in [1 .. d -> Around(text, n)] /\ \A i \in Around(text, n) : \E q \in 1 .. d : open[q] = i
  /\ \A q \in 1 .. d :
       /\ Inside(text, open[q], n) = d - q + 1
       /\ \A p \in 1 .. (q - 1) :
            open[p] < open[q] /\ Part(text, open[p], open[q]) = Part(text, open[p], n)

\* The next line is in the same part of a conditional.
SamePart(text, n, i) == i \in Around(text, n + 1) /\ Part(text, i, n + 1) = Part(text, i, n)

LEMMA NestedPlain ==
  ASSUME NEW X, NEW text \in Seq(Seq(X)), NEW n \in 0 .. Len(text) - 1, NEW d \in Nat,
         NEW open, Nested(text, d, n, open), ~Starts(text[n + 1], "#if"),
         d = 0 \/ (~Starts(text[n + 1], "#else") /\ ~Starts(text[n + 1], "#endif"))
  PROVE  /\ \A i \in Around(text, n) : SamePart(text, n, i)
         /\ Nested(text, d, n + 1, open)
<1>1. ASSUME NEW i \in Around(text, n)
      PROVE  SamePart(text, n, i) /\ Inside(text, i, n + 1) = Inside(text, i, n)
  <2>1. PICK q \in 1 .. d : open[q] = i
    BY DEF Nested
  <2>2. Inside(text, i, n) = d - q + 1 /\ d # 0
    BY <2>1 DEF Nested
  <2>3. Inside(text, i, n) \in Int /\ Part(text, i, n) \in Nat
    BY NextLine
  <2>4. Inside(text, i, n + 1) = Inside(text, i, n)
    BY <2>2, <2>3, NextLine
  <2>5. Part(text, i, n + 1) = Part(text, i, n)
    BY <2>2, <2>3, NextLine
  <2>6. Inside(text, i, n + 1) # 0
    BY <2>1, <2>2, <2>4
  <2>7. i \in Around(text, n + 1)
    BY <2>6, NextLine
  <2> QED
    BY <2>4, <2>5, <2>7 DEF SamePart
<1>2. Around(text, n + 1) = Around(text, n)
  BY <1>1, AroundNext DEF SamePart
<1>3. \A q \in 1 .. d : open[q] \in Around(text, n)
  BY DEF Nested
<1>4. Nested(text, d, n + 1, open)
  BY <1>1, <1>2, <1>3 DEF Nested, SamePart
<1> QED
  BY <1>1, <1>4

LEMMA NestedIf ==
  ASSUME NEW X, NEW text \in Seq(Seq(X)), NEW n \in 0 .. Len(text) - 1, NEW d \in Nat,
         NEW open, Nested(text, d, n, open), Starts(text[n + 1], "#if")
  PROVE  /\ \A i \in Around(text, n) : SamePart(text, n, i)
         /\ Nested(text, d + 1, n + 1, [q \in 1 .. d + 1 |-> IF q = d + 1 THEN n + 1 ELSE open[q]])
<1> DEFINE new == [q \in 1 .. d + 1 |-> IF q = d + 1 THEN n + 1 ELSE open[q]]
<1>0. ~Starts(text[n + 1], "#else") /\ ~Starts(text[n + 1], "#endif")
  BY OneDirective
<1>1. ASSUME NEW i \in Around(text, n)
      PROVE  SamePart(text, n, i) /\ Inside(text, i, n + 1) = Inside(text, i, n) + 1 /\ i <= n
  <2>1. PICK q \in 1 .. d : open[q] = i
    BY DEF Nested
  <2>2. Inside(text, i, n) = d - q + 1
    BY <2>1 DEF Nested
  <2>3. Inside(text, i, n) \in Int /\ Part(text, i, n) \in Nat /\ i <= n
    BY NextLine
  <2>4. Inside(text, i, n + 1) = Inside(text, i, n) + 1
    BY <1>0, <2>3, NextLine
  <2>5. Part(text, i, n + 1) = Part(text, i, n)
    BY <1>0, <2>3, NextLine
  <2>6. Inside(text, i, n + 1) # 0
    BY <2>1, <2>2, <2>4
  <2>7. i \in Around(text, n + 1)
    BY <2>6, NextLine
  <2> QED
    BY <2>3, <2>4, <2>5, <2>7 DEF SamePart
<1>2. /\ \A i \in Around(text, n + 1) : i \in Around(text, n) \/ i = n + 1
      /\ n + 1 \in Around(text, n + 1) /\ Inside(text, n + 1, n + 1) = 1
  BY AroundNext
<1>3. \A q \in 1 .. d : open[q] \in Around(text, n) /\ open[q] \in 1 .. n
  BY NextLine DEF Nested
<1>4. /\ d + 1 \in 1 .. d + 1 /\ \A q \in 1 .. d : q \in 1 .. d + 1 /\ q # d + 1
      /\ \A q \in 1 .. d + 1 : q = d + 1 \/ q \in 1 .. d
      /\ \A q \in 1 .. d + 1 : \A p \in 1 .. (q - 1) : p \in 1 .. d
  OBVIOUS
<1>5. new[d + 1] = n + 1 /\ \A q \in 1 .. d : new[q] = open[q]
  BY <1>4
<1>6. new = [q \in 1 .. d + 1 |-> new[q]]
  OBVIOUS
<1> HIDE DEF new
<1>7. \A q \in 1 .. d + 1 : new[q] \in Around(text, n + 1)
  BY <1>1, <1>2, <1>3, <1>4, <1>5 DEF SamePart
<1>8. \A i \in Around(text, n + 1) : \E q \in 1 .. d + 1 : new[q] = i
  <2>1. \A i \in Around(text, n) : \E q \in 1 .. d : open[q] = i
    BY DEF Nested
  <2> QED
    BY <1>2, <1>4, <1>5, <2>1
<1>9. ASSUME NEW q \in 1 .. d + 1
      PROVE  /\ Inside(text, new[q], n + 1) = d + 1 - q + 1
             /\ \A p \in 1 .. (q - 1) :
                  new[p] < new[q] /\ Part(text, new[p], new[q]) = Part(text, new[p], n + 1)
  <2>1. CASE q = d + 1
    <3>1. new[q] = n + 1 /\ Inside(text, n + 1, n + 1) = 1 /\ d + 1 - q + 1 = 1
      BY <1>2, <1>5, <2>1
    <3>2. \A p \in 1 .. (q - 1) : new[p] \in 1 .. n
      BY <1>3, <1>4, <1>5
    <3> QED
      BY <3>1, <3>2
  <2>2. CASE q \in 1 .. d
    <3>1. new[q] = open[q] /\ Inside(text, open[q], n) = d - q + 1
      BY <1>5, <2>2 DEF Nested
    <3>2. Inside(text, open[q], n + 1) = d + 1 - q + 1
      BY <1>1, <1>3, <2>2, <3>1
    <3>3. ASSUME NEW p \in 1 .. (q - 1)
          PROVE  new[p] < new[q] /\ Part(text, new[p], new[q]) = Part(text, new[p], n + 1)
      <4>1. p \in 1 .. d /\ new[p] = open[p]
        BY <1>4, <1>5
      <4>2. open[p] < open[q] /\ Part(text, open[p], open[q]) = Part(text, open[p], n)
        BY <2>2 DEF Nested
      <4>3. Part(text, open[p], n + 1) = Part(text, open[p], n)
        BY <1>1, <1>3, <4>1 DEF SamePart
      <4> QED
        BY <3>1, <4>1, <4>2, <4>3
    <3> QED
      BY <3>1, <3>2, <3>3
  <2> QED
    BY <1>4, <2>1, <2>2
<1>10. new \in [1 .. d + 1 -> Around(text, n + 1)]
  BY <1>6, <1>7
<1>11. Nested(text, d + 1, n + 1, new)
  BY ONLY <1>8, <1>9, <1>10 DEF Nested
<1> QED
  BY <1>1, <1>11 DEF new

LEMMA NestedElse ==
  ASSUME NEW X, NEW text \in Seq(Seq(X)), NEW n \in 0 .. Len(text) - 1, NEW d \in Nat \ {0},
         NEW open, Nested(text, d, n, open), Starts(text[n + 1], "#else")
  PROVE  /\ \A i \in Around(text, n) : i # open[d] => SamePart(text, n, i)
         /\ open[d] \in Around(text, n + 1)
         /\ Part(text, open[d], n + 1) = Part(text, open[d], n) + 1
         /\ Nested(text, d, n + 1, open)
<1>0. ~Starts(text[n + 1], "#if") /\ ~Starts(text[n + 1], "#endif")
  BY OneDirective
<1>1. ASSUME NEW q \in 1 .. d
      PROVE  /\ open[q] \in Around(text, n + 1) /\ open[q] \in Around(text, n)
             /\ Inside(text, open[q], n + 1) = Inside(text, open[q], n)
             /\ Part(text, open[q], n + 1) = Part(text, open[q], n) + (IF q = d THEN 1 ELSE 0)
             /\ Part(text, open[q], n) \in Nat
  <2> DEFINE i == open[q]
  <2>1. i \in Around(text, n) /\ Inside(text, i, n) = d - q + 1
    BY DEF Nested
  <2> HIDE DEF i
  <2>2. Inside(text, i, n) \in Int /\ Part(text, i, n) \in Nat
    BY <2>1, NextLine
  <2>3. Inside(text, i, n + 1) = Inside(text, i, n)
    BY <1>0, <2>1, <2>2, NextLine
  <2>4. Inside(text, i, n + 1) = 1 <=> q = d
    BY <2>1, <2>3
  <2>5. Part(text, i, n + 1) = Part(text, i, n) + (IF q = d THEN 1 ELSE 0)
    BY <2>1, <2>4, NextLine
  <2>6. Inside(text, i, n + 1) # 0
    BY <2>1, <2>3
  <2>7. i \in Around(text, n + 1)
    BY <2>1, <2>6, NextLine
  <2> QED
    BY <2>1, <2>2, <2>3, <2>5, <2>7 DEF i
<1>2. ASSUME NEW i \in Around(text, n), i # open[d] PROVE SamePart(text, n, i)
  <2>1. PICK q \in 1 .. d : open[q] = i
    BY DEF Nested
  <2>2. q # d
    BY <1>2, <2>1
  <2>3. /\ i \in Around(text, n + 1) /\ Part(text, i, n) \in Nat
        /\ Part(text, i, n + 1) = Part(text, i, n) + 0
    BY <1>1, <2>1, <2>2
  <2> QED
    BY <2>3 DEF SamePart
<1>3. Around(text, n + 1) = Around(text, n)
  <2>1. \A i \in Around(text, n) : \E q \in 1 .. d : open[q] = i
    BY DEF Nested
  <2>2. \A i \in Around(text, n) : i \in Around(text, n + 1)
    BY <1>1, <2>1
  <2>3. \A i \in Around(text, n + 1) : i \in Around(text, n)
    BY <1>0, AroundNext
  <2> QED
    BY <2>2, <2>3
<1>4. d \in 1 .. d /\ \A q \in 1 .. d : \A p \in 1 .. (q - 1) : p \in 1 .. d /\ p # d
  OBVIOUS
<1>5. \A q \in 1 .. d : q # d => Part(text, open[q], n + 1) = Part(text, open[q], n)
  BY <1>1
<1>6. Nested(text, d, n + 1, open)
  BY <1>1, <1>3, <1>4, <1>5 DEF Nested
<1> QED
  BY <1>1, <1>2, <1>4, <1>6

\* All but the innermost.
Outer(open, d) == [q \in 1 .. d - 1 |-> open[q]]

LEMMA NestedEndif ==
  ASSUME NEW X, NEW text \in Seq(Seq(X)), NEW n \in 0 .. Len(text) - 1, NEW d \in Nat \ {0},
         NEW open, Nested(text, d, n, open), Starts(text[n + 1], "#endif")
  PROVE  /\ \A i \in Around(text, n) : i # open[d] => SamePart(text, n, i)
         /\ EndOf(text, open[d]) = n + 1
         /\ Nested(text, d - 1, n + 1, Outer(open, d))
<1> DEFINE new == Outer(open, d)
<1>0. ~Starts(text[n + 1], "#if") /\ ~Starts(text[n + 1], "#else")
  BY OneDirective
<1>1. ASSUME NEW q \in 1 .. d
      PROVE  /\ open[q] \in Around(text, n) /\ (open[q] \in Around(text, n + 1) <=> q # d)
             /\ Inside(text, open[q], n + 1) = d - q
             /\ Part(text, open[q], n + 1) = Part(text, open[q], n)
  <2> DEFINE i == open[q]
  <2>1. i \in Around(text, n) /\ Inside(text, i, n) = d - q + 1
    BY DEF Nested
  <2> HIDE DEF i
  <2>2. Inside(text, i, n) \in Int /\ Part(text, i, n) \in Nat
    BY <2>1, NextLine
  <2>3. Inside(text, i, n + 1) = Inside(text, i, n) - 1
    <3>1. Inside(text, i, n + 1) = Inside(text, i, n) + 0 - 1
      BY <1>0, <2>1, NextLine
    <3> QED
      BY <2>2, <3>1
  <2>4. Inside(text, i, n + 1) = d - q
    BY <2>1, <2>3
  <2>5. Part(text, i, n + 1) = Part(text, i, n)
    BY <1>0, <2>1, <2>2, NextLine
  <2>6. i \in Around(text, n + 1) <=> q # d
    <3>1. i \in Around(text, n + 1) <=> Inside(text, i, n + 1) # 0
      BY <2>1, NextLine
    <3> QED
      BY <2>4, <3>1
  <2> QED
    BY <2>1, <2>4, <2>5, <2>6 DEF i
<1>2. ASSUME NEW i \in Around(text, n), i # open[d] PROVE SamePart(text, n, i)
  <2>1. PICK q \in 1 .. d : open[q] = i
    BY DEF Nested
  <2> QED
    BY <1>1, <1>2, <2>1 DEF SamePart
<1>3. EndOf(text, open[d]) = n + 1
  <2>1. open[d] \in Around(text, n) /\ open[d] \notin Around(text, n + 1)
    BY <1>1
  <2>2. /\ open[d] \in Ifs(text) /\ open[d] <= n + 1 /\ n + 1 <= EndOf(text, open[d])
        /\ EndOf(text, open[d]) \in Nat
    BY <2>1, NextLine
  <2>3. ~(n + 1 < EndOf(text, open[d]))
    BY <2>1, <2>2 DEF Around
  <2> QED
    BY <2>2, <2>3
<1>4. /\ \A q \in 1 .. d - 1 : q \in 1 .. d /\ q # d
      /\ \A q \in 1 .. d : q # d => q \in 1 .. d - 1
      /\ \A q \in 1 .. d - 1 : \A p \in 1 .. (q - 1) : p \in 1 .. d - 1
      /\ \A q \in 1 .. d - 1 : d - q = (d - 1) - q + 1
  OBVIOUS
<1>5. \A q \in 1 .. d - 1 : new[q] = open[q]
  BY DEF Outer
<1>6. new = [q \in 1 .. d - 1 |-> new[q]]
  BY DEF Outer
<1> HIDE DEF new
<1>7. \A q \in 1 .. d - 1 : new[q] \in Around(text, n + 1)
  BY <1>1, <1>4, <1>5
<1>8. \A i \in Around(text, n + 1) : \E q \in 1 .. d - 1 : new[q] = i
  <2>1. \A i \in Around(text, n) : \E q \in 1 .. d : open[q] = i
    BY DEF Nested
  <2> QED
    BY <1>0, <1>1, <1>4, <1>5, <2>1, AroundNext
<1>9. ASSUME NEW q \in 1 .. d - 1
      PROVE  /\ Inside(text, new[q], n + 1) = (d - 1) - q + 1
             /\ \A p \in 1 .. (q - 1) :
                  new[p] < new[q] /\ Part(text, new[p], new[q]) = Part(text, new[p], n + 1)
  <2>1. Inside(text, new[q], n + 1) = (d - 1) - q + 1
    BY <1>1, <1>4, <1>5
  <2>2. ASSUME NEW p \in 1 .. (q - 1)
        PROVE  new[p] < new[q] /\ Part(text, new[p], new[q]) = Part(text, new[p], n + 1)
    <3>1. p \in 1 .. d /\ q \in 1 .. d /\ new[p] = open[p] /\ new[q] = open[q]
      BY <1>4, <1>5
    <3>2. open[p] < open[q] /\ Part(text, open[p], open[q]) = Part(text, open[p], n)
      BY <3>1 DEF Nested
    <3> QED
      BY <1>1, <3>1, <3>2
  <2> QED
    BY <2>1, <2>2
<1>10. Nested(text, d - 1, n + 1, new)
  BY <1>6, <1>7, <1>8, <1>9 DEF Nested
<1> QED
  BY <1>2, <1>3, <1>10 DEF new
------------------------------------------------------------------------------
\* The lines that count.

\* The part of a conditional that its lines have to be in to count on line n.
Due(text, c, n, i) == IF i = c \/ EndOf(text, i) <= n THEN 0 ELSE Part(text, i, n)

\* Whether a line counts depends on the conditionals that start before it.
LEMMA CountsSame ==
  ASSUME NEW X, NEW text \in Seq(Seq(X)), NEW a \in Nat, NEW b \in Nat, NEW j \in Nat, j <= a, j <= b, NEW c, NEW e,
         \A i \in Ifs(text) : i <= j => Due(text, c, a, i) = Due(text, e, b, i)
  PROVE  Agree(Counting(text, c, a), Counting(text, e, b), j)
<1>1. ASSUME NEW k \in 1 .. j
      PROVE  k \in Counting(text, c, a) <=> k \in Counting(text, e, b)
  <2>1. k \in 1 .. a /\ k \in 1 .. b
    OBVIOUS
  <2>2. ASSUME NEW i \in Around(text, k) PROVE i \in Ifs(text) /\ i <= j
    <3>1. i \in Ifs(text) /\ i <= k
      BY DEF Around
    <3>2. i \in Nat
      BY <3>1, EndOfIs
    <3> QED
      BY <3>1, <3>2
  <2>3. \A i \in Around(text, k) : Due(text, c, a, i) = Due(text, e, b, i)
    BY <2>2
  <2>4. /\ k \in Counting(text, c, a) <=>
             \A i \in Around(text, k) : Part(text, i, k) = Due(text, c, a, i)
        /\ k \in Counting(text, e, b) <=>
             \A i \in Around(text, k) : Part(text, i, k) = Due(text, e, b, i)
    BY <2>1 DEF Counting, Due
  <2> QED
    BY <2>3, <2>4
<1> QED
  BY <1>1 DEF Agree

\* The next line changes nothing for the lines up to j when the conditionals
\* that start there, c aside, are in the part they were in.
LEMMA CountsSamePart ==
  ASSUME NEW X, NEW text \in Seq(Seq(X)), NEW n \in 0 .. Len(text) - 1, NEW j \in Nat, j <= n, NEW c,
         \A i \in Around(text, n) : i <= j => i = c \/ SamePart(text, n, i)
  PROVE  Agree(Counting(text, c, n + 1), Counting(text, c, n), j)
<1>1. n \in Nat /\ n + 1 \in Nat /\ j <= n + 1
  BY LenProperties
<1>2. ASSUME NEW i \in Ifs(text), i <= j
      PROVE  Due(text, c, n + 1, i) = Due(text, c, n, i)
  <2>1. EndOf(text, i) \in Nat /\ i \in Nat
    BY EndOfIs
  <2>0. CASE i = c
    BY <2>0 DEF Due
  <2>2. CASE EndOf(text, i) <= n
    <3>1. EndOf(text, i) <= n + 1
      BY <1>1, <2>1, <2>2
    <3> QED
      BY <2>2, <3>1 DEF Due
  <2>3. CASE i # c /\ ~(EndOf(text, i) <= n)
    <3>1. i <= n /\ n < EndOf(text, i)
      BY <1>1, <1>2, <2>1, <2>3
    <3>2. i \in Around(text, n)
      BY <3>1 DEF Around
    <3>3. SamePart(text, n, i)
      BY <1>2, <2>3, <3>2
    <3>4. ~(EndOf(text, i) <= n + 1)
      BY <1>1, <2>1, <3>3 DEF SamePart, Around
    <3> QED
      BY <2>3, <3>3, <3>4 DEF Due, SamePart
  <2> QED
    BY <2>0, <2>2, <2>3
<1> QED
  BY <1>1, <1>2, CountsSame

\* After line j none counts when they are all in a part that does not.
LEMMA CountsNone ==
  ASSUME NEW text, NEW c, NEW a, NEW j \in Nat, NEW b \in Nat, NEW i,
         \A k \in (j + 1) .. b : i \in Around(text, k) /\ Part(text, i, k) # Due(text, c, a, i)
  PROVE  NoneOf(Counting(text, c, a), j, b)
<1>1. ASSUME NEW k \in (j + 1) .. b PROVE k \notin Counting(text, c, a)
  BY DEF Counting, Due
<1> QED
  BY <1>1 DEF NoneOf

\* A line counts in a conditional's own first part, and when none is closed.
LEMMA CountsLast ==
  ASSUME NEW X, NEW text \in Seq(Seq(X)), NEW m \in 1 .. Len(text), NEW c
  PROVE  m \in Counting(text, c, m) <=> (c \in Around(text, m) => Part(text, c, m) = 0)
<1>1. m \in 1 .. m /\ m \in Nat
  BY LenProperties
<1>2. ASSUME NEW i \in Around(text, m)
      PROVE  Due(text, c, m, i) = IF i = c THEN 0 ELSE Part(text, i, m)
  <2>1. i \in Ifs(text) /\ m < EndOf(text, i)
    BY DEF Around
  <2>2. EndOf(text, i) \in Nat
    BY <2>1, EndOfIs
  <2>3. ~(EndOf(text, i) <= m)
    BY <1>1, <2>1, <2>2
  <2> QED
    BY <2>3 DEF Due
<1>3. m \in Counting(text, c, m) <=>
        \A i \in Around(text, m) : Part(text, i, m) = Due(text, c, m, i)
  BY <1>1 DEF Counting, Due
<1> QED
  BY <1>2, <1>3

\* The stack, as far as it is the same.
LEMMA StackBefore ==
  ASSUME NEW X, NEW text \in Seq(Seq(X)), NEW n \in 0 .. Len(text) - 1, NEW j \in Nat, j <= n, NEW c,
         \A i \in Around(text, n) : i <= j => i = c \/ SamePart(text, n, i)
  PROVE  StackOf(text, Counting(text, c, n + 1), j) = StackOf(text, Counting(text, c, n), j)
<1>1. j \in 0 .. Len(text) /\ j <= j
  BY LenProperties
<1> DEFINE K == Counting(text, c, n + 1)
           L == Counting(text, c, n)
<1>2. Agree(K, L, j)
  BY CountsSamePart
<1> HIDE DEF K, L
<1>3. NoneOf(K, j, j) /\ NoneOf(L, j, j)
  BY DEF NoneOf
<1>4. StackOf(text, K, j) = StackOf(text, L, j)
  BY <1>1, <1>2, <1>3, StackOfAgrees
<1> QED
  BY <1>4 DEF K, L

\* A line after the first part of a conditional leaves the stack of the first part.
LEMMA LaterPart ==
  ASSUME NEW X, NEW text \in Seq(Seq(X)), NEW n \in 0 .. Len(text) - 1, NEW c,
         c \in Around(text, n + 1), Part(text, c, n + 1) # 0
  PROVE  StackOf(text, Counting(text, c, n + 1), n + 1) = StackOf(text, Counting(text, c, n + 1), n)
<1>1. n + 1 \in 1 .. Len(text)
  BY LenProperties
<1>2. n + 1 \notin Counting(text, c, n + 1)
  BY <1>1, CountsLast
<1> QED
  BY <1>2, StackOfNext

\* And so does all that follows in that part: the next line is in the same part
\* of c, and of what is around the conditional i inside of it.
LEMMA StackOfFirstPart ==
  ASSUME NEW X, NEW text \in Seq(Seq(X)), NEW n \in 0 .. Len(text) - 1,
         NEW c \in Around(text, n), Part(text, c, n) # 0,
         NEW i \in 1 .. n + 1, c < i, Part(text, c, i) = Part(text, c, n),
         \A k \in Around(text, n) : k <= i - 1 => SamePart(text, n, k)
  PROVE  StackOf(text, Counting(text, c, n + 1), n + 1) = StackOf(text, Counting(text, c, n), n)
<1>1. /\ n \in Nat /\ i \in Nat /\ i - 1 \in Nat /\ i - 1 <= n /\ (i - 1) + 1 = i
      /\ n \in 0 .. Len(text)
  BY LenProperties
<1>2. c \in Ifs(text) /\ c \in 1 .. n /\ n + 1 <= EndOf(text, c) /\ EndOf(text, c) \in Nat
  BY NextLine
<1>3. ASSUME NEW k \in i .. n PROVE c \in Around(text, k) /\ Part(text, c, k) # 0
  <2>1. k \in Nat /\ i <= k /\ c <= k /\ k < EndOf(text, c)
    BY <1>1, <1>2
  <2>2. /\ Part(text, c, i) \in Nat /\ Part(text, c, i) <= Part(text, c, k)
        /\ Part(text, c, k) \in Nat
    BY <1>1, <1>2, <2>1, PartGrows
  <2> QED
    BY <1>2, <2>1, <2>2 DEF Around
<1>4. \A a : NoneOf(Counting(text, c, a), i - 1, n)
  <2>1. \A a : Due(text, c, a, c) = 0
    BY DEF Due
  <2> QED
    BY <1>1, <1>3, <2>1, CountsNone
<1>5. Agree(Counting(text, c, n + 1), Counting(text, c, n), i - 1)
  BY <1>1, CountsSamePart
<1>6. StackOf(text, Counting(text, c, n + 1), n) = StackOf(text, Counting(text, c, n), n)
  BY <1>1, <1>4, <1>5, StackOfAgrees
<1>7. c \in Around(text, n + 1) /\ Part(text, c, n + 1) # 0
  <2>1. c <= i - 1
    BY <1>1, <1>2
  <2> QED
    BY <2>1 DEF SamePart
<1> QED
  BY <1>6, <1>7, LaterPart
\* A conditional that is closed, or in its first part, is as good as none.
LEMMA StackClosed ==
  ASSUME NEW X, NEW text \in Seq(Seq(X)), NEW a \in 0 .. Len(text), NEW j \in Nat, j <= a,
         NEW i \in Ifs(text), EndOf(text, i) <= a \/ Part(text, i, a) = 0
  PROVE  StackOf(text, Counting(text, 0, a), j) = StackOf(text, Counting(text, i, a), j)
<1>1. a \in Nat /\ j \in 0 .. Len(text) /\ j <= j
  BY LenProperties
<1>2. ASSUME NEW k \in Ifs(text) PROVE Due(text, 0, a, k) = Due(text, i, a, k)
  <2>1. k # 0
    BY EndOfIs
  <2> QED
    BY <2>1 DEF Due
<1> DEFINE K == Counting(text, 0, a)
           L == Counting(text, i, a)
<1>3. Agree(K, L, j)
  BY <1>1, <1>2, CountsSame
<1> HIDE DEF K, L
<1>4. NoneOf(K, j, j) /\ NoneOf(L, j, j)
  BY DEF NoneOf
<1>5. StackOf(text, K, j) = StackOf(text, L, j)
  BY <1>1, <1>3, <1>4, StackOfAgrees
<1> QED
  BY <1>5 DEF K, L

------------------------------------------------------------------------------
\* pp_stack.

\* What it holds of conditional i.
Entry(text, p, n, i) ==
  /\ p.stack_before_if = StackOf(text, Counting(text, 0, n), i - 1)
  /\ p.seen_else = (Part(text, i, n) > 0)
  /\ p.seen_else => p.stack_before_else = StackOf(text, Counting(text, i, n), n)

\* An entry stays right when the next line is in the same part of all that start
\* before i, and so is whatever follows in the part of c.
LEMMA EntryStays ==
  ASSUME NEW X, NEW text \in Seq(Seq(X)), NEW n \in 0 .. Len(text) - 1,
         NEW c \in Around(text, n), NEW i \in 1 .. n + 1, c < i,
         Part(text, c, i) = Part(text, c, n),
         \A k \in Around(text, n) : k <= i - 1 => SamePart(text, n, k),
         NEW p, Entry(text, p, n, c)
  PROVE  Entry(text, p, n + 1, c)
<1>1. /\ c \in 1 .. n /\ c \in Nat /\ c - 1 \in Nat /\ c - 1 <= n /\ c <= i - 1
      /\ Part(text, c, n) \in Nat
  <2>1. c \in 1 .. n /\ Part(text, c, n) \in Nat
    BY NextLine
  <2> QED
    BY <2>1
<1>2. \A k \in Around(text, n) : k <= c - 1 => SamePart(text, n, k)
  <2>1. ASSUME NEW k \in Around(text, n), k <= c - 1 PROVE k <= i - 1
    <3>1. k \in 1 .. n
      BY NextLine
    <3> QED
      BY <1>1, <2>1, <3>1
  <2> QED
    BY <2>1
<1>3. StackOf(text, Counting(text, 0, n + 1), c - 1) = StackOf(text, Counting(text, 0, n), c - 1)
  BY <1>1, <1>2, StackBefore
<1>4. Part(text, c, n + 1) = Part(text, c, n)
  BY <1>1 DEF SamePart
<1>5. ASSUME p.seen_else
      PROVE  p.stack_before_else = StackOf(text, Counting(text, c, n + 1), n + 1)
  <2>1. /\ Part(text, c, n) # 0
        /\ p.stack_before_else = StackOf(text, Counting(text, c, n), n)
    <3>1. Part(text, c, n) > 0 /\ p.stack_before_else = StackOf(text, Counting(text, c, n), n)
      BY <1>5, Zenon DEF Entry
    <3> QED
      BY <1>1, <3>1
  <2>2. StackOf(text, Counting(text, c, n + 1), n + 1) = StackOf(text, Counting(text, c, n), n)
    BY <2>1, StackOfFirstPart
  <2> QED
    BY <2>1, <2>2
<1> QED
  BY <1>3, <1>4, <1>5 DEF Entry

\* The entries are those of the conditionals that are open, and the stack is
\* that of the lines that count.
Stored(text, pp, n, open) == \A q \in 1 .. Len(pp) : Entry(text, pp[q], n, open[q])

LEMMA RestorableIs ==
  ASSUME NEW S, NEW pp \in Seq(S), NEW text, NEW n
  PROVE  Restorable(text, pp, n) <=>
           \E open : Nested(text, Len(pp), n, open) /\ Stored(text, pp, n, open)
<1>1. DOMAIN pp = 1 .. Len(pp)
  BY LenProperties
<1>2. ASSUME NEW open \in [1 .. Len(pp) -> Around(text, n)]
      PROVE  /\ DOMAIN open = 1 .. Len(pp)
             /\ Range(open) = Around(text, n) <=>
                  \A i \in Around(text, n) : \E q \in 1 .. Len(pp) : open[q] = i
  <2>1. \A q \in 1 .. Len(pp) : open[q] \in Around(text, n)
    OBVIOUS
  <2> QED
    BY <2>1 DEF Range
<1>3. ASSUME Restorable(text, pp, n)
      PROVE  \E open : Nested(text, Len(pp), n, open) /\ Stored(text, pp, n, open)
  <2>1. PICK open \in [1 .. Len(pp) -> Around(text, n)] :
          /\ Range(open) = Around(text, n)
          /\ \A q \in 1 .. Len(pp) :
               /\ Inside(text, open[q], n) = Len(pp) - q + 1
               /\ \A p \in 1 .. (q - 1) :
                    open[p] < open[q] /\ Part(text, open[p], open[q]) = Part(text, open[p], n)
               /\ Entry(text, pp[q], n, open[q])
    BY <1>1, <1>2, <1>3 DEF Restorable, Entry
  <2>2. Nested(text, Len(pp), n, open)
    BY <1>2, <2>1 DEF Nested
  <2>3. Stored(text, pp, n, open)
    BY <2>1 DEF Stored
  <2> QED
    BY <2>2, <2>3
<1>4. ASSUME NEW open, Nested(text, Len(pp), n, open), Stored(text, pp, n, open)
      PROVE  Restorable(text, pp, n)
  <2>1. open \in [1 .. Len(pp) -> Around(text, n)] /\ DOMAIN open = 1 .. Len(pp)
    BY <1>4 DEF Nested
  <2>2. Range(open) = Around(text, n)
    BY <1>2, <1>4, <2>1 DEF Nested
  <2>3. ASSUME NEW q \in 1 .. Len(pp)
        PROVE  /\ Inside(text, open[q], n) = Len(pp) - q + 1
               /\ \A p \in 1 .. (q - 1) :
                    open[p] < open[q] /\ Part(text, open[p], open[q]) = Part(text, open[p], n)
               /\ Entry(text, pp[q], n, open[q])
    BY <1>4 DEF Nested, Stored
  <2> QED
    BY <1>1, <2>1, <2>2, <2>3 DEF Restorable, Entry
<1> QED
  BY <1>3, <1>4

\* What UpdatePreprocessor is given, and what it leaves.
Nest(text, st, n, open) ==
  /\ Nested(text, Len(st.pp_stack), n, open) /\ Stored(text, st.pp_stack, n, open)
  /\ st.stack = StackOf(text, Counting(text, 0, n), n)
Left(text, u, n, open) ==
  /\ Nested(text, Len(u.pp_stack), n + 1, open) /\ Stored(text, u.pp_stack, n + 1, open)
  /\ u.stack = StackOf(text, Counting(text, 0, n + 1), n)

\* The stack and the entries when every conditional stays in its part.
LEMMA AllStay ==
  ASSUME NEW X, NEW text \in Seq(Seq(X)), NEW n \in 0 .. Len(text) - 1, NEW st \in Nestings,
         NEW open, Nest(text, st, n, open),
         \A i \in Around(text, n) : SamePart(text, n, i)
  PROVE  /\ st.stack = StackOf(text, Counting(text, 0, n + 1), n)
         /\ \A q \in 1 .. Len(st.pp_stack) : Entry(text, st.pp_stack[q], n + 1, open[q])
<1>1. n \in Nat /\ n <= n /\ n + 1 \in 1 .. n + 1 /\ (n + 1) - 1 = n
  BY LenProperties
<1>2. StackOf(text, Counting(text, 0, n + 1), n) = StackOf(text, Counting(text, 0, n), n)
  BY <1>1, StackBefore
<1>3. ASSUME NEW q \in 1 .. Len(st.pp_stack)
      PROVE  Entry(text, st.pp_stack[q], n + 1, open[q])
  <2> DEFINE c == open[q]
             p == st.pp_stack[q]
  <2>1. c \in Around(text, n) /\ Entry(text, p, n, c)
    BY DEF Nest, Nested, Stored
  <2> HIDE DEF c, p
  <2>2. c \in 1 .. n
    BY <2>1, NextLine
  <2>3. c < n + 1 /\ Part(text, c, n + 1) = Part(text, c, n)
    BY <1>1, <2>1, <2>2 DEF SamePart
  <2>4. Entry(text, p, n + 1, c)
    BY <1>1, <2>1, <2>3, EntryStays
  <2> QED
    BY <2>4 DEF c, p
<1> QED
  BY <1>2, <1>3 DEF Nest

\* UpdatePreprocessor, one directive at a time.
LEMMA Preprocessed ==
  ASSUME NEW st \in Nestings, NEW line
  PROVE  /\ Starts(line, "#if") =>
              UpdatePreprocessor(st, line) =
                [stack |-> st.stack, pp_stack |-> Append(st.pp_stack, PreprocessorInfo(st.stack))]
         /\ Starts(line, "#else") /\ st.pp_stack # <<>> =>
              UpdatePreprocessor(st, line) =
                [stack |-> Last(st.pp_stack).stack_before_if,
                 pp_stack |-> SetTop(st.pp_stack,
                                IF Last(st.pp_stack).seen_else THEN Last(st.pp_stack)
                                ELSE [Last(st.pp_stack) EXCEPT !.seen_else = TRUE,
                                                               !.stack_before_else = st.stack])]
         /\ Starts(line, "#endif") /\ st.pp_stack # <<>> =>
              UpdatePreprocessor(st, line) =
                [stack |-> IF Last(st.pp_stack).seen_else
                           THEN Last(st.pp_stack).stack_before_else ELSE st.stack,
                 pp_stack |-> Front(st.pp_stack)]
         /\ ~Starts(line, "#if") /\ (st.pp_stack = <<>> \/ (~Starts(line, "#else") /\ ~Starts(line, "#endif"))) =>
              UpdatePreprocessor(st, line) = st
<1> DEFINE pp == Last(st.pp_stack)
           new == IF pp.seen_else THEN pp
                  ELSE [pp EXCEPT !.seen_else = TRUE, !.stack_before_else = st.stack]
<1>0. /\ Starts(line, "#if") => ~Starts(line, "#else") /\ ~Starts(line, "#endif")
      /\ Starts(line, "#else") => ~Starts(line, "#endif")
  BY OneDirective
<1>1. ASSUME Starts(line, "#if")
      PROVE  UpdatePreprocessor(st, line) =
                [stack |-> st.stack, pp_stack |-> Append(st.pp_stack, PreprocessorInfo(st.stack))]
  <2>1. UpdatePreprocessor(st, line) = [st EXCEPT !.pp_stack = Append(@, PreprocessorInfo(st.stack))]
    BY <1>0, <1>1 DEF UpdatePreprocessor
  <2> QED
    BY <2>1 DEF Nestings
<1>2. ASSUME Starts(line, "#else"), st.pp_stack # <<>>
      PROVE  UpdatePreprocessor(st, line) =
               [stack |-> pp.stack_before_if, pp_stack |-> SetTop(st.pp_stack, new)]
  BY <1>0, <1>2 DEF UpdatePreprocessor
<1>3. ASSUME Starts(line, "#endif"), st.pp_stack # <<>>
      PROVE  UpdatePreprocessor(st, line) =
               [stack |-> IF pp.seen_else THEN pp.stack_before_else ELSE st.stack,
                pp_stack |-> Front(st.pp_stack)]
  BY <1>0, <1>3 DEF UpdatePreprocessor
<1>4. ASSUME ~Starts(line, "#if"), st.pp_stack = <<>> \/ (~Starts(line, "#else") /\ ~Starts(line, "#endif"))
      PROVE  UpdatePreprocessor(st, line) = st
  BY <1>4 DEF UpdatePreprocessor
<1> QED
  BY <1>1, <1>2, <1>3, <1>4

LEMMA IfLeaves ==
  ASSUME NEW X, NEW text \in Seq(Seq(X)), NEW n \in 0 .. Len(text) - 1, NEW st \in Nestings,
         NEW open, Nest(text, st, n, open), Starts(text[n + 1], "#if")
  PROVE  \E new : Left(text, UpdatePreprocessor(st, text[n + 1]), n, new)
<1> DEFINE d == Len(st.pp_stack)
           new == [q \in 1 .. d + 1 |-> IF q = d + 1 THEN n + 1 ELSE open[q]]
           p == PreprocessorInfo(st.stack)
           u == UpdatePreprocessor(st, text[n + 1])
<1>1. /\ st.pp_stack \in Seq(Conditionals) /\ d \in Nat /\ n \in Nat /\ n + 1 \in Nat
      /\ (n + 1) - 1 = n
  BY LenProperties DEF Nestings
<1>2. u.stack = st.stack /\ u.pp_stack = Append(st.pp_stack, p)
  <2>1. u = [stack |-> st.stack, pp_stack |-> Append(st.pp_stack, p)]
    BY Preprocessed
  <2> HIDE DEF u, p
  <2> QED
    BY <2>1
<1>3. p \in Conditionals
  BY EmptySeq DEF PreprocessorInfo, Conditionals, Nestings
<1>4. Len(u.pp_stack) = d + 1 /\ u.pp_stack[d + 1] = p /\ \A q \in 1 .. d : u.pp_stack[q] = st.pp_stack[q]
  <2> HIDE DEF p, u
  <2> QED
    BY <1>1, <1>2, <1>3, AppendProperties
<1>5. (\A i \in Around(text, n) : SamePart(text, n, i)) /\ Nested(text, d + 1, n + 1, new)
  <2>1. Nested(text, d, n, open)
    BY DEF Nest
  <2> HIDE DEF d
  <2> QED
    BY <1>1, <2>1, NestedIf
<1>6. /\ st.stack = StackOf(text, Counting(text, 0, n + 1), n)
      /\ \A q \in 1 .. d : Entry(text, st.pp_stack[q], n + 1, open[q])
  BY <1>5, AllStay
<1>7. Entry(text, p, n + 1, n + 1)
  <2>1. Part(text, n + 1, n + 1) = 0
    BY AroundNext
  <2>2. p.stack_before_if = StackOf(text, Counting(text, 0, n + 1), (n + 1) - 1)
    BY <1>1, <1>6 DEF PreprocessorInfo
  <2>3. p.seen_else = FALSE /\ (Part(text, n + 1, n + 1) > 0) = FALSE
    BY <2>1 DEF PreprocessorInfo
  <2> HIDE DEF p
  <2> QED
    BY <2>2, <2>3, Zenon DEF Entry
<1>8. ASSUME NEW q \in 1 .. d + 1 PROVE Entry(text, u.pp_stack[q], n + 1, new[q])
  <2>1. CASE q = d + 1
    <3>1. new[q] = n + 1
      BY <2>1
    <3> HIDE DEF u, p, new
    <3> QED
      BY <1>4, <1>7, <2>1, <3>1
  <2>2. CASE q \in 1 .. d
    <3>1. new[q] = open[q]
      BY <1>1, <2>2
    <3> HIDE DEF u, p, new
    <3> QED
      BY <1>4, <1>6, <2>2, <3>1
  <2> QED
    BY <1>1, <2>1, <2>2
<1>9. Left(text, u, n, new)
  <2> HIDE DEF u, new
  <2> QED
    BY <1>2, <1>4, <1>5, <1>6, <1>8 DEF Left, Stored
<1> QED
  BY <1>9

LEMMA PlainLeaves ==
  ASSUME NEW X, NEW text \in Seq(Seq(X)), NEW n \in 0 .. Len(text) - 1, NEW st \in Nestings,
         NEW open, Nest(text, st, n, open), ~Starts(text[n + 1], "#if"),
         st.pp_stack = <<>> \/ (~Starts(text[n + 1], "#else") /\ ~Starts(text[n + 1], "#endif"))
  PROVE  \E new : Left(text, UpdatePreprocessor(st, text[n + 1]), n, new)
<1> DEFINE d == Len(st.pp_stack)
<1>1. d \in Nat /\ (st.pp_stack = <<>> => d = 0)
  BY LenProperties DEF Nestings
<1>2. UpdatePreprocessor(st, text[n + 1]) = st
  BY Preprocessed
<1>3. (\A i \in Around(text, n) : SamePart(text, n, i)) /\ Nested(text, d, n + 1, open)
  <2>1. Nested(text, d, n, open)
    BY DEF Nest
  <2> HIDE DEF d
  <2> QED
    BY <1>1, <2>1, NestedPlain
<1>4. /\ st.stack = StackOf(text, Counting(text, 0, n + 1), n)
      /\ \A q \in 1 .. d : Entry(text, st.pp_stack[q], n + 1, open[q])
  BY <1>3, AllStay
<1>5. Left(text, st, n, open)
  BY <1>3, <1>4 DEF Left, Stored
<1> QED
  BY <1>2, <1>5

\* The entries of the conditionals around the innermost one.
LEMMA OuterStay ==
  ASSUME NEW X, NEW text \in Seq(Seq(X)), NEW n \in 0 .. Len(text) - 1, NEW st \in Nestings,
         NEW open, Nest(text, st, n, open), st.pp_stack # <<>>,
         \A i \in Around(text, n) : i # open[Len(st.pp_stack)] => SamePart(text, n, i)
  PROVE  /\ Len(st.pp_stack) \in Nat \ {0} /\ Last(st.pp_stack) \in Conditionals
         /\ open[Len(st.pp_stack)] \in Around(text, n) /\ open[Len(st.pp_stack)] \in 1 .. n
         /\ Entry(text, Last(st.pp_stack), n, open[Len(st.pp_stack)])
         /\ \A q \in 1 .. Len(st.pp_stack) - 1 :
              Entry(text, st.pp_stack[q], n + 1, open[q])
<1> DEFINE d == Len(st.pp_stack)
           i == open[d]
<1>1. st.pp_stack \in Seq(Conditionals) /\ d \in Nat \ {0} /\ d \in 1 .. d /\ n \in Nat
  BY LenProperties DEF Nestings
<1>2. /\ i \in Around(text, n) /\ Entry(text, st.pp_stack[d], n, i)
      /\ \A q \in 1 .. d : open[q] \in Around(text, n) /\ Entry(text, st.pp_stack[q], n, open[q])
  BY <1>1 DEF Nest, Nested, Stored
<1>3. i \in 1 .. n
  <2> HIDE DEF i
  <2> QED
    BY <1>2, NextLine
<1>4. Last(st.pp_stack) = st.pp_stack[d]
  BY DEF Last
<1>5. Last(st.pp_stack) \in Conditionals
  BY <1>1, StackTop
<1>6. ASSUME NEW q \in 1 .. d - 1 PROVE Entry(text, st.pp_stack[q], n + 1, open[q])
  <2> DEFINE c == open[q]
             p == st.pp_stack[q]
  <2>1. q \in 1 .. d /\ q \in 1 .. (d - 1)
    BY <1>1
  <2>2. c \in Around(text, n) /\ Entry(text, p, n, c)
    BY <1>2, <2>1
  <2>3. c < i /\ Part(text, c, i) = Part(text, c, n)
    BY <1>1, <2>1 DEF Nest, Nested
  <2>4. \A k \in Around(text, n) : k <= i - 1 => SamePart(text, n, k)
    <3>1. ASSUME NEW k \in Around(text, n), k <= i - 1 PROVE k # i
      <4> HIDE DEF i
      <4> QED
        BY <1>1, <1>3, <3>1
    <3> QED
      BY <3>1
  <2>5. i \in 1 .. n + 1
    <3> HIDE DEF i
    <3> QED
      BY <1>1, <1>3
  <2> HIDE DEF c, p, i
  <2>6. Entry(text, p, n + 1, c)
    BY <2>2, <2>3, <2>4, <2>5, EntryStays
  <2> QED
    BY <2>6 DEF c, p
<1> QED
  BY <1>1, <1>2, <1>3, <1>4, <1>5, <1>6

\* The stack after the first part of the innermost conditional.
LEMMA FirstPart ==
  ASSUME NEW X, NEW text \in Seq(Seq(X)), NEW n \in 0 .. Len(text) - 1,
         NEW i \in Around(text, n), NEW p \in Conditionals, Entry(text, p, n, i),
         \A k \in Around(text, n) : k # i => SamePart(text, n, k)
  PROVE  StackOf(text, Counting(text, i, n + 1), n) =
           IF p.seen_else THEN p.stack_before_else ELSE StackOf(text, Counting(text, 0, n), n)
<1>1. n \in Nat /\ n <= n /\ n \in 0 .. Len(text)
  BY LenProperties
<1>2. StackOf(text, Counting(text, i, n + 1), n) = StackOf(text, Counting(text, i, n), n)
  BY <1>1, StackBefore
<1>3. CASE p.seen_else
  <2>1. p.stack_before_else = StackOf(text, Counting(text, i, n), n)
    BY <1>3, Zenon DEF Entry
  <2> QED
    BY <1>2, <1>3, <2>1
<1>4. CASE ~p.seen_else
  <2>1. ~(Part(text, i, n) > 0)
    BY <1>4, Zenon DEF Entry
  <2>2. Part(text, i, n) \in Nat /\ i \in Ifs(text)
    BY NextLine
  <2>3. Part(text, i, n) = 0
    BY <2>1, <2>2
  <2>4. StackOf(text, Counting(text, 0, n), n) = StackOf(text, Counting(text, i, n), n)
    BY <1>1, <2>2, <2>3, StackClosed
  <2> QED
    BY <1>2, <1>4, <2>4
<1> QED
  BY <1>3, <1>4

LEMMA ElseLeaves ==
  ASSUME NEW X, NEW text \in Seq(Seq(X)), NEW n \in 0 .. Len(text) - 1, NEW st \in Nestings,
         NEW open, Nest(text, st, n, open), Starts(text[n + 1], "#else"), st.pp_stack # <<>>
  PROVE  \E new : Left(text, UpdatePreprocessor(st, text[n + 1]), n, new)
<1> DEFINE d == Len(st.pp_stack)
           i == open[d]
           p == Last(st.pp_stack)
           new == IF p.seen_else THEN p
                  ELSE [p EXCEPT !.seen_else = TRUE, !.stack_before_else = st.stack]
           u == UpdatePreprocessor(st, text[n + 1])
<1>1. /\ st.pp_stack \in Seq(Conditionals) /\ d \in Nat \ {0} /\ n \in Nat /\ n + 1 \in Nat
      /\ n \in 0 .. Len(text)
  BY LenProperties DEF Nestings
<1>2. u.stack = p.stack_before_if /\ u.pp_stack = SetTop(st.pp_stack, new)
  <2>1. u = [stack |-> p.stack_before_if, pp_stack |-> SetTop(st.pp_stack, new)]
    BY Preprocessed
  <2> HIDE DEF u, p, new
  <2> QED
    BY <2>1
<1>3. /\ \A k \in Around(text, n) : k # i => SamePart(text, n, k)
      /\ i \in Around(text, n + 1) /\ Part(text, i, n + 1) = Part(text, i, n) + 1
      /\ Nested(text, d, n + 1, open)
  <2>1. Nested(text, d, n, open)
    BY DEF Nest
  <2> HIDE DEF d
  <2> QED
    BY <1>1, <2>1, NestedElse
<1>4. /\ p \in Conditionals /\ i \in Around(text, n) /\ i \in 1 .. n /\ Entry(text, p, n, i)
      /\ \A q \in 1 .. d - 1 : Entry(text, st.pp_stack[q], n + 1, open[q])
  BY <1>3, OuterStay
<1>5. Part(text, i, n) \in Nat /\ n + 1 <= EndOf(text, i) /\ EndOf(text, i) \in Nat /\ i \in Ifs(text)
  <2> HIDE DEF i
  <2> QED
    BY <1>4, NextLine
<1>6. Part(text, i, n + 1) # 0 /\ (Part(text, i, n + 1) > 0) = TRUE
  <2> HIDE DEF i
  <2> QED
    BY <1>3, <1>5
<1> HIDE DEF i, p
<1>7. StackOf(text, Counting(text, 0, n + 1), i - 1) = p.stack_before_if
  <2>1. p.stack_before_if = StackOf(text, Counting(text, 0, n), i - 1)
    BY <1>4 DEF Entry
  <2>2. i - 1 \in Nat /\ i - 1 <= n /\ \A k \in Around(text, n) : k <= i - 1 => k # i
    <3>1. \A k \in Around(text, n) : k \in 1 .. n
      BY NextLine
    <3> QED
      BY <1>1, <1>4, <3>1
  <2>3. StackOf(text, Counting(text, 0, n + 1), i - 1) = StackOf(text, Counting(text, 0, n), i - 1)
    BY <1>3, <2>2, StackBefore
  <2> QED
    BY <2>1, <2>3
<1>8. StackOf(text, Counting(text, 0, n + 1), n) = StackOf(text, Counting(text, 0, n + 1), i - 1)
  <2> DEFINE K == Counting(text, 0, n + 1)
  <2>1. i - 1 \in Nat /\ i - 1 <= n /\ i - 1 <= i - 1 /\ i - 1 \in 0 .. Len(text) /\ (i - 1) + 1 = i
    BY <1>1, <1>4
  <2>2. Due(text, 0, n + 1, i) = Part(text, i, n + 1)
    <3>1. i # 0
      BY <1>4
    <3>2. ~(EndOf(text, i) <= n + 1)
      BY <1>1, <1>3, <1>5 DEF Around
    <3> QED
      BY <3>1, <3>2 DEF Due
  <2>3. ASSUME NEW k \in i .. n
        PROVE  i \in Around(text, k) /\ Part(text, i, k) # Due(text, 0, n + 1, i)
    <3>1. k \in Nat /\ k <= n /\ i <= k /\ k < EndOf(text, i)
      BY <1>1, <1>4, <1>5
    <3>2. Part(text, i, k) \in Nat /\ Part(text, i, k) <= Part(text, i, n)
      BY <1>1, <1>5, <3>1, PartGrows
    <3> QED
      BY <1>3, <1>5, <2>2, <3>1, <3>2 DEF Around
  <2>4. NoneOf(K, i - 1, n)
    BY <1>1, <2>1, <2>3, CountsNone
  <2> HIDE DEF K
  <2>5. Agree(K, K, i - 1) /\ NoneOf(K, i - 1, i - 1)
    BY <2>1 DEF Agree, NoneOf
  <2>6. StackOf(text, K, n) = StackOf(text, K, i - 1)
    BY <1>1, <2>1, <2>4, <2>5, StackOfAgrees
  <2> QED
    BY <2>6 DEF K
<1>9. Entry(text, new, n + 1, i)
  <2>1. /\ new.stack_before_if = p.stack_before_if /\ new.seen_else = TRUE
        /\ new.stack_before_else = (IF p.seen_else THEN p.stack_before_else ELSE st.stack)
    <3>1. CASE p.seen_else
      <4>1. p.seen_else \in BOOLEAN
        BY <1>4 DEF Conditionals
      <4> QED
        BY <3>1, <4>1
    <3>2. CASE ~p.seen_else
      BY <1>4, <3>2 DEF Conditionals
    <3> QED
      BY <3>1, <3>2
  <2> HIDE DEF new
  <2>2. st.stack = StackOf(text, Counting(text, 0, n), n)
    BY DEF Nest
  <2>3. StackOf(text, Counting(text, i, n + 1), n) = new.stack_before_else
    <3>1. StackOf(text, Counting(text, i, n + 1), n) =
            IF p.seen_else THEN p.stack_before_else ELSE StackOf(text, Counting(text, 0, n), n)
      BY <1>3, <1>4, FirstPart
    <3> QED
      BY <2>1, <2>2, <3>1
  <2>4. StackOf(text, Counting(text, i, n + 1), n + 1) = new.stack_before_else
    BY <1>3, <1>6, <2>3, LaterPart
  <2> QED
    BY <1>6, <1>7, <2>1, <2>4, Zenon DEF Entry
<1>10. new \in Conditionals
  <2>1. st.stack \in Seq(Blocks)
    BY DEF Nestings
  <2> QED
    BY <1>4, <2>1 DEF Conditionals
<1>11. /\ Len(u.pp_stack) = d /\ u.pp_stack[d] = new
       /\ \A q \in 1 .. d - 1 : u.pp_stack[q] = st.pp_stack[q]
  <2>1. d \in 1 .. d /\ \A q \in 1 .. d - 1 : q \in 1 .. d /\ q # d
    BY <1>1
  <2>2. u.pp_stack = [st.pp_stack EXCEPT ![d] = new]
    BY <1>2 DEF SetTop
  <2>3. u.pp_stack \in Seq(Conditionals) /\ DOMAIN u.pp_stack = 1 .. Len(u.pp_stack)
    BY <1>1, <1>10, <2>1, <2>2, ExceptSeq, LenProperties
  <2>4. DOMAIN st.pp_stack = 1 .. d
    BY <1>1, LenProperties
  <2> HIDE DEF u, new
  <2>5. Len(u.pp_stack) = d
    BY <1>1, <1>10, <2>1, <2>2, ExceptSeq
  <2> QED
    BY <2>1, <2>2, <2>4, <2>5
<1>12. ASSUME NEW q \in 1 .. d PROVE Entry(text, u.pp_stack[q], n + 1, open[q])
  <2>1. CASE q = d
    <3> HIDE DEF u, new
    <3> QED
      BY <1>9, <1>11, <2>1 DEF i
  <2>2. CASE q \in 1 .. d - 1
    <3> HIDE DEF u, new
    <3> QED
      BY <1>4, <1>11, <2>2
  <2> QED
    BY <1>1, <2>1, <2>2
<1>13. Left(text, u, n, open)
  <2> HIDE DEF u
  <2> QED
    BY <1>2, <1>3, <1>7, <1>8, <1>11, <1>12 DEF Left, Stored
<1> QED
  BY <1>13

LEMMA EndifLeaves ==
  ASSUME NEW X, NEW text \in Seq(Seq(X)), NEW n \in 0 .. Len(text) - 1, NEW st \in Nestings,
         NEW open, Nest(text, st, n, open), Starts(text[n + 1], "#endif"), st.pp_stack # <<>>
  PROVE  \E new : Left(text, UpdatePreprocessor(st, text[n + 1]), n, new)
<1> DEFINE d == Len(st.pp_stack)
           i == open[d]
           p == Last(st.pp_stack)
           new == Outer(open, d)
           u == UpdatePreprocessor(st, text[n + 1])
<1>1. /\ st.pp_stack \in Seq(Conditionals) /\ d \in Nat \ {0} /\ n \in Nat /\ n + 1 \in Nat
      /\ n + 1 \in 0 .. Len(text) /\ n <= n + 1 /\ d - 1 \in Nat
  BY LenProperties DEF Nestings
<1>2. /\ u.stack = (IF p.seen_else THEN p.stack_before_else ELSE st.stack)
      /\ u.pp_stack = Front(st.pp_stack)
  <2>1. u = [stack |-> IF p.seen_else THEN p.stack_before_else ELSE st.stack,
             pp_stack |-> Front(st.pp_stack)]
    BY Preprocessed
  <2> HIDE DEF u, p
  <2> QED
    BY <2>1
<1>3. /\ \A k \in Around(text, n) : k # i => SamePart(text, n, k)
      /\ EndOf(text, i) = n + 1
      /\ Nested(text, d - 1, n + 1, new)
  <2>1. Nested(text, d, n, open)
    BY DEF Nest
  <2> HIDE DEF d
  <2> QED
    BY <1>1, <2>1, NestedEndif
<1>4. /\ p \in Conditionals /\ i \in Around(text, n) /\ Entry(text, p, n, i)
      /\ \A q \in 1 .. d - 1 : Entry(text, st.pp_stack[q], n + 1, open[q])
  BY <1>3, OuterStay
<1> HIDE DEF i, p
<1>5. u.stack = StackOf(text, Counting(text, 0, n + 1), n)
  <2> HIDE DEF u
  <2>1. st.stack = StackOf(text, Counting(text, 0, n), n)
    BY DEF Nest
  <2>2. StackOf(text, Counting(text, i, n + 1), n) = u.stack
    <3>1. StackOf(text, Counting(text, i, n + 1), n) =
            IF p.seen_else THEN p.stack_before_else ELSE StackOf(text, Counting(text, 0, n), n)
      BY <1>3, <1>4, FirstPart
    <3> QED
      BY <1>2, <2>1, <3>1
  <2>3. i \in Ifs(text) /\ EndOf(text, i) <= n + 1
    BY <1>1, <1>3, <1>4 DEF Around
  <2>4. StackOf(text, Counting(text, 0, n + 1), n) = StackOf(text, Counting(text, i, n + 1), n)
    BY <1>1, <2>3, StackClosed
  <2> QED
    BY <2>2, <2>4
<1>6. Len(u.pp_stack) = d - 1 /\ \A q \in 1 .. d - 1 : u.pp_stack[q] = st.pp_stack[q]
  <2>1. u.pp_stack = SubSeq(st.pp_stack, 1, d - 1)
    BY <1>2 DEF Front
  <2> HIDE DEF u
  <2>2. 1 .. d - 1 \subseteq 1 .. d
    BY <1>1
  <2> QED
    BY <1>1, <2>1, <2>2, SubSeqProperties
<1>7. \A q \in 1 .. d - 1 : new[q] = open[q]
  BY DEF Outer
<1>8. ASSUME NEW q \in 1 .. d - 1 PROVE Entry(text, u.pp_stack[q], n + 1, new[q])
  <2> HIDE DEF u, new
  <2> QED
    BY <1>4, <1>6, <1>7
<1>9. Left(text, u, n, new)
  <2> HIDE DEF u, new
  <2> QED
    BY <1>3, <1>5, <1>6, <1>8 DEF Left, Stored
<1> QED
  BY <1>9

------------------------------------------------------------------------------
\* A line keeps the stack that of the lines that count, and what is stored for
\* the conditionals that are open.

LEMMA UpdateRestores ==
  ASSUME NEW X, NEW text \in Seq(Seq(X)), NEW n \in 0 .. Len(text) - 1, NEW st \in Nestings,
         Restorable(text, st.pp_stack, n), st.stack = StackOf(text, Counting(text, 0, n), n)
  PROVE  /\ Restorable(text, Update(st, text, n + 1).pp_stack, n + 1)
         /\ Update(st, text, n + 1).stack = StackOf(text, Counting(text, 0, n + 1), n + 1)
<1> DEFINE u == UpdatePreprocessor(st, text[n + 1])
           s == UpdateStack(u.stack, text, n + 1)
           new == Update(st, text, n + 1)
<1>1. n + 1 \in 1 .. Len(text) /\ n + 1 \in 0 .. Len(text)
  BY LenProperties
<1>2. st.pp_stack \in Seq(Conditionals)
  BY DEF Nestings
<1>3. PICK open : Nested(text, Len(st.pp_stack), n, open) /\ Stored(text, st.pp_stack, n, open)
  BY <1>2, RestorableIs
<1>4. Nest(text, st, n, open)
  BY <1>3 DEF Nest
<1>5. PICK left : Left(text, u, n, left)
  BY <1>4, IfLeaves, PlainLeaves, ElseLeaves, EndifLeaves
<1>6. u \in Nestings
  BY UpdatePreprocessorType
<1>7. new.pp_stack = u.pp_stack /\ new.stack = s
  <2>1. new = [u EXCEPT !.stack = s]
    BY DEF Update
  <2> HIDE DEF u, s, new
  <2> QED
    BY <1>6, <2>1 DEF Nestings
<1> HIDE DEF u
<1>8. Restorable(text, u.pp_stack, n + 1)
  <2>1. u.pp_stack \in Seq(Conditionals)
    BY <1>6 DEF Nestings
  <2> QED
    BY <1>5, <2>1, RestorableIs DEF Left
<1>9. n + 1 \in Counting(text, 0, n + 1)
  <2>1. 0 \notin Around(text, n + 1)
    BY EndOfIs DEF Around
  <2> QED
    BY <1>1, <2>1, CountsLast
<1>10. s = StackOf(text, Counting(text, 0, n + 1), n + 1)
  <2>1. u.stack = StackOf(text, Counting(text, 0, n + 1), n)
    BY <1>5 DEF Left
  <2> QED
    BY <1>9, <2>1, StackOfNext
<1> HIDE DEF new, s
<1> QED
  BY <1>7, <1>8, <1>10 DEF new

\* Before the first line nothing is open.
LEMMA StartsRestorable ==
  ASSUME NEW X, NEW text \in Seq(Seq(X))
  PROVE  Restorable(text, <<>>, 0) /\ StackOf(text, Counting(text, 0, 0), 0) = <<>>
<1>1. Around(text, 0) = {}
  <2>1. \A i \in Ifs(text) : ~(i <= 0)
    BY EndOfIs
  <2> QED
    BY <2>1 DEF Around
<1> DEFINE open == [q \in 1 .. 0 |-> 0]
           none == <<>>
<1>2. none \in Seq(Conditionals) /\ Len(none) = 0
  BY EmptySeq
<1>3. Nested(text, 0, 0, open) /\ 1 .. 0 = {}
  BY <1>1 DEF Nested
<1> HIDE DEF none, open
<1>4. Restorable(text, none, 0)
  BY <1>2, <1>3, RestorableIs DEF Stored
<1>5. 0 \in 0 .. Len(text)
  BY LenProperties
<1>6. PICK s : Stacks(s, text, Counting(text, 0, 0), 0) /\ StackOf(text, Counting(text, 0, 0), 0) = s[0]
  BY <1>5, StackOfIs
<1> QED
  BY <1>4, <1>6 DEF none, Stacks

------------------------------------------------------------------------------
\* Sequences.

\* What two sequences hold, one after the other, and what a flattened one does.
LEMMA ConcatRange ==
  ASSUME NEW S, NEW s \in Seq(S), NEW t \in Seq(S)
  PROVE  s \o t \in Seq(S) /\ Range(s \o t) = Range(s) \cup Range(t)
<1> DEFINE m == Len(s)
           n == Len(t)
           u == s \o t
<1>1. m \in Nat /\ DOMAIN s = 1 .. m /\ n \in Nat /\ DOMAIN t = 1 .. n
  BY LenProperties
<1>2. /\ u \in Seq(S) /\ DOMAIN u = 1 .. m + n
      /\ \A i \in 1 .. m + n : u[i] = IF i <= m THEN s[i] ELSE t[i - m]
  BY ConcatProperties, LenProperties
<1> HIDE DEF m, n, u
<1>3. ASSUME NEW i \in 1 .. m + n
      PROVE  \/ i \in 1 .. m /\ u[i] = s[i]
             \/ i - m \in 1 .. n /\ u[i] = t[i - m]
  BY <1>1, <1>2
<1>4. ASSUME NEW i \in 1 .. m PROVE i \in 1 .. m + n /\ u[i] = s[i]
  BY <1>1, <1>2
<1>5. ASSUME NEW i \in 1 .. n PROVE m + i \in 1 .. m + n /\ u[m + i] = t[i]
  <2>1. m + i \in 1 .. m + n /\ ~(m + i <= m) /\ (m + i) - m = i
    BY <1>1
  <2> QED
    BY <1>2, <2>1
<1>6. Range(u) = Range(s) \cup Range(t)
  <2>1. \A x \in Range(u) : x \in Range(s) \cup Range(t)
    BY <1>1, <1>2, <1>3 DEF Range
  <2>2. \A x \in Range(s) : x \in Range(u)
    BY <1>1, <1>2, <1>4 DEF Range
  <2>3. ASSUME NEW x \in Range(t) PROVE x \in Range(u)
    <3>1. PICK i \in DOMAIN t : x = t[i]
      BY DEF Range
    <3>2. i \in 1 .. n
      BY <1>1, <3>1
    <3>3. m + i \in DOMAIN u /\ u[m + i] = x
      BY <1>2, <1>5, <3>1, <3>2
    <3> QED
      BY <3>3 DEF Range
  <2> QED
    BY <2>1, <2>2, <2>3
<1> QED
  BY <1>2, <1>6 DEF u

LEMMA FlattenIs ==
  ASSUME NEW S, NEW s \in Seq(Seq(S))
  PROVE  FlattenSeq(s) \in Seq(S) /\ Range(FlattenSeq(s)) = UNION {Range(s[n]) : n \in DOMAIN s}
<1> DEFINE N == Len(s)
           A == Seq(S)
           F == [i \in 1 .. N |-> [v \in A |-> v \o s[i]]]
           Body(f) == [i \in 1 .. N |-> IF i = 1 THEN s[i] ELSE f[i - 1] \o s[i]]
           h == CHOOSE f : f = Body(f)
<1>1. N \in Nat /\ DOMAIN s = 1 .. N /\ \A i \in 1 .. N : s[i] \in Seq(S)
  BY LenProperties, ElementOfSeq
<1>2. CASE N = 0
  <2>1. s = <<>> /\ DOMAIN s = {}
    BY <1>1, <1>2, EmptySeq
  <2>2. FlattenSeq(s) = s
    BY <1>2, Zenon DEF FlattenSeq
  <2>3. Range(s) = {} /\ UNION {Range(s[n]) : n \in DOMAIN s} = {} /\ s \in Seq(S)
    BY <2>1 DEF Range
  <2> QED
    BY <2>2, <2>3
<1>3. CASE N # 0
  <2>1. FlattenSeq(s) = h[N]
    BY <1>3, Zenon DEF FlattenSeq
  <2>2. \A i \in 1 .. N : \A v \in A : F[i][v] = v \o s[i] /\ v \o s[i] \in A
    BY <1>1, ConcatProperties
  <2>3. <<>> \in A /\ 1 \in 1 .. N
    BY <1>1, <1>3
  <2>4. Recurrence(F, N, A)
    <3> HIDE DEF F, A
    <3> QED
      BY <2>2 DEF Recurrence
  <2>5. PICK g : Recurs(g, F, <<>>, N, A)
    <3> HIDE DEF F, A
    <3> QED
      BY <1>1, <2>3, <2>4, FiniteRecursion
  <2>6. /\ \A i \in 0 .. N : g[i] \in A
        /\ g[0] = <<>> /\ \A i \in 1 .. N : g[i] = g[i - 1] \o s[i] /\ i - 1 \in 0 .. N
    <3> HIDE DEF F
    <3>1. \A i \in 1 .. N : i - 1 \in 0 .. N
      BY <1>1
    <3> QED
      BY <2>2, <2>5, <3>1 DEF Recurs
  <2>7. \E f : f = Body(f)
    <3> DEFINE f == [i \in 1 .. N |-> g[i]]
    <3>1. ASSUME NEW i \in 1 .. N
          PROVE  f[i] = IF i = 1 THEN s[i] ELSE f[i - 1] \o s[i]
      <4>1. CASE i = 1
        <5>0. g[i] = g[i - 1] \o s[i] /\ i - 1 = 0 /\ g[0] = <<>>
          <6> HIDE DEF N, F
          <6>1. g[i] = g[i - 1] \o s[i]
            BY <2>6
          <6>2. i - 1 = 0
            BY <4>1
          <6>3. g[0] = <<>>
            BY <2>6
          <6> QED
            BY <6>1, <6>2, <6>3
        <5>1. g[1] = <<>> \o s[1] /\ s[1] \in Seq(S)
          BY <1>1, <2>3, <4>1, <5>0
        <5>2. <<>> \o s[1] = s[1]
          BY <5>1, ConcatEmptySeq
        <5> QED
          BY <4>1, <5>1, <5>2
      <4>2. CASE i # 1
        <5>1. i - 1 \in 1 .. N
          BY <1>1, <4>2
        <5> QED
          BY <2>6, <4>2, <5>1
      <4> QED
        BY <4>1, <4>2
    <3>2. f = [i \in 1 .. N |-> f[i]]
      OBVIOUS
    <3> HIDE DEF f
    <3>3. f = Body(f)
      BY <3>1, <3>2
    <3> QED
      BY <3>3
  <2>8. h = Body(h)
    <3> HIDE DEF Body
    <3> QED
      BY <2>7, Zenon
  <2>9. \A i \in 1 .. N : h[i] = IF i = 1 THEN s[i] ELSE h[i - 1] \o s[i]
    <3>1. \A i \in 1 .. N : Body(h)[i] = IF i = 1 THEN s[i] ELSE h[i - 1] \o s[i]
      OBVIOUS
    <3> HIDE DEF Body, h
    <3> QED
      BY <2>8, <3>1
  <2> HIDE DEF h
  <2> DEFINE R(i) == UNION {Range(s[n]) : n \in 1 .. i}
             T == {i \in Nat : i + 1 <= N => h[i + 1] \in Seq(S) /\ Range(h[i + 1]) = R(i + 1)}
  <2>10. 0 \in T
    <3>1. 1 .. 1 = {1} /\ h[1] = s[1] /\ s[1] \in Seq(S) /\ 0 + 1 = 1
      BY <1>1, <2>3, <2>9
    <3>2. R(1) = Range(s[1])
      BY <3>1
    <3> QED
      BY <3>1, <3>2
  <2>11. ASSUME NEW i \in Nat, i \in T PROVE i + 1 \in T
    <3>1. SUFFICES ASSUME (i + 1) + 1 <= N
                   PROVE  h[(i + 1) + 1] \in Seq(S) /\ Range(h[(i + 1) + 1]) = R((i + 1) + 1)
      OBVIOUS
    <3> DEFINE j == i + 1
    <3>2. /\ j + 1 \in 1 .. N /\ j + 1 # 1 /\ (j + 1) - 1 = j /\ j \in Nat
          /\ h[j] \in Seq(S) /\ Range(h[j]) = R(j)
      BY <1>1, <2>11, <3>1
    <3> HIDE DEF j, R
    <3>3. h[j + 1] = h[j] \o s[j + 1] /\ s[j + 1] \in Seq(S)
      BY <1>1, <2>9, <3>2
    <3>4. h[j + 1] \in Seq(S) /\ Range(h[j + 1]) = R(j) \cup Range(s[j + 1])
      BY <3>2, <3>3, ConcatRange
    <3>5. 1 .. (j + 1) = (1 .. j) \cup {j + 1}
      BY <3>2
    <3>6. R(j + 1) = R(j) \cup Range(s[j + 1])
      BY <3>5 DEF R
    <3> QED
      BY <3>4, <3>6 DEF j
  <2>12. Nat \subseteq T
    <3> HIDE DEF T
    <3> QED
      BY <2>10, <2>11, SetInduction
  <2>13. N - 1 \in Nat /\ (N - 1) + 1 = N
    BY <1>1, <1>3
  <2>14. h[N] \in Seq(S) /\ Range(h[N]) = R(N)
    <3>1. N - 1 \in T
      BY <2>12, <2>13
    <3>2. (N - 1) + 1 <= N => h[(N - 1) + 1] \in Seq(S) /\ Range(h[(N - 1) + 1]) = R((N - 1) + 1)
      BY <3>1
    <3> HIDE DEF R, T, N
    <3>3. (N - 1) + 1 = N /\ N <= N
      BY <1>1, <2>13
    <3> QED
      BY <3>2, <3>3
  <2> QED
    BY <1>1, <2>1, <2>14
<1> QED
  BY <1>2, <1>3

------------------------------------------------------------------------------
\* What is reported.

\* A report is of a category that a NOLINT comment can name.  Of those on a line
\* to come only the one of the trailing semicolon waits for that line's comments:
\* it is on line end, or there is none when end is 0.
Placed(r, end) ==
  /\ r.category \in Categories /\ r.confidence \in Nat
  /\ r.category = BracesError.category => end # 0 /\ r.line = end

Lists(reports, end) ==
  /\ \E E : reports \in Seq(E)
  /\ \A k \in DOMAIN reports : Placed(reports[k], end)

LEMMA ListsNone ==
  ASSUME NEW end
  PROVE  Lists(<<>>, end)
<1>1. <<>> \in Seq({0}) /\ DOMAIN <<>> = {}
  OBVIOUS
<1> QED
  BY <1>1, Zenon DEF Lists

LEMMA ListsOne ==
  ASSUME NEW end, NEW r, Placed(r, end)
  PROVE  Lists(<<r>>, end)
<1>1. <<r>> \in Seq({r}) /\ DOMAIN <<r>> = 1 .. 1 /\ <<r>>[1] = r
  OBVIOUS
<1>2. \A k \in 1 .. 1 : k = 1
  OBVIOUS
<1> QED
  BY <1>1, <1>2, Zenon DEF Lists

LEMMA ListsConcat ==
  ASSUME NEW end, NEW s, NEW t, Lists(s, end), Lists(t, end)
  PROVE  Lists(s \o t, end)
<1> DEFINE u == s \o t
<1>1. PICK S, T : s \in Seq(S) /\ t \in Seq(T)
  BY Zenon DEF Lists
<1> DEFINE X == S \cup T
<1>2. s \in Seq(X) /\ t \in Seq(X)
  BY <1>1, SeqMonotonic
<1> HIDE DEF X
<1>3. u \in Seq(X) /\ Range(u) = Range(s) \cup Range(t)
  BY <1>2, ConcatRange
<1> HIDE DEF u
<1>4. \A r \in Range(u) : Placed(r, end)
  BY <1>3 DEF Lists, Range
<1>5. \A k \in DOMAIN u : u[k] \in Range(u)
  BY DEF Range
<1>6. Lists(u, end)
  BY <1>3, <1>4, <1>5, Zenon DEF Lists
<1> QED
  BY <1>6 DEF u

LEMMA ListsReporting ==
  ASSUME NEW end, NEW r, Placed(r, end), NEW c
  PROVE  Lists(Reporting(c, r), end)
BY ListsNone, ListsOne, Zenon DEF Reporting

\* With no braces among them, wherever they are.
LEMMA ListsOn ==
  ASSUME NEW end, NEW n, NEW reports, Lists(reports, 0)
  PROVE  Lists(OnLine(n, reports), end)
<1> DEFINE N == Len(reports)
           on == OnLine(n, reports)
           E == {on[k] : k \in 1 .. N}
<1>1. PICK S : reports \in Seq(S)
  BY Zenon DEF Lists
<1>2. N \in Nat /\ DOMAIN reports = 1 .. N
  BY <1>1, LenProperties
<1>3. on = [k \in 1 .. N |-> On(n, reports[k])]
  BY <1>2, Zenon DEF OnLine
<1> HIDE DEF N, on
<1>4. on \in Seq(E) /\ DOMAIN on = 1 .. N
  BY <1>2, <1>3
<1>5. ASSUME NEW k \in 1 .. N PROVE Placed(on[k], end)
  <2>1. Placed(reports[k], 0)
    BY <1>2 DEF Lists
  <2>2. on[k] = [line |-> n, category |-> reports[k].category, confidence |-> reports[k].confidence]
    BY <1>3 DEF On
  <2> QED
    BY <2>1, <2>2 DEF Placed
<1>6. Lists(on, end)
  BY <1>4, <1>5, Zenon DEF Lists
<1> QED
  BY <1>6 DEF on

LEMMA PlacedOn ==
  ASSUME NEW end, NEW n
  PROVE  /\ Placed(On(n, MultiLineError), end) /\ Placed(On(n, StringError), end)
         /\ Placed(On(n, NolintError), end)
         /\ Placed(On(n, LoopError), end) /\ Placed(On(n, ConditionalError), end)
         /\ Placed(On(n, EmptyIfError), end)
         /\ end # 0 => Placed(On(end, BracesError), end)
BY DEF Placed, On, MultiLineError, StringError, NolintError, LoopError, ConditionalError,
       EmptyIfError, BracesError, Categories

LEMMA UnknownLists ==
  ASSUME NEW end, NEW n
  PROVE  Lists(UnknownOn(n), end)
BY PlacedOn, ListsReporting, Zenon DEF UnknownOn

LEMMA MultilineLists ==
  ASSUME NEW end, NEW n
  PROVE  Lists(MultilineReports(n), end)
<1>1. /\ Lists(Reporting(Count(elided[n], {"/*"}) > Count(elided[n], {"*/"}), On(n, MultiLineError)), end)
      /\ Lists(Reporting(Quotes(elided[n]) % 2 = 1, On(n, StringError)), end)
  BY PlacedOn, ListsReporting, Zenon
<1> QED
  BY <1>1, ListsConcat, Zenon DEF MultilineReports

LEMMA EmptyBodyLists ==
  ASSUME NEW end, NEW n
  PROVE  Lists(EmptyBodyReports(n), end)
<1> DEFINE close == CloseExpression(n, Where(elided[n], "("))
           r == On(close.line, IF Starts(elided[n], "if") THEN ConditionalError ELSE LoopError)
<1>1. EmptyBodyReports(n) = <<r>> \/ EmptyBodyReports(n) = <<>>
  BY Zenon DEF EmptyBodyReports
<1>2. Placed(r, end)
  <2> HIDE DEF close
  <2> QED
    BY PlacedOn
<1> HIDE DEF r
<1> QED
  BY <1>1, <1>2, ListsNone, ListsOne, Zenon

LEMMA EmptyIfLists ==
  ASSUME NEW end, NEW n
  PROVE  Lists(EmptyIfReports(n), end)
BY PlacedOn, ListsReporting, Zenon DEF EmptyIfReports

\* The errors of a function's length.
LEMMA ErrorLevelType ==
  ASSUME NEW length, NEW base
  PROVE  ErrorLevel(length, base) \in Nat
<1> DEFINE n == 5
           P(e) == base * 2 ^ e <= length
           levels == {e \in 1 .. n : P(e)}
<1>1. ErrorLevel(length, base) = Cardinality(levels)
  BY Zenon DEF ErrorLevel
<1>2. n \in Nat
  OBVIOUS
<1> HIDE DEF P, n
<1>3. levels \in SUBSET (1 .. n) /\ IsFiniteSet(1 .. n)
  BY <1>2, FS_Interval
<1> HIDE DEF levels
<1> QED
  BY <1>1, <1>3, FS_Subset, FS_CardinalityType

LEMMA OneLong ==
  ASSUME NEW x
  PROVE  ~(Len(<<x>>) > 1)
OBVIOUS

FnSize(c) == [category |-> <<"readability", "fn_size">>, confidence |-> c]

LEMMA LengthIs ==
  ASSUME NEW st, NEW text, NEW n, NEW verbose
  PROVE  LET reports == CheckForFunctionLengths(st, text, n, verbose).reports IN
         reports = <<>> \/ \E c \in Nat : reports = <<FnSize(c)>>
<1> DEFINE line == text[n]
           ends == BodyLines(text, n)
           last == text[CHOOSE m \in ends : \A k \in ends : m <= k]
           long == [category |-> <<"readability", "fn_size">>, confidence |-> 5]
           base == IF st.test THEN TestTrigger ELSE NormalTrigger
           check == [category |-> <<"readability", "fn_size">>,
                     confidence |-> ErrorLevel(st.lines_in_function, base)]
           head == IF Count(last, {";", "}"}) = 0 THEN Begin(line[1] = "TEST") ELSE st
           body == IF Stripped(line) = <<>> THEN st ELSE CountLine(st)
<1> DEFINE One(reports) == reports = <<>> \/ \E c \in Nat : reports = <<FnSize(c)>>
<1>1. long = FnSize(5) /\ check = FnSize(ErrorLevel(st.lines_in_function, base))
  BY DEF FnSize
<1>2. ErrorLevel(st.lines_in_function, base) \in Nat
  BY ErrorLevelType
<1>3. One(<<long>>) /\ One(Check(st, verbose)) /\ One(<<>>)
  <2>1. Check(st, verbose) = <<check>> \/ Check(st, verbose) = <<>>
    BY Zenon DEF Check
  <2>2. 5 \in Nat
    OBVIOUS
  <2> HIDE DEF long, check, base
  <2> QED
    BY <1>1, <1>2, <2>1, <2>2, Zenon
<1>4. CheckForFunctionLengths(st, text, n, verbose) =
        CASE StartsFunction(line) /\ ends = {} -> [st |-> st, reports |-> <<long>>]
          [] StartsFunction(line) /\ ends # {} -> [st |-> head, reports |-> <<>>]
          [] line = <<"}">> -> [st |-> End(st), reports |-> Check(st, verbose)]
          [] ~StartsFunction(line) /\ line # <<"}">> -> [st |-> body, reports |-> <<>>]
  BY Zenon DEF CheckForFunctionLengths
<1>5. StartsFunction(line) => line # <<"}">>
  <2> HIDE DEF line
  <2>1. ASSUME line = <<"}">> PROVE ~(Len(line) > 1)
    BY <2>1, OneLong, Zenon
  <2>2. ASSUME StartsFunction(line) PROVE Len(line) > 1
    BY <2>2, Zenon DEF StartsFunction
  <2> QED
    BY <2>1, <2>2, Zenon
<1> SUFFICES One(CheckForFunctionLengths(st, text, n, verbose).reports)
  OBVIOUS
<1> HIDE DEF line, ends, long, head, body, One
<1>6. CASE StartsFunction(line) /\ ends = {}
  <2>1. CheckForFunctionLengths(st, text, n, verbose) = [st |-> st, reports |-> <<long>>]
    BY <1>4, <1>5, <1>6
  <2> QED
    BY <1>3, <2>1
<1>7. CASE StartsFunction(line) /\ ends # {}
  <2>1. CheckForFunctionLengths(st, text, n, verbose) = [st |-> head, reports |-> <<>>]
    BY <1>4, <1>5, <1>7
  <2> QED
    BY <1>3, <2>1
<1>8. CASE line = <<"}">>
  <2>1. CheckForFunctionLengths(st, text, n, verbose) = [st |-> End(st), reports |-> Check(st, verbose)]
    BY <1>4, <1>5, <1>8
  <2> QED
    BY <1>3, <2>1
<1>9. CASE ~StartsFunction(line) /\ line # <<"}">>
  <2>1. CheckForFunctionLengths(st, text, n, verbose) = [st |-> body, reports |-> <<>>]
    BY <1>4, <1>9
  <2> QED
    BY <1>3, <2>1
<1> QED
  BY <1>6, <1>7, <1>8, <1>9

LEMMA LengthLists ==
  ASSUME NEW st, NEW text, NEW n, NEW verbose
  PROVE  Lists(CheckForFunctionLengths(st, text, n, verbose).reports, 0)
<1>1. \A c \in Nat : Placed(FnSize(c), 0)
  BY DEF Placed, Categories, BracesError, FnSize
<1> QED
  BY <1>1, LengthIs, ListsNone, ListsOne

\* Those of the includes.
LEMMA IncludeCategory ==
  ASSUME NEW x
  PROVE  <<"build", "include">> \o <<x>> = <<"build", "include", x>>
<1> DEFINE S == {"build", "include", x}
           s == <<"build", "include">>
           t == <<x>>
           u == <<"build", "include", x>>
<1>1. s \in Seq(S) /\ t \in Seq(S) /\ u \in Seq(S)
  OBVIOUS
<1>2. /\ Len(s) = 2 /\ s[1] = "build" /\ s[2] = "include"
      /\ Len(t) = 1 /\ t[1] = x
      /\ Len(u) = 3 /\ u[1] = "build" /\ u[2] = "include" /\ u[3] = x
  OBVIOUS
<1> HIDE DEF S, s, t, u
<1>3. /\ s \o t \in Seq(S) /\ Len(s \o t) = 3
      /\ \A i \in 1 .. 3 : (s \o t)[i] = IF i <= 2 THEN s[i] ELSE t[i - 2]
  BY <1>1, <1>2, ConcatProperties
<1>4. ASSUME NEW i \in 1 .. 3 PROVE (s \o t)[i] = u[i]
  BY <1>2, <1>3
<1>5. s \o t = u
  BY <1>1, <1>2, <1>3, <1>4, SeqEqual
<1> QED
  BY <1>5 DEF s, t, u

LEMMA IfLists ==
  ASSUME NEW c, NEW x \in {"_subdir", "_order", "_alpha", "_what_you_use"}
  PROVE  Lists(If(c, <<x>>), 0) /\ Lists(If(c, <<>>), 0)
<1>1. Report(<<x>>) = [category |-> <<"build", "include", x>>, confidence |-> 4]
  BY IncludeCategory, Zenon DEF Report
<1>2. Report(<<>>) = [category |-> <<"build", "include">>, confidence |-> 4]
  BY DEF Report
<1>3. Placed(Report(<<x>>), 0)
  BY <1>1 DEF Placed, Categories, BracesError
<1>4. Placed(Report(<<>>), 0)
  BY <1>2 DEF Placed, Categories, BracesError
<1> QED
  BY <1>3, <1>4, ListsNone, ListsOne, Zenon DEF If

Subdir(h) == If(h.bare /\ ~h.third_party, <<"_subdir">>)
Again(n) ==
  FindHeader(include_state, IncludeOf(elided[n])) \/ Headers[IncludeOf(elided[n])].source
WithInclude(list, name, n) == SetLast(list, Append(Last(list), [header |-> name, line |-> n]))

LEMMA LanguageIs ==
  ASSUME NEW n
  PROVE  LET name == IncludeOf(elided[n])
             h == Headers[name]
             language == Language(n)
         IN /\ ~IsInclude(elided[n]) =>
                 /\ language.reports = <<>>
                 /\ language.st = IF \E d \in {"#if", "#else", "#endif"} : Starts(elided[n], d)
                                  THEN ResetSection(include_state, elided[n]) ELSE include_state
            /\ IsInclude(elided[n]) /\ Again(n) =>
                 language.st = include_state /\ language.reports = Subdir(h) \o If(TRUE, <<>>)
            /\ IsInclude(elided[n]) /\ ~Again(n) /\ ~Recorded(h) =>
                 language.st = include_state /\ language.reports = Subdir(h)
            /\ IsInclude(elided[n]) /\ ~Again(n) /\ Recorded(h) =>
                 /\ language.st.include_list = WithInclude(include_state.include_list, name, n)
                 /\ \E late, unsorted : language.reports =
                      Subdir(h) \o If(late, <<"_order">>) \o If(unsorted, <<"_alpha">>)
<1> DEFINE name == IncludeOf(elided[n])
           h == Headers[name]
           st == include_state
           bare == If(h.bare /\ ~h.third_party, <<"_subdir">>)
           late == OutOfOrder(st.section, ClassifyInclude(h))
           section == NextSection(st.section, ClassifyInclude(h))
           last == IF late \/ section # st.section THEN 0 ELSE st.last_header
           unsorted == last > h.rank /\ n > 1 /\ IsInclude(elided[n - 1])
           list == SetLast(st.include_list, Append(Last(st.include_list), [header |-> name, line |-> n]))
           new == [include_list |-> list, section |-> section, last_header |-> h.rank]
           reset == IF \E d \in {"#if", "#else", "#endif"} : Starts(elided[n], d)
                    THEN ResetSection(include_state, elided[n]) ELSE include_state
           again == If(TRUE, <<>>)
           told == bare \o If(late, <<"_order">>) \o If(unsorted, <<"_alpha">>)
           twice == FindHeader(st, name) \/ h.source
<1>1. CheckIncludeLine(include_state, elided, n) =
        IF twice THEN [st |-> st, reports |-> bare \o again]
        ELSE IF ~Recorded(h) THEN [st |-> st, reports |-> bare]
        ELSE [st |-> new, reports |-> told]
  BY Zenon DEF CheckIncludeLine
<1>2. Language(n) = IF IsInclude(elided[n]) THEN CheckIncludeLine(include_state, elided, n)
                    ELSE [reports |-> <<>>, st |-> reset]
  BY Zenon DEF Language
<1>3. Subdir(h) = bare /\ (Again(n) <=> twice) /\ WithInclude(st.include_list, name, n) = list
  BY Zenon DEF Subdir, Again, WithInclude
<1>4. new.include_list = list
  OBVIOUS
<1>5. \E a, b : told = bare \o If(a, <<"_order">>) \o If(b, <<"_alpha">>)
  BY Zenon
<1> HIDE DEF bare, again, list, new, told, twice, h, reset, name
<1>6. ~IsInclude(elided[n]) => Language(n).reports = <<>> /\ Language(n).st = reset
  BY <1>2
<1>7. IsInclude(elided[n]) /\ twice =>
        Language(n).st = st /\ Language(n).reports = bare \o again
  BY <1>1, <1>2
<1>8. IsInclude(elided[n]) /\ ~twice /\ ~Recorded(h) =>
        Language(n).st = st /\ Language(n).reports = bare
  BY <1>1, <1>2
<1>9. IsInclude(elided[n]) /\ ~twice /\ Recorded(h) =>
        Language(n).st = new /\ Language(n).reports = told
  BY <1>1, <1>2
<1> QED
  BY <1>3, <1>4, <1>5, <1>6, <1>7, <1>8, <1>9, Zenon DEF reset, name, h, again

LEMMA LanguageLists ==
  ASSUME NEW n
  PROVE  Lists(Language(n).reports, 0)
<1> DEFINE reports == Language(n).reports
           h == Headers[IncludeOf(elided[n])]
           Told3(late, unsorted) == Subdir(h) \o If(late, <<"_order">>) \o If(unsorted, <<"_alpha">>)
<1>1. \/ reports = <<>>
      \/ reports = Subdir(h) \o If(TRUE, <<>>)
      \/ reports = Subdir(h)
      \/ \E late, unsorted : reports = Told3(late, unsorted)
  BY LanguageIs, Zenon
<1>2. Lists(Subdir(h), 0)
  BY IfLists DEF Subdir
<1>3. Lists(Subdir(h) \o If(TRUE, <<>>), 0)
  BY <1>2, IfLists, ListsConcat
<1>4. \A late, unsorted : Lists(Told3(late, unsorted), 0)
  BY <1>2, IfLists, ListsConcat
<1> HIDE DEF reports, h, Told3
<1>5. Lists(reports, 0)
  BY <1>1, <1>2, <1>3, <1>4, ListsNone, Zenon
<1> QED
  BY <1>5 DEF reports

\* What the end of the file reports.
LEMMA CompletedLists ==
  ASSUME NEW stack \in Seq(Blocks)
  PROVE  Lists(CompletedBlocks(stack), 0)
<1> DEFINE open == {k \in DOMAIN stack : stack[k].kind \in {"class", "namespace"}}
           order == SetToSortSeq(open, <)
           N == Cardinality(open)
           At(k) == [line |-> stack[order[k]].starting_linenum, confidence |-> 5,
                     category |-> IF stack[order[k]].kind = "class" THEN <<"build", "class">>
                                  ELSE <<"build", "namespaces">>]
           E == {At(k) : k \in 1 .. N}
           s == [k \in 1 .. N |-> At(k)]
<1>1. N \in Nat
  <2>1. open \in SUBSET (1 .. Len(stack)) /\ Len(stack) \in Nat
    BY LenProperties
  <2>2. IsFiniteSet(1 .. Len(stack))
    BY <2>1, FS_Interval
  <2> HIDE DEF open
  <2> QED
    BY <2>1, <2>2, FS_Subset, FS_CardinalityType
<1>2. CompletedBlocks(stack) = s
  BY Zenon DEF CompletedBlocks
<1> HIDE DEF order, N
<1>3. \A k \in 1 .. N : Placed(At(k), 0)
  BY DEF Placed, Categories, BracesError
<1> HIDE DEF At
<1>4. s \in Seq(E) /\ DOMAIN s = 1 .. N /\ \A k \in 1 .. N : Placed(s[k], 0)
  BY <1>1, <1>3
<1> QED
  BY <1>2, <1>4, Zenon DEF Lists

LEMMA UsesFinite ==
  ASSUME NEW X, NEW line \in Seq(X)
  PROVE  IsFiniteSet(Uses(line))
<1> DEFINE J == {j \in DOMAIN line : line[j] = "use"}
           T == {line[k + 1] : k \in J}
           f == [k \in J |-> line[k + 1]]
<1>1. J \in SUBSET (1 .. Len(line)) /\ Len(line) \in Nat
  BY LenProperties
<1>2. IsFiniteSet(1 .. Len(line))
  BY <1>1, FS_Interval
<1>3. Uses(line) = {} \/ Uses(line) = T
  BY Zenon DEF Uses
<1> HIDE DEF J
<1>4. IsFiniteSet(J)
  BY <1>1, <1>2, FS_Subset
<1>5. f \in Surjection(J, T)
  BY DEF Surjection
<1>6. IsFiniteSet(T)
  <2> HIDE DEF f, T
  <2> QED
    BY <1>4, <1>5, FS_Surjection
<1> HIDE DEF T
<1> QED
  BY <1>3, <1>6, FS_EmptySet

LEMMA RequiredFinite ==
  ASSUME NEW X, NEW text \in Seq(Seq(X))
  PROVE  IsFiniteSet(Required(text))
<1> DEFINE N == Len(text)
           S == {Uses(text[n]) : n \in 1 .. N}
           f == [n \in 1 .. N |-> Uses(text[n])]
<1>1. N \in Nat /\ DOMAIN text = 1 .. N /\ \A n \in 1 .. N : text[n] \in Seq(X)
  BY LenProperties, ElementOfSeq
<1>2. Required(text) = UNION S
  BY <1>1, Zenon DEF Required
<1> HIDE DEF N
<1>3. IsFiniteSet(1 .. N)
  BY <1>1, FS_Interval
<1>4. f \in Surjection(1 .. N, S)
  BY DEF Surjection
<1>5. IsFiniteSet(S)
  <2> HIDE DEF f, S
  <2> QED
    BY <1>3, <1>4, FS_Surjection
<1>6. ASSUME NEW T \in S PROVE IsFiniteSet(T)
  BY <1>1, UsesFinite
<1> HIDE DEF S
<1> QED
  BY <1>2, <1>5, <1>6, FS_UNION

\* The headers that are missing are asked for on the lines of their last uses.
MissingOn(st, text, source, n) ==
  {h \in Missing(st, text, source) : LastUse(text, h) = n}

LEMMA WhatIs ==
  ASSUME NEW X, NEW text \in Seq(Seq(X)), NEW st, NEW source
  PROVE  /\ \E E : CheckForIncludeWhatYouUse(st, text, source) \in Seq(E)
         /\ \A r : r \in Range(CheckForIncludeWhatYouUse(st, text, source)) <=>
              \E n \in DOMAIN text : MissingOn(st, text, source, n) # {} /\ r = WhatReport(n)
<1> DEFINE N == Len(text)
           S == {WhatReport(n) : n \in 1 .. N}
           C(n) == Cardinality(MissingOn(st, text, source, n))
           On1(n) == [k \in 1 .. C(n) |-> WhatReport(n)]
           all == [n \in 1 .. N |-> On1(n)]
<1>1. N \in Nat /\ DOMAIN text = 1 .. N
  BY LenProperties
<1>2. CheckForIncludeWhatYouUse(st, text, source) = FlattenSeq(all)
  BY <1>1, Zenon DEF CheckForIncludeWhatYouUse, MissingOn
<1>3. ASSUME NEW n
      PROVE  C(n) \in Nat /\ (C(n) = 0 <=> MissingOn(st, text, source, n) = {})
  <2> DEFINE M == MissingOn(st, text, source, n)
  <2>1. M \in SUBSET Required(text)
    BY DEF MissingOn, Missing
  <2>2. IsFiniteSet(Required(text))
    BY RequiredFinite
  <2> HIDE DEF M
  <2>3. IsFiniteSet(M)
    BY <2>1, <2>2, FS_Subset
  <2>4. Cardinality(M) \in Nat /\ (Cardinality(M) = 0 <=> M = {})
    BY <2>3, FS_CardinalityType, FS_EmptySet
  <2> QED
    BY <2>4 DEF M
<1> HIDE DEF C, N
<1>4. ASSUME NEW n \in 1 .. N
      PROVE  /\ On1(n) \in Seq(S)
             /\ Range(On1(n)) = IF MissingOn(st, text, source, n) # {} THEN {WhatReport(n)} ELSE {}
  <2>1. C(n) \in Nat /\ WhatReport(n) \in S
    BY <1>3
  <2>2. DOMAIN On1(n) = 1 .. C(n) /\ \A k \in 1 .. C(n) : On1(n)[k] = WhatReport(n)
    OBVIOUS
  <2>3. C(n) # 0 => 1 \in 1 .. C(n)
    BY <2>1
  <2>4. On1(n) \in Seq(S)
    <3> HIDE DEF S
    <3> QED
      BY <2>1
  <2> HIDE DEF S, On1
  <2>5. CASE C(n) = 0
    BY <1>3, <2>2, <2>4, <2>5 DEF Range
  <2>6. CASE C(n) # 0
    BY <1>3, <2>2, <2>3, <2>4, <2>6 DEF Range
  <2> QED
    BY <2>5, <2>6
<1> HIDE DEF S, On1
<1>5. all \in Seq(Seq(S)) /\ DOMAIN all = 1 .. N /\ \A n \in 1 .. N : all[n] = On1(n)
  BY <1>1, <1>4
<1> HIDE DEF all
<1>6. /\ FlattenSeq(all) \in Seq(S)
      /\ Range(FlattenSeq(all)) = UNION {Range(all[n]) : n \in DOMAIN all}
  BY <1>5, FlattenIs
<1>7. ASSUME NEW r
      PROVE  r \in Range(FlattenSeq(all)) <=>
               \E n \in 1 .. N : MissingOn(st, text, source, n) # {} /\ r = WhatReport(n)
  <2>1. r \in Range(FlattenSeq(all)) <=> \E n \in 1 .. N : r \in Range(On1(n))
    BY <1>5, <1>6
  <2>2. \A n \in 1 .. N : r \in Range(On1(n)) <=>
                           MissingOn(st, text, source, n) # {} /\ r = WhatReport(n)
    BY <1>4
  <2> QED
    BY <2>1, <2>2, Zenon
<1> QED
  BY <1>1, <1>2, <1>6, <1>7, Zenon

LEMMA WhatCategory ==
  \A n : WhatReport(n) = [line |-> n, category |-> <<"build", "include", "_what_you_use">>,
                          confidence |-> 4]
<1>1. Report(<<"_what_you_use">>) = [category |-> <<"build", "include", "_what_you_use">>, confidence |-> 4]
  BY IncludeCategory, Zenon DEF Report
<1> QED
  BY <1>1 DEF WhatReport

LEMMA WhatLists ==
  ASSUME NEW X, NEW text \in Seq(Seq(X)), NEW st, NEW source
  PROVE  Lists(CheckForIncludeWhatYouUse(st, text, source), 0)
<1> DEFINE s == CheckForIncludeWhatYouUse(st, text, source)
<1>1. \E E : s \in Seq(E)
  BY WhatIs
<1>2. ASSUME NEW r \in Range(s) PROVE \E n : r = WhatReport(n)
  BY WhatIs
<1>3. \A n : Placed(WhatReport(n), 0)
  BY WhatCategory DEF Placed, Categories, BracesError
<1> HIDE DEF s
<1>4. \A k \in DOMAIN s : s[k] \in Range(s)
  BY DEF Range
<1>5. Lists(s, 0)
  BY <1>1, <1>2, <1>3, <1>4, Zenon DEF Lists
<1> QED
  BY <1>5 DEF s

LEMMA HeaderLists ==
  ASSUME NEW st
  PROVE  Lists(CheckHeaderFileIncluded(st), 0)
<1> DEFINE all == FlattenSeq(st.include_list)
           r == [category |-> <<"build", "include">>, confidence |-> 5,
                 line |-> IF all = <<>> THEN 0 ELSE all[1].line]
<1>1. CheckHeaderFileIncluded(st) = <<>> \/ CheckHeaderFileIncluded(st) = <<r>>
  BY Zenon DEF CheckHeaderFileIncluded
<1> HIDE DEF all
<1>2. Placed(r, 0)
  BY DEF Placed, Categories, BracesError
<1> HIDE DEF r
<1> QED
  BY <1>1, <1>2, ListsNone, ListsOne, Zenon

------------------------------------------------------------------------------
\* What is printed.

\* What NOLINT comments silence of the reports of a step.
Covered(supp, r) == <<r.category, r.line>> \in supp \/ <<All, r.line>> \in supp

\* The filters let everything pass: the last one lets in what the first one that
\* matches it keeps out.
LEMMA NothingFiltered ==
  ASSUME filters = AddFilters(DefaultFilters, CommandLine), NEW category
  PROVE  ~Filtered(filters, category)
<1> DEFINE alpha == <<"build", "include", "_alpha">>
           matching == {k \in DOMAIN filters : IsPrefix(filters[k].of, category)}
           last == CHOOSE k \in matching : \A l \in matching : l <= k
<1>1. /\ DOMAIN filters = 1 .. 2 /\ filters[1].of = alpha /\ filters[2].of = alpha
      /\ filters[2].sign = "+"
  BY DEF AddFilters, DefaultFilters, CommandLine
<1>2. Filtered(filters, category) <=> matching # {} /\ filters[last].sign = "-"
  BY Zenon DEF Filtered
<1>3. CASE matching = {}
  BY <1>2, <1>3
<1>4. CASE matching # {}
  <2>1. 2 \in matching /\ \A l \in matching : l <= 2
    BY <1>1, <1>4
  <2>2. last \in matching /\ \A l \in matching : l <= last
    <3> HIDE DEF matching
    <3> QED
      BY <2>1, Zenon
  <2>3. matching \subseteq Int
    BY <1>1
  <2>4. last = 2
    <3> HIDE DEF matching, last
    <3> QED
      BY <2>1, <2>2, <2>3
  <2> QED
    BY <1>1, <1>2, <2>4
<1> QED
  BY <1>3, <1>4

Settings ==
  /\ verbose_level = 0 /\ counting = "total" /\ suppressed_categories = {}
  /\ filters = AddFilters(DefaultFilters, CommandLine)

LEMMA PrintsIs ==
  ASSUME Settings, NEW supp, NEW r, NEW end, Placed(r, end)
  PROVE  ShouldPrintError(supp, r) <=> ~Covered(supp, r)
<1>1. r.confidence >= verbose_level
  BY DEF Placed, Settings
<1>2. ~Filtered(filters, r.category)
  BY NothingFiltered DEF Settings
<1>3. r.category \notin suppressed_categories
  BY DEF Settings
<1> QED
  BY <1>1, <1>2, <1>3, Zenon DEF ShouldPrintError, IsErrorSuppressedByNolint, Covered

LEMMA AppendRange ==
  ASSUME NEW E, NEW s \in Seq(E), NEW r \in E
  PROVE  Range(Append(s, r)) = Range(s) \cup {r}
<1> DEFINE t == Append(s, r)
<1>1. Len(s) \in Nat /\ DOMAIN s = 1 .. Len(s) /\ DOMAIN t = 1 .. Len(s) + 1
  BY AppendProperties, LenProperties
<1>2. t[Len(s) + 1] = r /\ \A k \in 1 .. Len(s) : t[k] = s[k]
  BY AppendProperties
<1>3. \A k \in 1 .. Len(s) + 1 : k \in 1 .. Len(s) \/ k = Len(s) + 1
  BY <1>1
<1>4. Len(s) + 1 \in 1 .. Len(s) + 1 /\ 1 .. Len(s) \subseteq 1 .. Len(s) + 1
  BY <1>1
<1> HIDE DEF t
<1>5. Range(t) = Range(s) \cup {r}
  BY <1>1, <1>2, <1>3, <1>4 DEF Range
<1> QED
  BY <1>5 DEF t

\* The reports of a step that are printed are those its comments do not cover.
Passing(supp, reports) ==
  {reports[k] : k \in {l \in DOMAIN reports : ~Covered(supp, reports[l])}}

LEMMA ErrorsPrint ==
  ASSUME Settings, NEW supp, NEW end, NEW reports, Lists(reports, end),
         NEW X, shown \in Seq(X), error_count \in Nat,
         NEW E, X \subseteq E, \A k \in DOMAIN reports : reports[k] \in E
  PROVE  /\ Errors(supp, reports).shown \in Seq(E) /\ Errors(supp, reports).count \in Nat
         /\ Range(Errors(supp, reports).shown) = Range(shown) \cup Passing(supp, reports)
<1> DEFINE A == [shown : Seq(E), count : Nat, by : {errors_by_category}]
           n == Len(reports)
           After(v, r) == [shown |-> Append(v.shown, r), count |-> v.count + 1,
                           by |-> IncrementErrorCount(v.by, r.category)]
           step == [i \in 1 .. n |-> [v \in A |->
                      IF ShouldPrintError(supp, reports[i]) THEN After(v, reports[i]) ELSE v]]
           start == [shown |-> shown, count |-> error_count, by |-> errors_by_category]
           st[i \in 0 .. n] ==
             IF i = 0 THEN [shown |-> shown, count |-> error_count, by |-> errors_by_category]
             ELSE IF ShouldPrintError(supp, reports[i])
             THEN [shown |-> Append(st[i - 1].shown, reports[i]), count |-> st[i - 1].count + 1,
                   by |-> IncrementErrorCount(st[i - 1].by, reports[i].category)]
             ELSE st[i - 1]
<1>1. n \in Nat /\ DOMAIN reports = 1 .. n /\ \A i \in 1 .. n : reports[i] \in E
  <2>1. PICK S : reports \in Seq(S)
    BY Zenon DEF Lists
  <2> QED
    BY <2>1, LenProperties
<1>2. start \in A
  BY SeqMonotonic
<1>3. ASSUME NEW v \in A, NEW r \in E PROVE After(v, r) \in A
  <2>1. Append(v.shown, r) \in Seq(E)
    BY AppendProperties
  <2>2. IncrementErrorCount(v.by, r.category) = v.by
    BY DEF IncrementErrorCount, Settings
  <2> QED
    BY <2>1, <2>2
<1>4. ASSUME NEW i \in 1 .. n, NEW v \in A PROVE step[i][v] \in A
  <2>1. After(v, reports[i]) \in A
    <3> HIDE DEF After, A
    <3> QED
      BY <1>1, <1>3
  <2>2. step[i][v] = IF ShouldPrintError(supp, reports[i]) THEN After(v, reports[i]) ELSE v
    <3> HIDE DEF After, A
    <3> QED
      OBVIOUS
  <2> HIDE DEF step, A, After
  <2> QED
    BY <2>1, <2>2
<1>5. PICK g : Recurs(g, step, start, n, A)
  <2> HIDE DEF step, A, start, n
  <2> QED
    BY <1>1, <1>2, <1>4, FiniteRecursion DEF Recurrence
<1>6. g = [i \in 0 .. n |->
             IF i = 0 THEN [shown |-> shown, count |-> error_count, by |-> errors_by_category]
             ELSE IF ShouldPrintError(supp, reports[i])
             THEN [shown |-> Append(g[i - 1].shown, reports[i]), count |-> g[i - 1].count + 1,
                   by |-> IncrementErrorCount(g[i - 1].by, reports[i].category)]
             ELSE g[i - 1]]
  <2>1. g = [i \in 0 .. n |-> g[i]]
    BY <1>5 DEF Recurs
  <2>2. ASSUME NEW i \in 0 .. n
        PROVE  g[i] = IF i = 0 THEN start
                      ELSE IF ShouldPrintError(supp, reports[i]) THEN After(g[i - 1], reports[i])
                      ELSE g[i - 1]
    <3>1. CASE i = 0
      BY <1>5, <3>1 DEF Recurs
    <3>2. CASE i # 0
      <4>1. i \in 1 .. n /\ i - 1 \in 0 .. n
        BY <1>1, <3>2
      <4>2. g[i] = step[i][g[i - 1]] /\ g[i - 1] \in A
        <5> HIDE DEF step, A, start
        <5> QED
          BY <1>5, <4>1 DEF Recurs
      <4>3. step[i][g[i - 1]] = IF ShouldPrintError(supp, reports[i])
                                THEN After(g[i - 1], reports[i]) ELSE g[i - 1]
        <5> HIDE DEF A, After
        <5> QED
          BY <4>1, <4>2
      <4> HIDE DEF step, After, start
      <4> QED
        BY <3>2, <4>2, <4>3
    <3> QED
      BY <3>1, <3>2
  <2> QED
    BY <2>1, <2>2, Zenon
<1>7. st = [i \in 0 .. n |->
              IF i = 0 THEN start
              ELSE IF ShouldPrintError(supp, reports[i]) THEN After(st[i - 1], reports[i])
              ELSE st[i - 1]]
  BY <1>6, Zenon
<1>8. Errors(supp, reports) = st[n]
  BY Zenon DEF Errors
<1> HIDE DEF st
<1>9. st[0] = start /\ \A i \in 1 .. n :
        st[i] = IF ShouldPrintError(supp, reports[i]) THEN After(st[i - 1], reports[i]) ELSE st[i - 1]
  <2>1. 0 \in 0 .. n /\ \A i \in 1 .. n : i \in 0 .. n /\ i # 0
    BY <1>1
  <2> HIDE DEF start, After, n
  <2> QED
    BY <1>7, <2>1
<1> HIDE DEF start, After, n
<1>10. \A i \in 1 .. n : ShouldPrintError(supp, reports[i]) <=> ~Covered(supp, reports[i])
  BY <1>1, PrintsIs DEF Lists
<1> DEFINE Ran(i) == {reports[k] : k \in {l \in 1 .. i : ~Covered(supp, reports[l])}}
           Fine(i) == st[i] \in A /\ Range(st[i].shown) = Range(shown) \cup Ran(i)
           T == {i \in Nat : i <= n => Fine(i)}
<1>11. 0 \in T
  <2>1. Ran(0) = {}
    OBVIOUS
  <2>2. st[0] = start /\ start.shown = shown
    BY <1>9 DEF start
  <2>3. Fine(0)
    <3> HIDE DEF A, Ran
    <3> QED
      BY <1>2, <2>1, <2>2
  <2> HIDE DEF Fine
  <2> QED
    BY <2>3
<1>12. ASSUME NEW i \in Nat, i \in T PROVE i + 1 \in T
  <2> SUFFICES ASSUME i + 1 <= n PROVE Fine(i + 1)
    <3> HIDE DEF Fine
    <3> QED
      OBVIOUS
  <2>1. i <= n /\ i + 1 \in 1 .. n /\ (i + 1) - 1 = i
    BY <1>1
  <2>2. Fine(i)
    BY <1>12, <2>1
  <2>3. \A k \in 1 .. i + 1 : k \in 1 .. i \/ k = i + 1
    OBVIOUS
  <2>4. 1 .. i \subseteq 1 .. i + 1 /\ i + 1 \in 1 .. i + 1
    OBVIOUS
  <2>5. CASE ~Covered(supp, reports[i + 1])
    <3>1. st[i + 1] = After(st[i], reports[i + 1])
      BY <1>9, <1>10, <2>1, <2>5
    <3>2. st[i + 1] \in A
      <4> HIDE DEF A
      <4> QED
        BY <1>1, <1>3, <2>1, <2>2, <3>1
    <3>3. st[i].shown \in Seq(E) /\ st[i + 1].shown = Append(st[i].shown, reports[i + 1])
      BY <2>2, <3>1 DEF After
    <3>4. Range(Append(st[i].shown, reports[i + 1])) = Range(st[i].shown) \cup {reports[i + 1]}
      BY <1>1, <2>1, <3>3, AppendRange
    <3>5. Ran(i + 1) = Ran(i) \cup {reports[i + 1]}
      BY <2>3, <2>4, <2>5
    <3> HIDE DEF Ran, A
    <3> QED
      BY <2>2, <3>2, <3>3, <3>4, <3>5
  <2>6. CASE Covered(supp, reports[i + 1])
    <3>1. st[i + 1] = st[i]
      BY <1>9, <1>10, <2>1, <2>6
    <3>2. Ran(i + 1) = Ran(i)
      BY <2>3, <2>4, <2>6
    <3> HIDE DEF Ran, A
    <3> QED
      BY <2>2, <3>1, <3>2
  <2> QED
    BY <2>5, <2>6
<1>13. Fine(n)
  <2>1. Nat \subseteq T
    <3> HIDE DEF T
    <3> QED
      BY <1>11, <1>12, SetInduction
  <2> HIDE DEF Fine
  <2> QED
    BY <1>1, <2>1
<1>14. Ran(n) = Passing(supp, reports)
  BY <1>1 DEF Passing
<1>15. \A v \in A : v.shown \in Seq(E) /\ v.count \in Nat
  OBVIOUS
<1> HIDE DEF A, Ran
<1> QED
  BY <1>8, <1>13, <1>14, <1>15

\* An error's history: what was reported stays, and what is printed of a step
\* are the reports its comments do not cover.
LEMMA ReportsKept ==
  ASSUME TypeOK, NEW supp, NEW end, NEW reports, Lists(reports, end), Reported(supp, reports)
  PROVE  /\ shown' \in Seq(Reports') /\ error_count' \in Nat
         /\ Range(shown') = Range(shown) \cup Passing(supp, reports)
<1> DEFINE st == Errors(supp, reports)
<1>1. /\ shown' = st.shown /\ error_count' = st.count
      /\ found' = found \cup {[report |-> reports[k], at |-> linenum] : k \in DOMAIN reports}
  BY Zenon DEF Reported, Error
<1>2. Settings /\ shown \in Seq(Reports) /\ error_count \in Nat
  BY DEF Settings, TypeOK
<1>3. Reports \subseteq Reports' /\ \A k \in DOMAIN reports : reports[k] \in Reports'
  <2>1. Reports' = {e.report : e \in found'} /\ Reports = {e.report : e \in found}
    BY DEF Reports
  <2>2. \A k \in DOMAIN reports : [report |-> reports[k], at |-> linenum] \in found'
    BY <1>1
  <2>3. \A k \in DOMAIN reports : [report |-> reports[k], at |-> linenum].report = reports[k]
    OBVIOUS
  <2>4. found \subseteq found'
    BY <1>1
  <2>5. Reports \subseteq Reports'
    BY <2>1, <2>4, Zenon
  <2>6. \A k \in DOMAIN reports : reports[k] \in Reports'
    BY <2>1, <2>2, <2>3, Zenon
  <2> QED
    BY <2>5, <2>6
<1> QED
  BY <1>1, <1>2, <1>3, ErrorsPrint

------------------------------------------------------------------------------
\* What is silenced.

\* The line that a comment on line n is for, and the reports it is about.
LineOf(c, n) == n + (IF c.next THEN 1 ELSE 0)
About(c, n, r) == r.line = LineOf(c, n) /\ c.of \in {All, r.category}

LEMMA SuppressedIs ==
  ASSUME NEW N, NEW category, category \in Categories \cup {All}, NEW line
  PROVE  <<category, line>> \in Suppressed(N) <=>
           \E n \in N \cap DOMAIN raw_lines : \E c \in raw_lines[n].comments :
             category = c.of /\ line = LineOf(c, n)
<1>1. <<category, line>> \in Suppressed(N) <=>
        \E n \in N : \E c \in Comments(n) : <<category, line>> \in ParseNolintSuppressions(c, n)
  BY DEF Suppressed
<1>2. \A n, c : <<category, line>> \in ParseNolintSuppressions(c, n) <=>
                  category = c.of /\ line = LineOf(c, n)
  <2> TAKE n, c
  <2>1. CASE c.of \in Categories \cup {All}
    <3>1. ParseNolintSuppressions(c, n) = {<<c.of, LineOf(c, n)>>}
      BY <2>1, Zenon DEF ParseNolintSuppressions, LineOf
    <3> QED
      BY <3>1
  <2>2. CASE c.of \notin Categories \cup {All}
    <3>1. ParseNolintSuppressions(c, n) = {}
      BY <2>2, Zenon DEF ParseNolintSuppressions
    <3> QED
      BY <2>2, <3>1
  <2> QED
    BY <2>1, <2>2
<1>3. \A n \in N : n \notin DOMAIN raw_lines => Comments(n) = {}
  BY DEF Comments
<1>4. \A n \in N \cap DOMAIN raw_lines : Comments(n) = raw_lines[n].comments
  BY DEF Comments
<1> QED
  BY <1>1, <1>2, <1>3, <1>4

\* What the comments on some lines cover is what they are about.
LEMMA CoveredIs ==
  ASSUME NEW N, NEW r, NEW end, Placed(r, end)
  PROVE  Covered(Suppressed(N), r) <=>
           \E n \in N \cap DOMAIN raw_lines : \E c \in raw_lines[n].comments : About(c, n, r)
<1> DEFINE on == r.line
           C(category) ==
             \E n \in N \cap DOMAIN raw_lines : \E c \in raw_lines[n].comments :
               category = c.of /\ on = LineOf(c, n)
<1>1. r.category \in Categories \cup {All} /\ All \in Categories \cup {All}
  BY DEF Placed
<1>2. \A category \in Categories \cup {All} : <<category, on>> \in Suppressed(N) <=> C(category)
  <2> HIDE DEF on
  <2> TAKE category \in Categories \cup {All}
  <2> QED
    BY SuppressedIs
<1>3. Covered(Suppressed(N), r) <=> C(r.category) \/ C(All)
  <2>1. Covered(Suppressed(N), r) <=>
          <<r.category, on>> \in Suppressed(N) \/ <<All, on>> \in Suppressed(N)
    BY Zenon DEF Covered
  <2> HIDE DEF on, C
  <2> QED
    BY <1>1, <1>2, <2>1
<1> QED
  BY <1>3, Zenon DEF About

LEMMA SilencedIs ==
  ASSUME NEW r, NEW end, Placed(r, end)
  PROVE  Silenced(r) <=> Covered(Suppressed(DOMAIN raw_lines), r)
<1>1. Covered(Suppressed(DOMAIN raw_lines), r) <=>
        \E n \in DOMAIN raw_lines : \E c \in raw_lines[n].comments : About(c, n, r)
  BY CoveredIs
<1> QED
  BY <1>1, Zenon DEF Silenced, About, LineOf

LEMMA SuppressedInside ==
  ASSUME NEW N
  PROVE  Suppressed(N) \subseteq Suppressed(DOMAIN raw_lines)
BY DEF Suppressed, Comments


LEMMA SuppressedGrows ==
  ASSUME NEW M, NEW N, M \subseteq N
  PROVE  Suppressed(M) \subseteq Suppressed(N)
BY DEF Suppressed

\* The comments of a step are those that were parsed before it and those of some
\* lines.  A report whose own comments are among them is printed when it is not
\* silenced, and only then.
LEMMA CoveredWhenSilenced ==
  ASSUME CommentsParsed, NEW N, NEW r, NEW end, Placed(r, end),
         \A m \in DOMAIN raw_lines : \A c \in raw_lines[m].comments :
           About(c, m, r) => m \in N \/ m < linenum
  PROVE  Covered(suppressions \cup Suppressed(N), r) <=> Silenced(r)
<1> DEFINE supp == suppressions \cup Suppressed(N)
<1>1. ASSUME Covered(supp, r) PROVE Silenced(r)
  <2>1. supp \subseteq Suppressed(DOMAIN raw_lines)
    BY SuppressedInside DEF CommentsParsed
  <2>2. Covered(Suppressed(DOMAIN raw_lines), r)
    <3> HIDE DEF supp
    <3> QED
      BY <1>1, <2>1 DEF Covered
  <2> QED
    BY <2>2, SilencedIs
<1>2. ASSUME Silenced(r) PROVE Covered(supp, r)
  <2>1. PICK m \in DOMAIN raw_lines : \E c \in raw_lines[m].comments : About(c, m, r)
    BY <1>2, Zenon DEF Silenced, About, LineOf
  <2>2. Covered(Suppressed({m}), r)
    <3> DEFINE M == {m}
    <3>1. m \in M \cap DOMAIN raw_lines
      OBVIOUS
    <3> HIDE DEF M
    <3>2. Covered(Suppressed(M), r)
      BY <2>1, <3>1, CoveredIs, Zenon
    <3> QED
      BY <3>2 DEF M
  <2>3. Suppressed({m}) \subseteq supp
    <3>1. CASE m \in N
      <4>1. {m} \subseteq N
        BY <3>1
      <4> QED
        BY <4>1, SuppressedGrows
    <3>2. CASE m < linenum
      BY <3>2 DEF CommentsParsed
    <3> QED
      BY <2>1, <3>1, <3>2
  <2> QED
    BY <2>2, <2>3 DEF Covered
<1> QED
  BY <1>1, <1>2

\* One step's reports, when each of them is printed unless it is silenced, or is
\* told of too early.
LEMMA DueStep ==
  ASSUME TypeOK, PrintedIsDue, NEW supp, NEW end, NEW reports, Lists(reports, end),
         Reported(supp, reports), raw_lines' = raw_lines,
         \A k \in DOMAIN reports :
           /\ Covered(supp, reports[k]) => Silenced(reports[k])
           /\ ~Covered(supp, reports[k]) =>
                ~Silenced(reports[k]) \/ Early([report |-> reports[k], at |-> linenum])
  PROVE  PrintedIsDue'
<1> DEFINE new == {[report |-> reports[k], at |-> linenum] : k \in DOMAIN reports}
<1>1. Range(shown') = Range(shown) \cup Passing(supp, reports)
  BY ReportsKept
<1>2. found' = found \cup new
  BY Zenon DEF Reported
<1>3. \A r : Silenced(r)' <=> Silenced(r)
  BY DEF Silenced
<1>4. \A r : /\ Printed(r) <=> r \in Range(shown)
             /\ Printed(r)' <=> r \in Range(shown')
  BY DEF Printed, Range
<1>5. \A k \in DOMAIN reports : [report |-> reports[k], at |-> linenum] \in new
  OBVIOUS
<1>6. ASSUME NEW e \in new
      PROVE  \E k \in DOMAIN reports : e = [report |-> reports[k], at |-> linenum] /\ e.report = reports[k]
  OBVIOUS
<1> HIDE DEF new
<1>7. ASSUME NEW r \in Range(shown')
      PROVE  \E e \in found' : e.report = r /\ (Early(e) \/ ~Silenced(e.report))
  <2>1. CASE r \in Range(shown)
    <3>1. PICK k \in DOMAIN shown : r = shown[k]
      BY <2>1 DEF Range
    <3> QED
      BY <1>2, <3>1, Zenon DEF PrintedIsDue
  <2>2. CASE r \in Passing(supp, reports)
    <3>1. PICK k \in DOMAIN reports : r = reports[k] /\ ~Covered(supp, reports[k])
      BY <2>2 DEF Passing
    <3> DEFINE e == [report |-> reports[k], at |-> linenum]
    <3>2. e \in found' /\ e.report = r
      BY <1>2, <1>5, <3>1
    <3>3. Early(e) \/ ~Silenced(e.report)
      BY <3>1, <3>2
    <3> HIDE DEF e
    <3> QED
      BY <3>2, <3>3
  <2> QED
    BY <1>1, <2>1, <2>2
<1>8. ASSUME NEW e \in found'
      PROVE  Silenced(e.report) \/ e.report \in Range(shown')
  <2>1. CASE e \in found
    BY <1>1, <1>4, <2>1 DEF PrintedIsDue
  <2>2. CASE e \in new
    <3>1. PICK k \in DOMAIN reports : e.report = reports[k]
      BY <1>6, <2>2
    <3>2. ~Covered(supp, reports[k]) => reports[k] \in Passing(supp, reports)
      BY DEF Passing
    <3> QED
      BY <1>1, <3>1, <3>2
  <2> QED
    BY <1>2, <2>1, <2>2
<1>9. \A k \in DOMAIN shown' :
        \E e \in found' : e.report = shown'[k] /\ (Early(e) \/ ~Silenced(e.report)')
  <2> TAKE k \in DOMAIN shown'
  <2>1. shown'[k] \in Range(shown')
    BY DEF Range
  <2> QED
    BY <1>3, <1>7, <2>1
<1>10. \A e \in found' : Silenced(e.report)' \/ Printed(e.report)'
  BY <1>3, <1>4, <1>8
<1> QED
  BY <1>9, <1>10 DEF PrintedIsDue, Early


------------------------------------------------------------------------------
\* The steps.

\* What concerns the reports.
ReportsInv == TypeOK /\ CommentsParsed /\ PrintedIsDue

\* The line at work, whatever of the checks report on it: end is the line of its
\* trailing semicolon, or 0.
LEMMA LineStep ==
  ASSUME ReportsInv, pc = "lint", linenum <= Len(elided), UNCHANGED <<clean_lines, pc, file>>,
         UNCHANGED <<settings, filters, suppressed_categories>>, linenum' = linenum + 1,
         nesting_state' = Update(nesting_state, elided, linenum),
         NEW end, NEW reports, Lists(reports, end),
         NEW supp, supp = suppressions \cup Suppressed({linenum} \cup Ahead(end)),
         suppressions' = supp, Reported(supp, reports)
  PROVE  ReportsInv'
<1> DEFINE N == {linenum} \cup Ahead(end)
           L == Len(elided)
<1>0. TypeOK /\ CommentsParsed /\ PrintedIsDue
  BY DEF ReportsInv
<1>1. L \in Nat /\ DOMAIN elided = 1 .. L /\ DOMAIN raw_lines = 1 .. L /\ linenum \in 1 .. L
  BY <1>0, LenProperties DEF TypeOK
<1>2. raw_lines' = raw_lines /\ elided' = elided
  BY DEF clean_lines
<1>3. TypeOK'
  <2>1. shown' \in Seq(Reports') /\ error_count' \in Nat
    BY <1>0, ReportsKept
  <2>2. nesting_state' \in [stack : Seq(Blocks), pp_stack : Seq(Conditionals)]
    <3>1. nesting_state \in Nestings /\ elided \in Seq(Seq(Tokens)) /\ linenum \in 1 .. Len(elided)
      BY <1>0, <1>1 DEF TypeOK, Nestings
    <3>2. Update(nesting_state, elided, linenum) \in Nestings
      BY <3>1, UpdateType
    <3> QED
      BY <3>2, Zenon DEF Nestings
  <2>3. linenum' \in 1 .. Len(elided') + 1
    BY <1>1, <1>2
  <2>4. /\ file \in File /\ elided \in Seq(Seq(Tokens)) /\ DOMAIN raw_lines = DOMAIN elided
        /\ verbose_level = 0 /\ counting = "total" /\ suppressed_categories = {}
        /\ filters = AddFilters(DefaultFilters, CommandLine)
    BY <1>0 DEF TypeOK
  <2>5. pc' = "lint" /\ file' = file
    OBVIOUS
  <2>6. /\ verbose_level' = verbose_level /\ counting' = counting /\ filters' = filters
        /\ suppressed_categories' = suppressed_categories
    BY DEF settings
  <2> QED
    BY <1>2, <2>1, <2>2, <2>3, <2>4, <2>5, <2>6 DEF TypeOK
<1>4. CommentsParsed'
  <2>1. \A M : Suppressed(M)' = Suppressed(M)
    BY <1>2 DEF Suppressed, Comments
  <2>2. suppressions' \subseteq Suppressed(DOMAIN raw_lines)
    BY <1>0, SuppressedInside DEF CommentsParsed
  <2>3. ASSUME NEW n \in DOMAIN raw_lines, n < linenum'
        PROVE  Suppressed({n}) \subseteq suppressions'
    <3>1. CASE n < linenum
      BY <1>0, <3>1 DEF CommentsParsed
    <3>2. CASE n = linenum
      <4>1. {n} \subseteq N
        BY <3>2
      <4>2. Suppressed({n}) \subseteq Suppressed(N)
        BY <4>1, SuppressedGrows
      <4>3. suppressions' = suppressions \cup Suppressed(N)
        OBVIOUS
      <4> HIDE DEF N
      <4> QED
        BY <4>2, <4>3
    <3>3. n < linenum \/ n = linenum
      BY <1>1, <2>3
    <3> QED
      BY <3>1, <3>2, <3>3, Zenon
  <2>4. suppressions' \subseteq Suppressed(DOMAIN raw_lines)'
    BY <1>2, <2>2 DEF Suppressed, Comments
  <2>5. \A n \in DOMAIN raw_lines' : n < linenum' => Suppressed({n})' \subseteq suppressions'
    BY <1>2, <2>1, <2>3
  <2> QED
    BY <2>4, <2>5 DEF CommentsParsed
<1>5. ASSUME NEW k \in DOMAIN reports, ~Early([report |-> reports[k], at |-> linenum])
      PROVE  Covered(supp, reports[k]) <=> Silenced(reports[k])
  <2> DEFINE r == reports[k]
  <2>1. Placed(r, end)
    BY DEF Lists
  <2>2. ~(r.line > linenum /\ r.category # BracesError.category)
    BY <1>5 DEF Early
  <2>3. ASSUME NEW m \in DOMAIN raw_lines, NEW c \in raw_lines[m].comments, About(c, m, r)
        PROVE  m \in N \/ m < linenum
    <3>1. m \in Nat /\ r.line \in Nat /\ (r.line = m \/ r.line = m + 1)
      BY <1>1, <2>3 DEF About, LineOf
    <3>2. CASE r.category = BracesError.category
      <4>1. end # 0 /\ r.line = end
        BY <2>1, <3>2 DEF Placed
      <4>2. m = end \/ m = end - 1
        BY <3>1, <4>1
      <4>3. m \in Ahead(end)
        BY <4>1, <4>2 DEF Ahead
      <4> QED
        BY <4>3
    <3>3. CASE r.category # BracesError.category
      BY <1>1, <2>2, <3>1, <3>3
    <3> QED
      BY <3>2, <3>3
  <2> HIDE DEF N, r
  <2>4. Covered(suppressions \cup Suppressed(N), r) <=> Silenced(r)
    BY <1>0, <2>1, <2>3, CoveredWhenSilenced
  <2> QED
    BY <2>4 DEF N, r
<1>6. ASSUME NEW k \in DOMAIN reports, Covered(supp, reports[k])
      PROVE  Silenced(reports[k])
  <2>1. supp \subseteq Suppressed(DOMAIN raw_lines)
    BY <1>0, SuppressedInside DEF CommentsParsed
  <2>2. Covered(Suppressed(DOMAIN raw_lines), reports[k])
    BY <1>6, <2>1 DEF Covered
  <2>3. Placed(reports[k], end)
    BY DEF Lists
  <2> QED
    BY <2>2, <2>3, SilencedIs
<1>7. PrintedIsDue'
  BY <1>0, <1>2, <1>5, <1>6, DueStep
<1> QED
  BY <1>3, <1>4, <1>7 DEF ReportsInv

LEMMA ProcessAsmLineStep ==
  ASSUME ReportsInv, ProcessAsmLine
  PROVE  ReportsInv'
<1> DEFINE supp == suppressions \cup Suppressed({linenum} \cup Ahead(0))
           reports == UnknownOn(linenum)
<1>1. {linenum} \cup Ahead(0) = {linenum}
  BY DEF Ahead
<1>2. suppressions' = supp /\ Reported(supp, reports)
  BY <1>1 DEF ProcessAsmLine
<1>3. Lists(reports, 0)
  BY UnknownLists
<1>4. /\ pc = "lint" /\ linenum <= Len(elided) /\ linenum' = linenum + 1
      /\ nesting_state' = Update(nesting_state, elided, linenum)
      /\ UNCHANGED <<clean_lines, pc, file>>
      /\ UNCHANGED <<settings, filters, suppressed_categories>>
  BY DEF ProcessAsmLine, Advance
<1> HIDE DEF reports
<1> QED
  BY <1>2, <1>3, <1>4, LineStep

LEMMA ProcessLineStep ==
  ASSUME ReportsInv, ProcessLine
  PROVE  ReportsInv'
<1> DEFINE n == linenum
           function == CheckForFunctionLengths(function_state, lines, n, verbose_level).reports
           language == Language(n).reports
           end == TrailingSemicolon(n)
           braces == IF end = 0 THEN <<>>
                     ELSE UnknownOn(end - 1) \o UnknownOn(end) \o <<On(end, BracesError)>>
           reports == UnknownOn(n) \o OnLine(n, function) \o MultilineReports(n) \o braces
                        \o EmptyBodyReports(n) \o EmptyIfReports(n) \o OnLine(n, language)
           supp == suppressions \cup Suppressed({n} \cup Ahead(end))
<1>1. suppressions' = supp /\ Reported(supp, reports)
  BY Zenon DEF ProcessLine
<1>2. Lists(reports, end)
  <2>1. Lists(function, 0) /\ Lists(language, 0)
    BY LengthLists, LanguageLists
  <2> HIDE DEF function, language, end, n
  <2>2. Lists(OnLine(n, function), end) /\ Lists(OnLine(n, language), end)
    BY <2>1, ListsOn
  <2>3. Lists(braces, end)
    <3>1. CASE end = 0
      BY <3>1, ListsNone
    <3>2. CASE end # 0
      <4>1. Lists(<<On(end, BracesError)>>, end)
        BY <3>2, PlacedOn, ListsOne
      <4>2. Lists(UnknownOn(end - 1), end) /\ Lists(UnknownOn(end), end)
        BY UnknownLists
      <4>3. Lists(UnknownOn(end - 1) \o UnknownOn(end), end)
        BY <4>2, ListsConcat
      <4>4. Lists(UnknownOn(end - 1) \o UnknownOn(end) \o <<On(end, BracesError)>>, end)
        BY <4>1, <4>3, ListsConcat
      <4> QED
        BY <3>2, <4>4
    <3> QED
      BY <3>1, <3>2
  <2> HIDE DEF braces
  <2>4. Lists(UnknownOn(n) \o OnLine(n, function), end)
    BY <2>2, UnknownLists, ListsConcat
  <2>5. Lists(UnknownOn(n) \o OnLine(n, function) \o MultilineReports(n), end)
    BY <2>4, MultilineLists, ListsConcat
  <2>6. Lists(UnknownOn(n) \o OnLine(n, function) \o MultilineReports(n) \o braces, end)
    BY <2>3, <2>5, ListsConcat
  <2>7. Lists(UnknownOn(n) \o OnLine(n, function) \o MultilineReports(n) \o braces
                \o EmptyBodyReports(n), end)
    BY <2>6, EmptyBodyLists, ListsConcat
  <2>8. Lists(UnknownOn(n) \o OnLine(n, function) \o MultilineReports(n) \o braces
                \o EmptyBodyReports(n) \o EmptyIfReports(n), end)
    BY <2>7, EmptyIfLists, ListsConcat
  <2> QED
    BY <2>2, <2>8, ListsConcat
<1>3. /\ pc = "lint" /\ linenum <= Len(elided) /\ linenum' = linenum + 1
      /\ nesting_state' = Update(nesting_state, elided, linenum)
      /\ UNCHANGED <<clean_lines, pc, file>>
      /\ UNCHANGED <<settings, filters, suppressed_categories>>
  BY DEF ProcessLine, Advance
<1> HIDE DEF reports, end
<1> QED
  BY <1>1, <1>2, <1>3, LineStep


LEMMA EndOfDataStep ==
  ASSUME ReportsInv, EndOfData
  PROVE  ReportsInv'
<1> DEFINE L == Len(elided)
           completed == CompletedBlocks(nesting_state.stack)
           what == CheckForIncludeWhatYouUse(include_state, elided, file.source)
           header == IF file.has_header THEN CheckHeaderFileIncluded(include_state) ELSE <<>>
           reports == completed \o what \o header
<1>0. TypeOK /\ CommentsParsed /\ PrintedIsDue
  BY DEF ReportsInv
<1>1. /\ pc = "lint" /\ linenum > Len(elided) /\ pc' = "done" /\ Reported(suppressions, reports)
      /\ UNCHANGED <<settings, filters, filters_backup, nolint, file, linenum, clean_lines,
                     state, skipped>>
  BY Zenon DEF EndOfData
<1>2. /\ raw_lines' = raw_lines /\ elided' = elided /\ nesting_state' = nesting_state
      /\ linenum' = linenum /\ file' = file /\ suppressions' = suppressions
      /\ verbose_level' = verbose_level /\ counting' = counting /\ filters' = filters
      /\ suppressed_categories' = suppressed_categories
  BY <1>1, Zenon DEF clean_lines, state, nolint, settings
<1>3. L \in Nat /\ DOMAIN raw_lines = 1 .. L /\ linenum \in 1 .. L + 1
  BY <1>0, <1>1, LenProperties DEF TypeOK
<1>4. Lists(reports, 0)
  <2>1. nesting_state.stack \in Seq(Blocks) /\ elided \in Seq(Seq(Tokens))
    BY <1>0 DEF TypeOK
  <2>2. Lists(completed, 0) /\ Lists(what, 0)
    BY <2>1, CompletedLists, WhatLists
  <2>3. Lists(header, 0)
    BY HeaderLists, ListsNone
  <2> HIDE DEF completed, what, header
  <2> QED
    BY <2>2, <2>3, ListsConcat
<1> HIDE DEF reports
<1>5. TypeOK'
  <2>1. shown' \in Seq(Reports') /\ error_count' \in Nat
    BY <1>0, <1>1, <1>4, ReportsKept
  <2>2. linenum = L + 1
    BY <1>1, <1>3
  <2>3. /\ file \in File /\ elided \in Seq(Seq(Tokens)) /\ DOMAIN raw_lines = DOMAIN elided
        /\ nesting_state \in [stack : Seq(Blocks), pp_stack : Seq(Conditionals)]
        /\ verbose_level = 0 /\ counting = "total" /\ suppressed_categories = {}
        /\ filters = AddFilters(DefaultFilters, CommandLine)
    BY <1>0 DEF TypeOK
  <2> QED
    BY <1>1, <1>2, <2>1, <2>2, <2>3 DEF TypeOK
<1>6. CommentsParsed'
  BY <1>0, <1>2 DEF CommentsParsed, Suppressed, Comments
<1>7. ASSUME NEW k \in DOMAIN reports
      PROVE  Covered(suppressions, reports[k]) <=> Silenced(reports[k])
  <2> DEFINE r == reports[k]
             N == {}
  <2>1. Placed(r, 0)
    BY <1>4 DEF Lists
  <2>2. \A m \in DOMAIN raw_lines : m < linenum
    BY <1>1, <1>3
  <2> HIDE DEF N, r
  <2>3. Covered(suppressions \cup Suppressed(N), r) <=> Silenced(r)
    BY <1>0, <2>1, <2>2, CoveredWhenSilenced
  <2>4. suppressions \cup Suppressed(N) = suppressions
    BY DEF Suppressed, N
  <2> QED
    BY <2>3, <2>4 DEF r
<1>8. PrintedIsDue'
  BY <1>0, <1>1, <1>2, <1>4, <1>7, DueStep
<1> QED
  BY <1>5, <1>6, <1>8 DEF ReportsInv

\* The first reports come before any comment is parsed.
LEMMA PrepareStep ==
  ASSUME ReportsInv, Prepare
  PROVE  ReportsInv'
<1> DEFINE texts == [n \in DOMAIN file.lines |-> file.lines[n].text]
           begin == MultiLineComments(texts).begin
           blanked == MultiLineComments(texts).blanked
           removed == RemoveMultiLineComments(texts)
           r == On(begin + 1, MultiLineError)
           reports == IF begin # 0 THEN <<r>> ELSE <<>>
           raw == [n \in DOMAIN texts |->
                    [text |-> removed[n],
                     comments |-> IF n \in blanked THEN {} ELSE file.lines[n].comments]]
           L == Len(file.lines)
<1>0. TypeOK
  BY DEF ReportsInv
<1>1. /\ pc = "prepare" /\ pc' = "lint" /\ linenum' = 1 /\ ProcessGlobalSuppressions({})
      /\ raw_lines' = raw /\ elided' = Elided(removed) /\ Reported({}, reports)
      /\ UNCHANGED <<settings, filters, filters_backup, file, state, skipped>>
  BY Zenon DEF Prepare
<1>2. /\ nesting_state' = nesting_state /\ file' = file
      /\ verbose_level' = verbose_level /\ counting' = counting /\ filters' = filters
  BY <1>1, Zenon DEF state, settings
<1>3. linenum = 0 /\ found = {}
  BY <1>0, <1>1 DEF TypeOK
<1>4. suppressions' = {} /\ suppressed_categories' = {}
  BY <1>1 DEF ProcessGlobalSuppressions
<1>5. L \in Nat /\ DOMAIN texts = 1 .. L /\ texts \in Seq(Seq(Tokens))
  <2>1. file.lines \in Seq(Line)
    BY <1>0 DEF TypeOK, File
  <2>2. L \in Nat /\ DOMAIN file.lines = 1 .. L /\ \A n \in 1 .. L : file.lines[n] \in Line
    BY <2>1, LenProperties, ElementOfSeq
  <2>3. \A n \in 1 .. L : file.lines[n].text \in Seq(Tokens)
    BY <2>2 DEF Line
  <2> HIDE DEF L
  <2> QED
    BY <2>2, <2>3
<1>6. removed \in Seq(Seq(Tokens)) /\ DOMAIN removed = 1 .. L
  <2>1. <<"/*", "*/">> \in Seq(Tokens)
    BY FilesAssumption
  <2> HIDE DEF texts, L
  <2>2. \A n \in 1 .. L : texts[n] \in Seq(Tokens)
    BY <1>5, ElementOfSeq, LenProperties
  <2>3. removed = [n \in 1 .. L |-> IF n \in blanked THEN <<"/*", "*/">> ELSE texts[n]]
    BY <1>5, Zenon DEF RemoveMultiLineComments
  <2> HIDE DEF removed, blanked
  <2> QED
    BY <1>5, <2>1, <2>2, <2>3
<1>7. elided' \in Seq(Seq(Tokens)) /\ DOMAIN elided' = 1 .. L /\ DOMAIN raw_lines' = 1 .. L
  <2>1. DOMAIN raw = 1 .. L
    BY <1>5
  <2>2. "QQ" \in Tokens
    BY FilesAssumption
  <2> HIDE DEF removed, raw, L
  <2> QED
    BY <1>1, <1>6, <2>1, <2>2, ElidedType
<1>8. Lists(reports, 0)
  <2>1. Placed(r, 0)
    <3> HIDE DEF begin
    <3> QED
      BY PlacedOn
  <2> HIDE DEF r
  <2> QED
    BY <2>1, ListsNone, ListsOne
<1>9. \A k \in DOMAIN reports : reports[k] = r
  <2> HIDE DEF r, begin
  <2> QED
    OBVIOUS
<1> HIDE DEF reports, raw, removed, texts, L
<1>10. TypeOK'
  <2>1. shown' \in Seq(Reports') /\ error_count' \in Nat
    BY <1>0, <1>1, <1>8, ReportsKept
  <2>2. DOMAIN raw_lines' = DOMAIN elided' /\ linenum' \in 1 .. Len(elided') + 1
    BY <1>1, <1>5, <1>7, LenProperties
  <2>3. /\ file \in File
        /\ nesting_state \in [stack : Seq(Blocks), pp_stack : Seq(Conditionals)]
        /\ verbose_level = 0 /\ counting = "total"
        /\ filters = AddFilters(DefaultFilters, CommandLine)
    BY <1>0 DEF TypeOK
  <2> QED
    BY <1>1, <1>2, <1>4, <1>7, <2>1, <2>2, <2>3 DEF TypeOK
<1>11. CommentsParsed'
  <2>1. \A n \in DOMAIN raw_lines' : ~(n < linenum')
    BY <1>1, <1>5, <1>7
  <2> QED
    BY <1>4, <2>1 DEF CommentsParsed
<1>12. PrintedIsDue'
  <2> DEFINE new == {[report |-> reports[k], at |-> linenum] : k \in DOMAIN reports}
  <2>1. found' = new
    BY <1>1, <1>3, Zenon DEF Reported
  <2>2. Range(shown') = {reports[k] : k \in DOMAIN reports}
    <3>1. Range(shown') = Range(shown) \cup Passing({}, reports)
      BY <1>0, <1>1, <1>8, ReportsKept
    <3>2. Range(shown) = {}
      <4>1. Reports = {}
        BY <1>3 DEF Reports
      <4>2. shown \in Seq({})
        BY <1>0, <4>1 DEF TypeOK
      <4>3. \A k \in DOMAIN shown : shown[k] \in {}
        BY <4>2, ElementOfSeq, LenProperties
      <4> QED
        BY <4>3 DEF Range
    <3>3. Passing({}, reports) = {reports[k] : k \in DOMAIN reports}
      BY DEF Passing, Covered
    <3> QED
      BY <3>1, <3>2, <3>3
  <2>3. ASSUME NEW e \in found'
        PROVE  /\ Early(e) \/ ~Silenced(e.report)'
               /\ \E k \in DOMAIN reports : e.report = reports[k]
    <3>1. PICK k \in DOMAIN reports : e = [report |-> reports[k], at |-> linenum]
      BY <2>1
    <3>2. e.report = reports[k] /\ e.report = r /\ e.at = 0
      BY <1>3, <1>9, <3>1
    <3>3. r.category # BracesError.category
      BY DEF On, MultiLineError, BracesError
    <3>4. ASSUME Silenced(e.report)' PROVE Early(e)
      <4>1. PICK m \in DOMAIN raw_lines' :
              \E c \in raw_lines'[m].comments : e.report.line = m + (IF c.next THEN 1 ELSE 0)
        BY <3>4 DEF Silenced
      <4>2. e.report.line > 0
        BY <1>5, <1>7, <4>1
      <4> HIDE DEF r
      <4> QED
        BY <3>2, <3>3, <4>2 DEF Early
    <3> HIDE DEF r
    <3> QED
      BY <3>2, <3>4
  <2>4. \A k \in DOMAIN reports : \E e \in found' : e.report = reports[k]
    <3> TAKE k \in DOMAIN reports
    <3> DEFINE e == [report |-> reports[k], at |-> linenum]
    <3>1. e \in found' /\ e.report = reports[k]
      BY <2>1
    <3> QED
      BY <3>1
  <2> HIDE DEF new
  <2>5. \A k \in DOMAIN shown' : shown'[k] \in Range(shown')
    BY DEF Range
  <2>6. \A k \in DOMAIN shown' :
          \E e \in found' : e.report = shown'[k] /\ (Early(e) \/ ~Silenced(e.report)')
    BY <2>2, <2>3, <2>4, <2>5
  <2>7. \A e \in found' : Printed(e.report)'
    <3> TAKE e \in found'
    <3>1. e.report \in Range(shown')
      BY <2>2, <2>3
    <3> QED
      BY <3>1 DEF Range, Printed
  <2> QED
    BY <2>6, <2>7 DEF PrintedIsDue, Early
<1> QED
  BY <1>10, <1>11, <1>12 DEF ReportsInv


LEMMA InitStep ==
  ASSUME Init
  PROVE  ReportsInv
<1>1. /\ file \in Files /\ pc = "prepare" /\ linenum = 0
      /\ verbose_level = 0 /\ counting = "total" /\ filters = AddFilters(DefaultFilters, CommandLine)
      /\ error_count = 0 /\ shown = <<>> /\ suppressions = {} /\ suppressed_categories = {}
      /\ raw_lines = <<>> /\ elided = <<>> /\ nesting_state = NestingState /\ found = {}
  BY DEF Init
<1>2. TypeOK
  <2>1. file \in File
    BY <1>1, FilesAssumption
  <2>2. /\ elided \in Seq(Seq(Tokens)) /\ shown \in Seq(Reports) /\ error_count \in Nat
        /\ DOMAIN raw_lines = DOMAIN elided
    BY <1>1
  <2>3. nesting_state \in [stack : Seq(Blocks), pp_stack : Seq(Conditionals)]
    BY <1>1 DEF NestingState
  <2> QED
    BY <1>1, <2>1, <2>2, <2>3 DEF TypeOK
<1>3. DOMAIN raw_lines = {} /\ DOMAIN shown = {}
  BY <1>1
<1>4. CommentsParsed /\ PrintedIsDue
  BY <1>1, <1>3 DEF CommentsParsed, PrintedIsDue
<1> QED
  BY <1>2, <1>4 DEF ReportsInv

LEMMA Stutters ==
  ASSUME ReportsInv, UNCHANGED vars
  PROVE  ReportsInv'
<1>1. UNCHANGED <<verbose_level, counting, filters, suppressions, suppressed_categories, shown,
                  error_count, file, pc, linenum, raw_lines, elided, nesting_state, found>>
  BY DEF vars, settings, counts, nolint, clean_lines, state
<1>2. TypeOK'
  <2>1. Reports' = Reports
    BY <1>1 DEF Reports
  <2> QED
    BY <1>1, <2>1 DEF ReportsInv, TypeOK
<1>3. CommentsParsed'
  BY <1>1 DEF ReportsInv, CommentsParsed, Suppressed, Comments
<1>4. PrintedIsDue'
  BY <1>1, Zenon DEF ReportsInv, PrintedIsDue, Silenced, Printed
<1> QED
  BY <1>2, <1>3, <1>4 DEF ReportsInv

\* Line after line, the comments parsed are those of the lines so far; and
\* whatever Error prints in ProcessFileData is not silenced by a comment, but for
\* the reports that run ahead of the comments they would be silenced by, while
\* every report that no comment silences is printed.
LEMMA ReportsInvariant == Spec => []ReportsInv
<1>1. Init => ReportsInv
  BY InitStep
<1>2. ReportsInv /\ [Next]_vars => ReportsInv'
  <2> SUFFICES ASSUME ReportsInv, [Next]_vars PROVE ReportsInv'
    OBVIOUS
  <2>1. CASE Prepare
    BY <2>1, PrepareStep
  <2>2. CASE ProcessAsmLine
    BY <2>2, ProcessAsmLineStep
  <2>3. CASE ProcessLine
    BY <2>3, ProcessLineStep
  <2>4. CASE EndOfData
    BY <2>4, EndOfDataStep
  <2>5. CASE UNCHANGED vars
    BY <2>5, Stutters
  <2> QED
    BY <2>1, <2>2, <2>3, <2>4, <2>5 DEF Next
<1> QED
  BY <1>1, <1>2, PTL DEF Spec

------------------------------------------------------------------------------
\* The nesting, line after line.

NestingInv == PartsKept /\ StackOfActiveLines

LEMMA NestingStep ==
  ASSUME TypeOK, NestingInv, pc = "lint", linenum <= Len(elided), UNCHANGED <<clean_lines, pc>>,
         linenum' = linenum + 1, nesting_state' = Update(nesting_state, elided, linenum)
  PROVE  NestingInv'
<1> DEFINE n == linenum - 1
           st == nesting_state
<1>1. elided \in Seq(Seq(Tokens)) /\ Len(elided) \in Nat /\ linenum \in 1 .. Len(elided)
  BY LenProperties DEF TypeOK
<1>2. n \in 0 .. Len(elided) - 1 /\ n + 1 = linenum /\ linenum' - 1 = n + 1
  BY <1>1
<1>3. st \in Nestings
  BY DEF TypeOK, Nestings
<1>4. /\ Restorable(elided, st.pp_stack, n)
      /\ st.stack = StackOf(elided, Counting(elided, 0, n), n)
  BY DEF NestingInv, PartsKept, StackOfActiveLines
<1> HIDE DEF n, st
<1>5. /\ Restorable(elided, Update(st, elided, n + 1).pp_stack, n + 1)
      /\ Update(st, elided, n + 1).stack = StackOf(elided, Counting(elided, 0, n + 1), n + 1)
  BY <1>1, <1>2, <1>3, <1>4, UpdateRestores
<1>6. nesting_state' = Update(st, elided, n + 1) /\ elided' = elided
  BY <1>2 DEF st, clean_lines
<1>7. PartsKept'
  BY <1>2, <1>5, <1>6 DEF PartsKept
<1>8. StackOfActiveLines'
  BY <1>2, <1>5, <1>6 DEF StackOfActiveLines
<1> QED
  BY <1>7, <1>8 DEF NestingInv

LEMMA NestingStarts ==
  ASSUME TypeOK, TypeOK', Prepare
  PROVE  NestingInv'
<1>1. pc = "prepare" /\ pc' = "lint" /\ linenum' = 1 /\ UNCHANGED state
  BY Zenon DEF Prepare
<1>2. nesting_state' = NestingState
  BY <1>1 DEF TypeOK, state
<1>3. nesting_state'.stack = <<>> /\ nesting_state'.pp_stack = <<>> /\ linenum' - 1 = 0
  BY <1>1, <1>2 DEF NestingState
<1>4. elided' \in Seq(Seq(Tokens))
  BY DEF TypeOK
<1> DEFINE text == elided'
<1> HIDE DEF text
<1>5. Restorable(text, <<>>, 0) /\ StackOf(text, Counting(text, 0, 0), 0) = <<>>
  BY <1>4, StartsRestorable DEF text
<1>6. PartsKept'
  BY <1>3, <1>5 DEF PartsKept, text
<1>7. StackOfActiveLines'
  BY <1>3, <1>5 DEF StackOfActiveLines, text
<1> QED
  BY <1>6, <1>7 DEF NestingInv

LEMMA NestingInvariant == Spec => []NestingInv
<1>1. Init => NestingInv
  BY DEF Init, NestingInv, PartsKept, StackOfActiveLines
<1>2. TypeOK /\ TypeOK' /\ NestingInv /\ [Next]_vars => NestingInv'
  <2> SUFFICES ASSUME TypeOK, TypeOK', NestingInv, [Next]_vars PROVE NestingInv'
    OBVIOUS
  <2>1. CASE Prepare
    BY <2>1, NestingStarts
  <2>2. CASE ProcessAsmLine
    BY <2>2, NestingStep DEF ProcessAsmLine, Advance
  <2>3. CASE ProcessLine
    BY <2>3, NestingStep DEF ProcessLine, Advance
  <2>4. CASE EndOfData
    BY <2>4 DEF EndOfData, NestingInv, PartsKept, StackOfActiveLines
  <2>5. CASE UNCHANGED vars
    BY <2>5 DEF vars, state, clean_lines, NestingInv, PartsKept, StackOfActiveLines
  <2> QED
    BY <2>1, <2>2, <2>3, <2>4, <2>5 DEF Next
<1>3. ReportsInv => TypeOK
  BY DEF ReportsInv
<1> QED
  BY <1>1, <1>2, <1>3, ReportsInvariant, PTL DEF Spec

------------------------------------------------------------------------------
\* The lists of the headers included.

\* The i that list s holds.
Holds(list, s, i) == s \in DOMAIN list /\ \E k \in DOMAIN list[s] : list[s][k] = i

LEMMA LastList ==
  ASSUME NEW X, NEW list \in Seq(Seq(X)), list # <<>>
  PROVE  /\ Len(list) \in Nat /\ DOMAIN list = 1 .. Len(list) /\ Len(list) \in 1 .. Len(list)
         /\ Last(list) = list[Len(list)] /\ Last(list) \in Seq(X)
<1>1. Len(list) \in Nat /\ DOMAIN list = 1 .. Len(list) /\ Len(list) # 0
  BY LenProperties, EmptySeq
<1>2. Last(list) = list[Len(list)]
  BY Zenon DEF Last
<1> QED
  BY <1>1, <1>2, ElementOfSeq

LEMMA SetLastIs ==
  ASSUME NEW X, NEW Y, X \subseteq Y, NEW list \in Seq(Seq(X)), list # <<>>, NEW v \in Seq(Y)
  PROVE  /\ SetLast(list, v) \in Seq(Seq(Y)) /\ Len(SetLast(list, v)) = Len(list)
         /\ \A s, i : Holds(SetLast(list, v), s, i) <=>
              \/ s # Len(list) /\ Holds(list, s, i)
              \/ s = Len(list) /\ i \in Range(v)
<1> DEFINE N == Len(list)
           new == SetLast(list, v)
<1>1. N \in Nat /\ DOMAIN list = 1 .. N /\ N \in 1 .. N
  BY LastList
<1>2. list \in Seq(Seq(Y))
  BY SeqMonotonic
<1>3. new = [list EXCEPT ![N] = v]
  BY DEF SetLast
<1>4. new \in Seq(Seq(Y)) /\ Len(new) = N
  BY <1>1, <1>2, <1>3, ExceptSeq
<1>5. DOMAIN new = 1 .. N /\ new[N] = v /\ \A s \in 1 .. N : s # N => new[s] = list[s]
  BY <1>1, <1>3
<1> HIDE DEF new, N
<1>6. ASSUME NEW s, NEW i
      PROVE  Holds(new, s, i) <=> \/ s # N /\ Holds(list, s, i)
                                  \/ s = N /\ i \in Range(v)
  <2>1. CASE s = N
    <3>1. Holds(new, s, i) <=> \E k \in DOMAIN v : v[k] = i
      BY <1>1, <1>5, <2>1 DEF Holds
    <3> QED
      BY <2>1, <3>1 DEF Range
  <2>2. CASE s # N
    BY <1>1, <1>5, <2>2 DEF Holds
  <2> QED
    BY <2>1, <2>2
<1> QED
  BY <1>4, <1>6 DEF new, N

\* #if adds a list, #else clears the last, and an include goes to its end.
LEMMA HoldsIf ==
  ASSUME NEW X, NEW list \in Seq(Seq(X))
  PROVE  /\ Append(list, <<>>) \in Seq(Seq(X)) /\ Len(Append(list, <<>>)) = Len(list) + 1
         /\ \A s, i : Holds(Append(list, <<>>), s, i) <=> Holds(list, s, i)
<1> DEFINE none == <<>>
           N == Len(list)
           new == Append(list, none)
<1>1. none \in Seq(X) /\ DOMAIN none = {}
  OBVIOUS
<1> HIDE DEF none
<1>2. N \in Nat /\ DOMAIN list = 1 .. N
  BY LenProperties
<1>3. /\ new \in Seq(Seq(X)) /\ Len(new) = N + 1 /\ new[N + 1] = none
      /\ \A s \in 1 .. N : new[s] = list[s]
  BY <1>1, <1>2, AppendProperties
<1>4. DOMAIN new = 1 .. N + 1
  BY <1>3, LenProperties
<1> HIDE DEF new, N
<1>5. \A s \in 1 .. N + 1 : s \in 1 .. N \/ s = N + 1
  BY <1>2
<1>6. 1 .. N \subseteq 1 .. N + 1 /\ N + 1 \notin 1 .. N
  BY <1>2
<1>7. ASSUME NEW s, NEW i PROVE Holds(new, s, i) <=> Holds(list, s, i)
  <2>1. CASE s \in 1 .. N
    BY <1>2, <1>3, <1>4, <1>6, <2>1 DEF Holds
  <2>2. CASE s = N + 1
    BY <1>1, <1>2, <1>3, <1>4, <1>6, <2>2 DEF Holds
  <2>3. CASE s \notin 1 .. N + 1
    BY <1>2, <1>4, <1>6, <2>3 DEF Holds
  <2> QED
    BY <1>5, <2>1, <2>2, <2>3
<1> QED
  BY <1>3, <1>7 DEF new, none, N

LEMMA HoldsElse ==
  ASSUME NEW X, NEW list \in Seq(Seq(X)), list # <<>>
  PROVE  /\ SetLast(list, <<>>) \in Seq(Seq(X)) /\ Len(SetLast(list, <<>>)) = Len(list)
         /\ \A s, i : Holds(SetLast(list, <<>>), s, i) <=> s # Len(list) /\ Holds(list, s, i)
<1> DEFINE none == <<>>
<1>1. none \in Seq(X) /\ Range(none) = {}
  BY DEF Range
<1> HIDE DEF none
<1>2. /\ SetLast(list, none) \in Seq(Seq(X)) /\ Len(SetLast(list, none)) = Len(list)
      /\ \A s, i : Holds(SetLast(list, none), s, i) <=>
           \/ s # Len(list) /\ Holds(list, s, i)
           \/ s = Len(list) /\ i \in Range(none)
  BY <1>1, SetLastIs
<1> QED
  BY <1>1, <1>2 DEF none

LEMMA HoldsNew ==
  ASSUME NEW X, NEW list \in Seq(Seq(X)), list # <<>>, NEW x
  PROVE  LET new == SetLast(list, Append(Last(list), x)) IN
         /\ new \in Seq(Seq(X \cup {x})) /\ Len(new) = Len(list)
         /\ \A s, i : Holds(new, s, i) <=> Holds(list, s, i) \/ (s = Len(list) /\ i = x)
<1> DEFINE Y == X \cup {x}
           v == Append(Last(list), x)
           new == SetLast(list, v)
           N == Len(list)
<1>1. N \in Nat /\ DOMAIN list = 1 .. N /\ N \in 1 .. N /\ Last(list) = list[N] /\ Last(list) \in Seq(X)
  BY LastList
<1>2. X \subseteq Y /\ x \in Y
  OBVIOUS
<1> HIDE DEF Y
<1>3. Last(list) \in Seq(Y)
  BY <1>1, <1>2, SeqMonotonic
<1>4. v \in Seq(Y) /\ Range(v) = Range(Last(list)) \cup {x}
  BY <1>2, <1>3, AppendRange, AppendProperties
<1> HIDE DEF v
<1>5. /\ new \in Seq(Seq(Y)) /\ Len(new) = N
      /\ \A s, i : Holds(new, s, i) <=>
           \/ s # N /\ Holds(list, s, i)
           \/ s = N /\ i \in Range(v)
  BY <1>2, <1>4, SetLastIs
<1> HIDE DEF new, N
<1>6. \A i : i \in Range(Last(list)) <=> Holds(list, N, i)
  BY <1>1 DEF Range, Holds
<1>7. ASSUME NEW s, NEW i
      PROVE  Holds(new, s, i) <=> Holds(list, s, i) \/ (s = N /\ i = x)
  <2>1. CASE s = N
    <3>1. Holds(new, s, i) <=> i \in Range(v)
      BY <1>5, <2>1
    <3>2. i \in Range(v) <=> Holds(list, s, i) \/ i = x
      BY <1>4, <1>6, <2>1
    <3> QED
      BY <2>1, <3>1, <3>2
  <2>2. CASE s # N
    BY <1>5, <2>2
  <2> QED
    BY <2>1, <2>2
<1> QED
  BY <1>5, <1>7 DEF new, v, Y, N

------------------------------------------------------------------------------
\* The includes of the first n lines, the list that one on line m goes to, and
\* whether an #else of its part clears it up to line n.
IncludesOf(text, h, n) ==
  {m \in 1 .. n : IsInclude(text[m]) /\ IncludeOf(text[m]) = h /\ ~Headers[h].source}
Section(text, m) == Directives(text, "#if", 1, m) + 1
NoIf(text, m, n) == \A k \in (m + 1) .. n : ~Starts(text[k], "#if")
Gone(text, m, n) ==
  \E e \in (m + 1) .. n : Starts(text[e], "#else") /\ NoIf(text, m, e)

LEMMA OneKind ==
  ASSUME NEW line
  PROVE  /\ Starts(line, "#if") => ~Starts(line, "#else") /\ ~IsInclude(line)
         /\ Starts(line, "#else") => ~IsInclude(line)
BY DEF Starts, IsInclude

LEMMA NoIfNext ==
  ASSUME NEW text, NEW m \in Nat, NEW n \in Nat
  PROVE  /\ m <= n => (NoIf(text, m, n + 1) <=> NoIf(text, m, n) /\ ~Starts(text[n + 1], "#if"))
         /\ NoIf(text, m, m)
<1>1. ASSUME m <= n
      PROVE  NoIf(text, m, n + 1) <=> NoIf(text, m, n) /\ ~Starts(text[n + 1], "#if")
  <2>1. /\ \A k \in (m + 1) .. (n + 1) : k \in (m + 1) .. n \/ k = n + 1
        /\ n + 1 \in (m + 1) .. (n + 1) /\ (m + 1) .. n \subseteq (m + 1) .. (n + 1)
    BY <1>1
  <2> QED
    BY <2>1 DEF NoIf
<1>2. (m + 1) .. m = {}
  OBVIOUS
<1> QED
  BY <1>1, <1>2 DEF NoIf

LEMMA GoneNext ==
  ASSUME NEW text, NEW m \in Nat, NEW n \in Nat
  PROVE  /\ m <= n => (Gone(text, m, n + 1) <=>
              Gone(text, m, n) \/ (Starts(text[n + 1], "#else") /\ NoIf(text, m, n)))
         /\ ~Gone(text, m, m)
<1>1. ASSUME m <= n
      PROVE  Gone(text, m, n + 1) <=>
               Gone(text, m, n) \/ (Starts(text[n + 1], "#else") /\ NoIf(text, m, n))
  <2>1. /\ \A k \in (m + 1) .. (n + 1) : k \in (m + 1) .. n \/ k = n + 1
        /\ n + 1 \in (m + 1) .. (n + 1) /\ (m + 1) .. n \subseteq (m + 1) .. (n + 1)
    BY <1>1
  <2>2. Starts(text[n + 1], "#else") => (NoIf(text, m, n + 1) <=> NoIf(text, m, n))
    BY <1>1, NoIfNext, OneKind
  <2> QED
    BY <2>1, <2>2 DEF Gone
<1>2. (m + 1) .. m = {}
  OBVIOUS
<1> QED
  BY <1>1, <1>2 DEF Gone

LEMMA SectionNext ==
  ASSUME NEW text, NEW n \in Nat
  PROVE  /\ Section(text, n) \in Nat /\ Section(text, n) >= 1
         /\ Section(text, n + 1) = Section(text, n) + (IF Starts(text[n + 1], "#if") THEN 1 ELSE 0)
         /\ Section(text, 0) = 1
<1> DEFINE D(j) == Directives(text, "#if", 1, j)
           a == IF Starts(text[n + 1], "#if") THEN 1 ELSE 0
<1>1. 1 \in Nat /\ n + 1 \in Nat /\ 0 \in Nat /\ 1 <= n + 1 /\ 0 < 1
  OBVIOUS
<1>2. D(n) \in Nat /\ D(n + 1) = D(n) + a /\ D(0) = 0
  BY <1>1, DirectivesGrow
<1>3. \A j : Section(text, j) = D(j) + 1
  BY DEF Section
<1>4. a \in Nat
  OBVIOUS
<1> HIDE DEF D, a
<1>5. Section(text, n + 1) = Section(text, n) + a /\ Section(text, n) \in Nat /\ Section(text, n) >= 1
  BY <1>2, <1>3, <1>4
<1>6. Section(text, 0) = 1
  BY <1>2, <1>3
<1> QED
  BY <1>5, <1>6 DEF a

\* Two lines have the same list when there is no #if between them.
LEMMA SectionGrows ==
  ASSUME NEW text, NEW m \in Nat, NEW n \in Nat, m <= n
  PROVE  /\ Section(text, m) <= Section(text, n)
         /\ Section(text, m) = Section(text, n) <=> NoIf(text, m, n)
<1> DEFINE S(j) == Section(text, j)
           Grown(j) == S(m) <= S(j) /\ (S(m) = S(j) <=> NoIf(text, m, j))
           T == {k \in Nat : Grown(m + k)}
<1>1. \A j \in Nat : S(j) \in Nat /\ S(j + 1) = S(j) + (IF Starts(text[j + 1], "#if") THEN 1 ELSE 0)
  BY SectionNext
<1> HIDE DEF S
<1>2. 0 \in T
  <2>1. m + 0 = m /\ S(m) \in Nat /\ NoIf(text, m, m)
    BY <1>1, NoIfNext
  <2>2. Grown(m)
    BY <2>1
  <2> HIDE DEF Grown
  <2> QED
    BY <2>1, <2>2
<1>3. ASSUME NEW k \in Nat, k \in T PROVE k + 1 \in T
  <2> DEFINE j == m + k
  <2>1. j \in Nat /\ m <= j /\ m + (k + 1) = j + 1 /\ Grown(j)
    BY <1>3
  <2> HIDE DEF j
  <2>2. NoIf(text, m, j + 1) <=> NoIf(text, m, j) /\ ~Starts(text[j + 1], "#if")
    BY <2>1, NoIfNext
  <2>3. S(m) \in Nat /\ S(j) \in Nat
    BY <1>1, <2>1
  <2>4. Grown(j + 1)
    <3>1. CASE Starts(text[j + 1], "#if")
      <4>1. S(j + 1) = S(j) + 1
        BY <1>1, <2>1, <3>1
      <4> QED
        BY <2>1, <2>2, <2>3, <3>1, <4>1
    <3>2. CASE ~Starts(text[j + 1], "#if")
      <4>1. S(j + 1) = S(j)
        BY <1>1, <2>1, <2>3, <3>2
      <4> QED
        BY <2>1, <2>2, <2>3, <3>2, <4>1
    <3> QED
      BY <3>1, <3>2
  <2> HIDE DEF Grown
  <2> QED
    BY <2>1, <2>4
<1>4. Nat \subseteq T
  <2> HIDE DEF T
  <2> QED
    BY <1>2, <1>3, SetInduction
<1>5. n - m \in Nat /\ m + (n - m) = n
  OBVIOUS
<1>6. Grown(n)
  <2>1. n - m \in T
    BY <1>4, <1>5
  <2> HIDE DEF Grown
  <2> QED
    BY <1>5, <2>1
<1> QED
  BY <1>6 DEF S

LEMMA IncludesNext ==
  ASSUME NEW text, NEW n \in Nat, NEW h
  PROVE  /\ IncludesOf(text, h, n) \subseteq 1 .. n
         /\ ~IsInclude(text[n + 1]) => IncludesOf(text, h, n + 1) = IncludesOf(text, h, n)
         /\ IsInclude(text[n + 1]) =>
              IncludesOf(text, h, n + 1) =
                IncludesOf(text, h, n) \cup
                  (IF IncludeOf(text[n + 1]) = h /\ ~Headers[h].source THEN {n + 1} ELSE {})
<1>1. /\ \A k \in 1 .. (n + 1) : k \in 1 .. n \/ k = n + 1
      /\ n + 1 \in 1 .. (n + 1) /\ 1 .. n \subseteq 1 .. (n + 1)
  OBVIOUS
<1> QED
  BY <1>1 DEF IncludesOf

------------------------------------------------------------------------------
\* What the lists hold after n lines.
Filed(text, i, s, n) ==
  /\ i.line \in IncludesOf(text, i.header, n) /\ Recorded(Headers[i.header])
  /\ s = Section(text, i.line) /\ ~Gone(text, i.line, n)
Has(list, h, m) == \E s, i : Holds(list, s, i) /\ i.header = h /\ i.line <= m
Listed(text, list, n) ==
  /\ Len(list) = Section(text, n)
  /\ \A s, i : Holds(list, s, i) => Filed(text, i, s, n)
  /\ \A h : \A m \in IncludesOf(text, h, n) :
       Recorded(Headers[h]) /\ ~Gone(text, m, n) => Has(list, h, m)

LEMMA ListedIf ==
  ASSUME NEW text, NEW n \in Nat, NEW list, Listed(text, list, n), Starts(text[n + 1], "#if"),
         NEW new, Len(new) = Len(list) + 1, \A s, i : Holds(new, s, i) <=> Holds(list, s, i)
  PROVE  Listed(text, new, n + 1)
<1>1. Len(new) = Section(text, n + 1)
  BY SectionNext DEF Listed
<1>2. ~IsInclude(text[n + 1]) /\ ~Starts(text[n + 1], "#else")
  BY OneKind
<1>3. \A h : IncludesOf(text, h, n + 1) = IncludesOf(text, h, n) /\ IncludesOf(text, h, n) \subseteq 1 .. n
  BY <1>2, IncludesNext
<1>4. ASSUME NEW m \in 1 .. n PROVE Gone(text, m, n + 1) <=> Gone(text, m, n)
  <2>1. m \in Nat /\ m <= n
    OBVIOUS
  <2> QED
    BY <1>2, <2>1, GoneNext
<1>5. \A s, i : Filed(text, i, s, n) => Filed(text, i, s, n + 1)
  BY <1>3, <1>4 DEF Filed
<1>6. \A h, m : Has(list, h, m) => Has(new, h, m)
  BY Zenon DEF Has
<1>7. \A s, i : Holds(new, s, i) => Filed(text, i, s, n + 1)
  BY <1>5, Zenon DEF Listed
<1>8. ASSUME NEW h, NEW m \in IncludesOf(text, h, n + 1), Recorded(Headers[h]), ~Gone(text, m, n + 1)
      PROVE  Has(new, h, m)
  <2>1. m \in IncludesOf(text, h, n) /\ ~Gone(text, m, n)
    BY <1>3, <1>4, <1>8
  <2> QED
    BY <1>6, <1>8, <2>1 DEF Listed
<1> QED
  BY <1>1, <1>7, <1>8 DEF Listed

\* The line of an include that is not in the last list is not of the part that
\* ends.
LEMMA ListedElse ==
  ASSUME NEW text, NEW n \in Nat, NEW list, Listed(text, list, n), Starts(text[n + 1], "#else"),
         NEW new, Len(new) = Len(list),
         \A s, i : Holds(new, s, i) <=> s # Len(list) /\ Holds(list, s, i)
  PROVE  Listed(text, new, n + 1)
<1>1. ~IsInclude(text[n + 1]) /\ ~Starts(text[n + 1], "#if")
  BY OneKind
<1>2. Section(text, n) \in Nat /\ Section(text, n + 1) = Section(text, n)
  BY <1>1, SectionNext
<1>3. Len(list) = Section(text, n) /\ Len(new) = Section(text, n + 1)
  BY <1>2 DEF Listed
<1>4. \A h : IncludesOf(text, h, n + 1) = IncludesOf(text, h, n) /\ IncludesOf(text, h, n) \subseteq 1 .. n
  BY <1>1, IncludesNext
<1>5. ASSUME NEW m \in 1 .. n
      PROVE  /\ m \in Nat /\ m <= n
             /\ Gone(text, m, n + 1) <=> Gone(text, m, n) \/ NoIf(text, m, n)
  <2>1. m \in Nat /\ m <= n
    OBVIOUS
  <2>2. Gone(text, m, n + 1) <=>
          Gone(text, m, n) \/ (Starts(text[n + 1], "#else") /\ NoIf(text, m, n))
    BY <2>1, GoneNext
  <2> QED
    BY <2>1, <2>2
<1>6. \A m \in 1 .. n : /\ Section(text, m) <= Section(text, n)
                        /\ Section(text, m) = Section(text, n) <=> NoIf(text, m, n)
  BY <1>5, SectionGrows
<1>7. ASSUME NEW s, NEW i, Holds(new, s, i) PROVE Filed(text, i, s, n + 1)
  <2>1. s # Len(list) /\ Holds(list, s, i)
    BY <1>7
  <2>2. Filed(text, i, s, n)
    BY <2>1 DEF Listed
  <2>3. i.line \in 1 .. n /\ i.line \in IncludesOf(text, i.header, n + 1)
    BY <1>4, <2>2 DEF Filed
  <2>4. ~NoIf(text, i.line, n)
    BY <1>3, <1>6, <2>1, <2>2, <2>3 DEF Filed
  <2>5. ~Gone(text, i.line, n + 1)
    BY <1>5, <2>2, <2>3, <2>4 DEF Filed
  <2> QED
    BY <2>2, <2>3, <2>5 DEF Filed
<1>8. ASSUME NEW h, NEW m \in IncludesOf(text, h, n + 1), Recorded(Headers[h]), ~Gone(text, m, n + 1)
      PROVE  Has(new, h, m)
  <2>1. m \in IncludesOf(text, h, n) /\ m \in 1 .. n
    BY <1>4
  <2>2. ~Gone(text, m, n) /\ ~NoIf(text, m, n)
    BY <1>5, <1>8, <2>1
  <2>3. Has(list, h, m)
    BY <1>8, <2>1, <2>2 DEF Listed
  <2>4. PICK s, i : Holds(list, s, i) /\ i.header = h /\ i.line <= m
    BY <2>3 DEF Has
  <2>5. Filed(text, i, s, n)
    BY <2>4 DEF Listed
  <2>6. i.line \in 1 .. n /\ s = Section(text, i.line)
    BY <1>4, <2>5 DEF Filed
  <2>7. Section(text, i.line) <= Section(text, m)
    BY <1>5, <2>1, <2>4, <2>6, SectionGrows
  <2>8. Section(text, m) \in Nat /\ Section(text, i.line) \in Nat
    BY <1>5, <2>1, <2>6, SectionNext
  <2>9. Section(text, m) <= Section(text, n) /\ Section(text, m) # Section(text, n)
    BY <1>6, <2>1, <2>2
  <2>10. s # Len(list)
    BY <1>2, <1>3, <2>6, <2>7, <2>8, <2>9
  <2> QED
    BY <2>4, <2>10 DEF Has
<1> QED
  BY <1>3, <1>7, <1>8 DEF Listed

\* A line that adds nothing: another kind of line, an include that is not kept,
\* or one of a header that a list holds.
LEMMA ListedStays ==
  ASSUME NEW text, NEW n \in Nat, NEW list, Listed(text, list, n),
         ~Starts(text[n + 1], "#if"), ~Starts(text[n + 1], "#else"),
         IsInclude(text[n + 1]) =>
           LET h == IncludeOf(text[n + 1]) IN
           Headers[h].source \/ ~Recorded(Headers[h]) \/ Has(list, h, n)
  PROVE  Listed(text, list, n + 1)
<1>1. Len(list) = Section(text, n + 1)
  <2>1. Section(text, n) \in Nat /\ Section(text, n + 1) = Section(text, n)
    BY SectionNext
  <2> QED
    BY <2>1 DEF Listed
<1>2. \A m \in 1 .. n : Gone(text, m, n + 1) <=> Gone(text, m, n)
  BY GoneNext
<1>3. \A h : IncludesOf(text, h, n) \subseteq 1 .. n /\ IncludesOf(text, h, n) \subseteq IncludesOf(text, h, n + 1)
  BY IncludesNext
<1>4. \A s, i : Filed(text, i, s, n) => Filed(text, i, s, n + 1)
  BY <1>2, <1>3 DEF Filed
<1>5. \A s, i : Holds(list, s, i) => Filed(text, i, s, n + 1)
  BY <1>4 DEF Listed
<1>6. ASSUME NEW h, NEW m \in IncludesOf(text, h, n + 1), Recorded(Headers[h]), ~Gone(text, m, n + 1)
      PROVE  Has(list, h, m)
  <2>1. CASE m \in IncludesOf(text, h, n)
    BY <1>2, <1>3, <1>6, <2>1 DEF Listed
  <2>2. CASE m \notin IncludesOf(text, h, n)
    <3>1. /\ IsInclude(text[n + 1]) /\ IncludeOf(text[n + 1]) = h /\ ~Headers[h].source
          /\ m = n + 1
      BY <2>2, IncludesNext
    <3>2. Has(list, h, n)
      BY <1>6, <3>1
    <3>3. PICK s, i : Holds(list, s, i) /\ i.header = h /\ i.line <= n
      BY <3>2 DEF Has
    <3>4. Filed(text, i, s, n)
      BY <3>3 DEF Listed
    <3>5. i.line \in 1 .. n
      BY <1>3, <3>4 DEF Filed
    <3>6. i.line <= m
      BY <3>1, <3>3, <3>5
    <3> QED
      BY <3>3, <3>6 DEF Has
  <2> QED
    BY <2>1, <2>2
<1> QED
  BY <1>1, <1>5, <1>6 DEF Listed

\* An include that is kept.
LEMMA ListedNew ==
  ASSUME NEW text, NEW n \in Nat, NEW list, Listed(text, list, n),
         IsInclude(text[n + 1]), NEW h, h = IncludeOf(text[n + 1]),
         ~Headers[h].source, Recorded(Headers[h]),
         NEW new, Len(new) = Len(list),
         \A s, i : Holds(new, s, i) <=>
           Holds(list, s, i) \/ (s = Len(list) /\ i = [header |-> h, line |-> n + 1])
  PROVE  Listed(text, new, n + 1)
<1> DEFINE x == [header |-> h, line |-> n + 1]
<1>1. ~Starts(text[n + 1], "#if") /\ ~Starts(text[n + 1], "#else")
  BY OneKind
<1>2. Section(text, n) \in Nat /\ Section(text, n + 1) = Section(text, n)
  BY <1>1, SectionNext
<1>3. Len(list) = Section(text, n + 1) /\ Len(new) = Section(text, n + 1)
  BY <1>2 DEF Listed
<1>4. ASSUME NEW m \in 1 .. n PROVE Gone(text, m, n + 1) <=> Gone(text, m, n)
  <2>1. m \in Nat /\ m <= n
    OBVIOUS
  <2> QED
    BY <1>1, <2>1, GoneNext
<1>5. ~Gone(text, n + 1, n + 1)
  BY GoneNext
<1>6. \A g : IncludesOf(text, g, n) \subseteq 1 .. n /\ IncludesOf(text, g, n) \subseteq IncludesOf(text, g, n + 1)
  BY IncludesNext
<1>7. x.header = h /\ x.line = n + 1 /\ n + 1 \in IncludesOf(text, h, n + 1)
  BY IncludesNext
<1> HIDE DEF x
<1>8. \A s, i : Holds(new, s, i) <=> Holds(list, s, i) \/ (s = Len(list) /\ i = x)
  BY DEF x
<1>9. \A s, i : Filed(text, i, s, n) => Filed(text, i, s, n + 1)
  BY <1>4, <1>6 DEF Filed
<1>10. Filed(text, x, Len(list), n + 1)
  BY <1>3, <1>5, <1>7 DEF Filed
<1>11. \A s, i : Holds(new, s, i) => Filed(text, i, s, n + 1)
  BY <1>8, <1>9, <1>10 DEF Listed
<1>12. ASSUME NEW g, NEW m \in IncludesOf(text, g, n + 1), Recorded(Headers[g]), ~Gone(text, m, n + 1)
       PROVE  Has(new, g, m)
  <2>1. CASE m \in IncludesOf(text, g, n)
    <3>1. Has(list, g, m)
      BY <1>4, <1>6, <1>12, <2>1 DEF Listed
    <3> QED
      BY <1>8, <3>1 DEF Has
  <2>2. CASE m \notin IncludesOf(text, g, n)
    <3>1. g = h /\ m = n + 1
      BY <2>2, IncludesNext
    <3>2. Holds(new, Len(list), x) /\ x.header = g /\ x.line <= m
      BY <1>7, <1>8, <3>1
    <3> QED
      BY <3>2 DEF Has
  <2> QED
    BY <2>1, <2>2
<1> QED
  BY <1>3, <1>11, <1>12 DEF Listed

------------------------------------------------------------------------------
\* What Language does to the lists, and what it tells of.

\* Only an include that is found, or of a source file, is told of as included
\* before.
IncludeReports == {Report(<<>>), Report(<<"_subdir">>), Report(<<"_order">>), Report(<<"_alpha">>)}

LEMMA IfRange ==
  ASSUME NEW c, NEW name, Report(name) \in IncludeReports
  PROVE  /\ If(c, name) \in Seq(IncludeReports)
         /\ \A r : r \in Range(If(c, name)) <=> c /\ r = Report(name)
<1> DEFINE x == Report(name)
<1>1. CASE c
  <2>1. If(c, name) = <<x>>
    BY <1>1 DEF If
  <2> HIDE DEF x
  <2>2. <<x>> \in Seq({x}) /\ DOMAIN <<x>> = {1} /\ <<x>>[1] = x
    OBVIOUS
  <2>3. {x} \subseteq IncludeReports
    BY DEF x
  <2>4. <<x>> \in Seq(IncludeReports)
    BY <2>2, <2>3, SeqMonotonic
  <2>5. Range(<<x>>) = {x}
    BY <2>2 DEF Range
  <2> QED
    BY <1>1, <2>1, <2>4, <2>5 DEF x
<1>2. CASE ~c
  <2>1. If(c, name) = <<>>
    BY <1>2 DEF If
  <2>2. <<>> \in Seq(IncludeReports) /\ Range(<<>>) = {}
    BY DEF Range
  <2> QED
    BY <1>2, <2>1, <2>2
<1> QED
  BY <1>1, <1>2

LEMMA ReportNames ==
  /\ Report(<<>>) = [category |-> <<"build", "include">>, confidence |-> 4]
  /\ Report(<<"_subdir">>) = [category |-> <<"build", "include", "_subdir">>, confidence |-> 4]
  /\ Report(<<"_order">>) = [category |-> <<"build", "include", "_order">>, confidence |-> 4]
  /\ Report(<<"_alpha">>) = [category |-> <<"build", "include", "_alpha">>, confidence |-> 4]
<1>1. Report(<<>>) = [category |-> <<"build", "include">>, confidence |-> 4]
  BY DEF Report
<1>2. \A x : Report(<<x>>) = [category |-> <<"build", "include", x>>, confidence |-> 4]
  BY IncludeCategory, Zenon DEF Report
<1> QED
  BY <1>1, <1>2

LEMMA LanguageTells ==
  ASSUME NEW n
  PROVE  /\ Language(n).reports \in Seq(IncludeReports)
         /\ Report(<<>>) \in Range(Language(n).reports) <=> IsInclude(elided[n]) /\ Again(n)
<1> DEFINE name == IncludeOf(elided[n])
           h == Headers[name]
           a == Report(<<>>)
           bare == Subdir(h)
           told(late, unsorted) == bare \o If(late, <<"_order">>) \o If(unsorted, <<"_alpha">>)
           S == IncludeReports
           again == If(TRUE, <<>>)
<1>1. /\ Report(<<"_subdir">>) # a /\ Report(<<"_order">>) # a /\ Report(<<"_alpha">>) # a
      /\ Report(<<"_subdir">>) \in S /\ Report(<<"_order">>) \in S /\ Report(<<"_alpha">>) \in S
      /\ Report(<<>>) \in S
  BY ReportNames DEF IncludeReports
<1>2. bare \in Seq(S) /\ a \notin Range(bare)
  BY <1>1, IfRange DEF Subdir
<1>3. again \in Seq(S) /\ a \in Range(again)
  BY <1>1, IfRange
<1>4. ASSUME NEW c
      PROVE  /\ If(c, <<"_order">>) \in Seq(S) /\ a \notin Range(If(c, <<"_order">>))
             /\ If(c, <<"_alpha">>) \in Seq(S) /\ a \notin Range(If(c, <<"_alpha">>))
  BY <1>1, IfRange
<1> HIDE DEF S, a, bare, again
<1>5. bare \o again \in Seq(S) /\ a \in Range(bare \o again)
  BY <1>2, <1>3, ConcatRange
<1>6. ASSUME NEW late, NEW unsorted
      PROVE  told(late, unsorted) \in Seq(S) /\ a \notin Range(told(late, unsorted))
  <2> DEFINE o == If(late, <<"_order">>)
             l == If(unsorted, <<"_alpha">>)
  <2>1. o \in Seq(S) /\ a \notin Range(o) /\ l \in Seq(S) /\ a \notin Range(l)
    BY <1>4
  <2> HIDE DEF o, l
  <2> DEFINE u == bare \o o
  <2>2. u \in Seq(S) /\ a \notin Range(u)
    BY <1>2, <2>1, ConcatRange
  <2> HIDE DEF u
  <2>3. u \o l \in Seq(S) /\ a \notin Range(u \o l)
    BY <2>1, <2>2, ConcatRange
  <2> QED
    BY <2>3 DEF u, o, l
<1>7. <<>> \in Seq(S) /\ Range(<<>>) = {}
  BY DEF Range
<1> HIDE DEF told
<1> DEFINE reports == Language(n).reports
<1>8. /\ ~IsInclude(elided[n]) => reports = <<>>
      /\ IsInclude(elided[n]) /\ Again(n) => reports = bare \o again
      /\ IsInclude(elided[n]) /\ ~Again(n) /\ ~Recorded(h) => reports = bare
      /\ IsInclude(elided[n]) /\ ~Again(n) /\ Recorded(h) =>
           \E late, unsorted : reports = told(late, unsorted)
  BY LanguageIs, Zenon DEF bare, told, again
<1> HIDE DEF reports
<1>9. reports \in Seq(S) /\ (a \in Range(reports) <=> IsInclude(elided[n]) /\ Again(n))
  <2>1. CASE ~IsInclude(elided[n])
    BY <1>7, <1>8, <2>1
  <2>2. CASE IsInclude(elided[n]) /\ Again(n)
    BY <1>5, <1>8, <2>2
  <2>3. CASE IsInclude(elided[n]) /\ ~Again(n) /\ ~Recorded(h)
    BY <1>2, <1>8, <2>3
  <2>4. CASE IsInclude(elided[n]) /\ ~Again(n) /\ Recorded(h)
    <3>1. PICK late, unsorted : reports = told(late, unsorted)
      BY <1>8, <2>4
    <3> QED
      BY <1>6, <2>4, <3>1
  <2> QED
    BY <2>1, <2>2, <2>3, <2>4
<1> QED
  BY <1>9 DEF reports, a, S

\* A header is found when a list holds one of its includes.
LEMMA FindHeaderIs ==
  ASSUME NEW st, NEW h
  PROVE  FindHeader(st, h) <=> \E s, i : Holds(st.include_list, s, i) /\ i.header = h
BY DEF FindHeader, Holds

LEMMA FoundBefore ==
  ASSUME NEW text, NEW st, NEW n \in Nat, Listed(text, st.include_list, n), NEW h
  PROVE  /\ FindHeader(st, h) <=> Has(st.include_list, h, n)
         /\ FindHeader(st, h) <=> Recorded(Headers[h]) /\
              \E m \in IncludesOf(text, h, n) : ~Gone(text, m, n)
<1> DEFINE list == st.include_list
<1>1. IncludesOf(text, h, n) \subseteq 1 .. n
  BY IncludesNext
<1>2. ASSUME FindHeader(st, h)
      PROVE  /\ Has(list, h, n) /\ Recorded(Headers[h])
             /\ \E m \in IncludesOf(text, h, n) : ~Gone(text, m, n)
  <2>1. PICK s, i : Holds(list, s, i) /\ i.header = h
    BY <1>2, FindHeaderIs
  <2>2. Filed(text, i, s, n)
    BY <2>1 DEF Listed
  <2>3. i.line \in IncludesOf(text, h, n) /\ ~Gone(text, i.line, n) /\ Recorded(Headers[h])
    BY <2>1, <2>2 DEF Filed
  <2>4. i.line <= n
    BY <1>1, <2>3
  <2> QED
    BY <2>1, <2>3, <2>4 DEF Has
<1>3. Has(list, h, n) => FindHeader(st, h)
  BY FindHeaderIs DEF Has
<1>4. ASSUME Recorded(Headers[h]), NEW m \in IncludesOf(text, h, n), ~Gone(text, m, n)
      PROVE  FindHeader(st, h)
  <2>1. Has(list, h, m)
    BY <1>4 DEF Listed
  <2> QED
    BY <2>1, FindHeaderIs DEF Has
<1> QED
  BY <1>2, <1>3, <1>4

ListType(list) == \E X : list \in Seq(Seq(X))

LEMMA LanguageFiles ==
  ASSUME NEW n \in Nat, ListType(include_state.include_list),
         Listed(elided, include_state.include_list, n)
  PROVE  /\ ListType(Language(n + 1).st.include_list)
         /\ Listed(elided, Language(n + 1).st.include_list, n + 1)
<1> DEFINE list == include_state.include_list
           new == Language(n + 1).st.include_list
           line == elided[n + 1]
           name == IncludeOf(line)
           x == [header |-> name, line |-> n + 1]
<1>1. PICK X : list \in Seq(Seq(X))
  BY DEF ListType
<1>2. list # <<>>
  <2>1. Len(list) >= 1
    BY SectionNext DEF Listed
  <2> QED
    BY <2>1
<1>3. list \in Seq(Seq(X)) /\ ListType(list) /\ Listed(elided, list, n)
  BY <1>1 DEF ListType
<1>4. /\ ~IsInclude(line) =>
           Language(n + 1).st = IF \E d \in {"#if", "#else", "#endif"} : Starts(line, d)
                                THEN ResetSection(include_state, line) ELSE include_state
      /\ IsInclude(line) /\ (Again(n + 1) \/ ~Recorded(Headers[name])) => new = list
      /\ IsInclude(line) /\ ~Again(n + 1) /\ Recorded(Headers[name]) =>
           new = SetLast(list, Append(Last(list), x))
  BY LanguageIs, Zenon DEF WithInclude
<1>5. ResetSection(include_state, line).include_list =
        CASE Starts(line, "#if") -> Append(list, <<>>)
          [] Starts(line, "#else") -> SetLast(list, <<>>)
          [] OTHER -> list
  BY DEF ResetSection
<1>6. Again(n + 1) <=> Has(list, name, n) \/ Headers[name].source
  BY FoundBefore DEF Again
<1> HIDE DEF new, list
<1>7. CASE Starts(line, "#if")
  <2>1. ~IsInclude(line) /\ \E d \in {"#if", "#else", "#endif"} : Starts(line, d)
    BY <1>7, OneKind
  <2>2. new = Append(list, <<>>)
    <3>1. ResetSection(include_state, line).include_list = Append(list, <<>>)
      BY <1>5, <1>7, OneKind
    <3>2. Language(n + 1).st = ResetSection(include_state, line)
      BY <1>4, <2>1
    <3> QED
      BY <3>1, <3>2 DEF new
  <2>3. /\ new \in Seq(Seq(X)) /\ Len(new) = Len(list) + 1
        /\ \A s, i : Holds(new, s, i) <=> Holds(list, s, i)
    BY <1>3, <2>2, HoldsIf
  <2>4. Listed(elided, new, n + 1)
    BY <1>3, <1>7, <2>3, ListedIf
  <2> QED
    BY <2>3, <2>4 DEF ListType, new
<1>8. CASE Starts(line, "#else")
  <2>1. ~Starts(line, "#if") /\ ~IsInclude(line) /\ \E d \in {"#if", "#else", "#endif"} : Starts(line, d)
    BY <1>8, OneKind
  <2>2. new = SetLast(list, <<>>)
    BY <1>4, <1>5, <1>8, <2>1 DEF new
  <2>3. /\ new \in Seq(Seq(X)) /\ Len(new) = Len(list)
        /\ \A s, i : Holds(new, s, i) <=> s # Len(list) /\ Holds(list, s, i)
    BY <1>2, <1>3, <2>2, HoldsElse
  <2>4. Listed(elided, new, n + 1)
    BY <1>3, <1>8, <2>3, ListedElse
  <2> QED
    BY <2>3, <2>4 DEF ListType, new
<1>9. CASE ~Starts(line, "#if") /\ ~Starts(line, "#else") /\
           (IsInclude(line) => Again(n + 1) \/ ~Recorded(Headers[name]))
  <2>1. new = list
    <3>1. CASE IsInclude(line)
      BY <1>4, <1>9, <3>1
    <3>2. CASE ~IsInclude(line)
      BY <1>4, <1>5, <1>9, <3>2 DEF new, list
    <3> QED
      BY <3>1, <3>2
  <2>2. IsInclude(line) => Headers[name].source \/ ~Recorded(Headers[name]) \/ Has(list, name, n)
    BY <1>6, <1>9
  <2>3. Listed(elided, list, n + 1)
    BY <1>3, <1>9, <2>2, ListedStays
  <2> QED
    BY <1>3, <2>1, <2>3 DEF new
<1>10. CASE IsInclude(line) /\ ~Again(n + 1) /\ Recorded(Headers[name])
  <2>1. new = SetLast(list, Append(Last(list), x))
    BY <1>4, <1>10
  <2>2. /\ new \in Seq(Seq(X \cup {x})) /\ Len(new) = Len(list)
        /\ \A s, i : Holds(new, s, i) <=> Holds(list, s, i) \/ (s = Len(list) /\ i = x)
    <3> HIDE DEF x
    <3> QED
      BY <1>2, <1>3, <2>1, HoldsNew
  <2>3. ~Headers[name].source
    BY <1>6, <1>10
  <2>4. Listed(elided, new, n + 1)
    <3> HIDE DEF name
    <3>1. name = IncludeOf(elided[n + 1])
      BY DEF name
    <3> QED
      BY <1>3, <1>10, <2>2, <2>3, <3>1, ListedNew
  <2> QED
    BY <2>2, <2>4 DEF ListType, new
<1> QED
  BY <1>7, <1>8, <1>9, <1>10

------------------------------------------------------------------------------
\* What is told of the includes, and when.

IncludeCategories == {Report(<<>>).category, Report(<<"_what_you_use">>).category}

\* The reports that are of something else.
Other(reports) ==
  (\E E : reports \in Seq(E)) /\ \A r \in Range(reports) : r.category \notin IncludeCategories

LEMMA CategoriesAre ==
  /\ Report(<<>>).category = <<"build", "include">>
  /\ Report(<<"_what_you_use">>).category = <<"build", "include", "_what_you_use">>
  /\ Report(<<>>).confidence = 4
<1>1. Report(<<"_what_you_use">>) = [category |-> <<"build", "include", "_what_you_use">>, confidence |-> 4]
  BY IncludeCategory, Zenon DEF Report
<1> QED
  BY <1>1, ReportNames

LEMMA OtherNone == Other(<<>>)
<1>1. <<>> \in Seq({0}) /\ Range(<<>>) = {}
  BY DEF Range
<1> QED
  BY <1>1, Zenon DEF Other

LEMMA OtherOne ==
  ASSUME NEW r, r.category \notin IncludeCategories
  PROVE  Other(<<r>>)
<1>1. <<r>> \in Seq({r}) /\ Range(<<r>>) = {r}
  BY DEF Range
<1> QED
  BY <1>1, Zenon DEF Other

LEMMA SeqsConcat ==
  ASSUME NEW s, NEW t, \E S : s \in Seq(S), \E T : t \in Seq(T)
  PROVE  (\E U : s \o t \in Seq(U)) /\ Range(s \o t) = Range(s) \cup Range(t)
<1>1. PICK S, T : s \in Seq(S) /\ t \in Seq(T)
  OBVIOUS
<1> DEFINE X == S \cup T
<1>2. s \in Seq(X) /\ t \in Seq(X)
  BY <1>1, SeqMonotonic
<1> HIDE DEF X
<1> QED
  BY <1>2, ConcatRange

LEMMA OtherConcat ==
  ASSUME NEW s, NEW t, Other(s), Other(t)
  PROVE  Other(s \o t)
<1> DEFINE u == s \o t
<1>1. (\E U : u \in Seq(U)) /\ Range(u) = Range(s) \cup Range(t)
  BY SeqsConcat DEF Other
<1> HIDE DEF u
<1>2. Other(u)
  BY <1>1 DEF Other
<1> QED
  BY <1>2 DEF u

LEMMA OtherReporting ==
  ASSUME NEW c, NEW r, r.category \notin IncludeCategories
  PROVE  Other(Reporting(c, r))
BY OtherNone, OtherOne, Zenon DEF Reporting

LEMMA OtherErrors ==
  ASSUME NEW n
  PROVE  /\ On(n, MultiLineError).category \notin IncludeCategories
         /\ On(n, StringError).category \notin IncludeCategories
         /\ On(n, NolintError).category \notin IncludeCategories
         /\ On(n, LoopError).category \notin IncludeCategories
         /\ On(n, ConditionalError).category \notin IncludeCategories
         /\ On(n, EmptyIfError).category \notin IncludeCategories
         /\ On(n, BracesError).category \notin IncludeCategories
BY CategoriesAre DEF IncludeCategories, On, MultiLineError, StringError, NolintError, LoopError,
   ConditionalError, EmptyIfError, BracesError

LEMMA OtherUnknown ==
  ASSUME NEW n
  PROVE  Other(UnknownOn(n))
BY OtherErrors, OtherReporting, Zenon DEF UnknownOn

LEMMA OtherMultiline ==
  ASSUME NEW n
  PROVE  Other(MultilineReports(n))
<1>1. /\ Other(Reporting(Count(elided[n], {"/*"}) > Count(elided[n], {"*/"}), On(n, MultiLineError)))
      /\ Other(Reporting(Quotes(elided[n]) % 2 = 1, On(n, StringError)))
  BY OtherErrors, OtherReporting, Zenon
<1> QED
  BY <1>1, OtherConcat, Zenon DEF MultilineReports

LEMMA OtherEmptyBody ==
  ASSUME NEW n
  PROVE  Other(EmptyBodyReports(n))
<1> DEFINE close == CloseExpression(n, Where(elided[n], "("))
           r == On(close.line, IF Starts(elided[n], "if") THEN ConditionalError ELSE LoopError)
<1>1. EmptyBodyReports(n) = <<r>> \/ EmptyBodyReports(n) = <<>>
  BY Zenon DEF EmptyBodyReports
<1>2. r.category \notin IncludeCategories
  <2> HIDE DEF close
  <2> QED
    BY OtherErrors
<1> HIDE DEF r
<1> QED
  BY <1>1, <1>2, OtherNone, OtherOne, Zenon

LEMMA OtherEmptyIf ==
  ASSUME NEW n
  PROVE  Other(EmptyIfReports(n))
BY OtherErrors, OtherReporting, Zenon DEF EmptyIfReports

LEMMA OnRange ==
  ASSUME NEW n, NEW S, NEW reports \in Seq(S)
  PROVE  /\ \E E : OnLine(n, reports) \in Seq(E)
         /\ \A r : r \in Range(OnLine(n, reports)) <=> \E q \in Range(reports) : r = On(n, q)
<1> DEFINE N == Len(reports)
           on == OnLine(n, reports)
           E == {on[k] : k \in 1 .. N}
<1>1. N \in Nat /\ DOMAIN reports = 1 .. N
  BY LenProperties
<1>2. on = [k \in 1 .. N |-> On(n, reports[k])]
  BY <1>1, Zenon DEF OnLine
<1> HIDE DEF N, on
<1>3. on \in Seq(E) /\ DOMAIN on = 1 .. N /\ \A k \in 1 .. N : on[k] = On(n, reports[k])
  BY <1>1, <1>2
<1>4. ASSUME NEW r
      PROVE  r \in Range(on) <=> \E q \in Range(reports) : r = On(n, q)
  BY <1>1, <1>3 DEF Range
<1> HIDE DEF E
<1> QED
  BY <1>3, <1>4 DEF on

LEMMA OtherLength ==
  ASSUME NEW st, NEW text, NEW n, NEW verbose
  PROVE  Other(OnLine(n, CheckForFunctionLengths(st, text, n, verbose).reports))
<1> DEFINE reports == CheckForFunctionLengths(st, text, n, verbose).reports
           on == OnLine(n, reports)
<1>1. reports = <<>> \/ \E c \in Nat : reports = <<FnSize(c)>>
  BY LengthIs
<1> HIDE DEF reports
<1>2. \E S : reports \in Seq(S) /\ \A q \in Range(reports) : \E c : q = FnSize(c)
  <2>1. CASE reports = <<>>
    <3>1. reports \in Seq({0}) /\ Range(reports) = {}
      BY <2>1 DEF Range
    <3> QED
      BY <3>1
  <2>2. CASE \E c \in Nat : reports = <<FnSize(c)>>
    <3>1. PICK c \in Nat : reports = <<FnSize(c)>>
      BY <2>2
    <3>2. reports \in Seq({FnSize(c)}) /\ Range(reports) = {FnSize(c)}
      BY <3>1 DEF Range
    <3> QED
      BY <3>2
  <2> QED
    BY <1>1, <2>1, <2>2
<1>3. PICK S : reports \in Seq(S) /\ \A q \in Range(reports) : \E c : q = FnSize(c)
  BY <1>2
<1>4. /\ \E E : on \in Seq(E)
      /\ \A r \in Range(on) : \E q \in Range(reports) : r = On(n, q)
  BY <1>3, OnRange
<1>5. \A c : On(n, FnSize(c)).category \notin IncludeCategories
  BY CategoriesAre DEF IncludeCategories, On, FnSize
<1> HIDE DEF on
<1>6. Other(on)
  BY <1>3, <1>4, <1>5 DEF Other
<1> QED
  BY <1>6 DEF on, reports

LEMMA OtherBraces ==
  ASSUME NEW end
  PROVE  Other(IF end = 0 THEN <<>>
               ELSE UnknownOn(end - 1) \o UnknownOn(end) \o <<On(end, BracesError)>>)
<1>1. Other(<<On(end, BracesError)>>) /\ Other(UnknownOn(end - 1)) /\ Other(UnknownOn(end))
  BY OtherErrors, OtherOne, OtherUnknown
<1>2. Other(UnknownOn(end - 1) \o UnknownOn(end))
  BY <1>1, OtherConcat
<1>3. Other(UnknownOn(end - 1) \o UnknownOn(end) \o <<On(end, BracesError)>>)
  BY <1>1, <1>2, OtherConcat
<1> QED
  BY <1>3, OtherNone, Zenon

\* Of the line at work the includes are told of by Language, and by no other.
LEMMA LineTells ==
  ASSUME ProcessLine
  PROVE  \E supp, reports :
           /\ Reported(supp, reports)
           /\ \A r \in Range(reports) : r.category \in IncludeCategories =>
                \E q \in Range(Language(linenum).reports) : r = On(linenum, q)
           /\ \A q \in Range(Language(linenum).reports) : On(linenum, q) \in Range(reports)
<1> DEFINE n == linenum
           function == OnLine(n, CheckForFunctionLengths(function_state, lines, n, verbose_level).reports)
           language == OnLine(n, Language(n).reports)
           end == TrailingSemicolon(n)
           braces == IF end = 0 THEN <<>>
                     ELSE UnknownOn(end - 1) \o UnknownOn(end) \o <<On(end, BracesError)>>
           other == UnknownOn(n) \o function \o MultilineReports(n) \o braces
                      \o EmptyBodyReports(n) \o EmptyIfReports(n)
           reports == other \o language
           supp == suppressions \cup Suppressed({n} \cup Ahead(end))
<1>1. Reported(supp, reports)
  BY Zenon DEF ProcessLine
<1>2. Other(other)
  <2>1. Other(function) /\ Other(braces)
    BY OtherLength, OtherBraces
  <2> HIDE DEF function, braces, n
  <2>2. Other(UnknownOn(n) \o function)
    BY <2>1, OtherUnknown, OtherConcat
  <2>3. Other(UnknownOn(n) \o function \o MultilineReports(n))
    BY <2>2, OtherMultiline, OtherConcat
  <2>4. Other(UnknownOn(n) \o function \o MultilineReports(n) \o braces)
    BY <2>1, <2>3, OtherConcat
  <2>5. Other(UnknownOn(n) \o function \o MultilineReports(n) \o braces \o EmptyBodyReports(n))
    BY <2>4, OtherEmptyBody, OtherConcat
  <2> QED
    BY <2>5, OtherEmptyIf, OtherConcat
<1> HIDE DEF other, supp
<1>3. /\ \E E : language \in Seq(E)
      /\ \A r : r \in Range(language) <=> \E q \in Range(Language(n).reports) : r = On(n, q)
  BY LanguageTells, OnRange
<1> HIDE DEF language
<1>4. Range(reports) = Range(other) \cup Range(language)
  BY <1>2, <1>3, SeqsConcat DEF Other
<1> HIDE DEF reports
<1>5. \A r \in Range(reports) : r.category \in IncludeCategories =>
        \E q \in Range(Language(n).reports) : r = On(n, q)
  BY <1>2, <1>3, <1>4 DEF Other
<1>6. \A q \in Range(Language(n).reports) : On(n, q) \in Range(reports)
  BY <1>3, <1>4
<1> QED
  BY <1>1, <1>5, <1>6

LEMMA ReportedAre ==
  ASSUME NEW supp, NEW reports, Reported(supp, reports)
  PROVE  Reports' = Reports \cup Range(reports)
<1> DEFINE new == {[report |-> reports[k], at |-> linenum] : k \in DOMAIN reports}
<1>1. found' = found \cup new
  BY Zenon DEF Reported
<1>2. ASSUME NEW r \in Range(reports) PROVE \E e \in new : e.report = r
  <2>1. PICK k \in DOMAIN reports : r = reports[k]
    BY DEF Range
  <2> DEFINE e == [report |-> reports[k], at |-> linenum]
  <2>2. e \in new /\ e.report = r
    BY <2>1
  <2> QED
    BY <2>2
<1>3. \A e \in new : e.report \in Range(reports)
  BY DEF Range
<1> HIDE DEF new
<1>4. \A r : r \in Reports' <=> r \in Reports \/ \E e \in new : e.report = r
  BY <1>1 DEF Reports
<1> QED
  BY <1>2, <1>3, <1>4

\* The end asks for the headers that are missing, and tells of no include.
LEMMA EndTells ==
  ASSUME TypeOK, EndOfData
  PROVE  \E supp, reports :
           /\ Reported(supp, reports)
           /\ \A r \in Range(reports) : r # On(r.line, Report(<<>>))
           /\ \A n \in DOMAIN elided :
                WhatReport(n) \in Range(reports) <=>
                  MissingOn(include_state, elided, file.source, n) # {}
<1> DEFINE completed == CompletedBlocks(nesting_state.stack)
           what == CheckForIncludeWhatYouUse(include_state, elided, file.source)
           header == IF file.has_header THEN CheckHeaderFileIncluded(include_state) ELSE <<>>
           reports == completed \o what \o header
<1>1. Reported(suppressions, reports)
  BY Zenon DEF EndOfData
<1>2. nesting_state.stack \in Seq(Blocks) /\ elided \in Seq(Seq(Tokens))
  BY DEF TypeOK
<1>3. /\ \E E : completed \in Seq(E)
      /\ \A r \in Range(completed) : r.category \in {<<"build", "class">>, <<"build", "namespaces">>}
  <2> DEFINE stack == nesting_state.stack
             open == {k \in DOMAIN stack : stack[k].kind \in {"class", "namespace"}}
             order == SetToSortSeq(open, <)
             At(k) == [line |-> stack[order[k]].starting_linenum, confidence |-> 5,
                       category |-> IF stack[order[k]].kind = "class" THEN <<"build", "class">>
                                    ELSE <<"build", "namespaces">>]
  <2>1. completed = [k \in 1 .. Cardinality(open) |-> At(k)]
    BY Zenon DEF CompletedBlocks
  <2>2. \A k : At(k).category \in {<<"build", "class">>, <<"build", "namespaces">>}
    OBVIOUS
  <2>3. \E E : completed \in Seq(E)
    BY <1>2, CompletedLists DEF Lists
  <2> HIDE DEF At, completed
  <2> QED
    BY <2>1, <2>2, <2>3 DEF Range
<1>4. /\ \E E : what \in Seq(E)
      /\ \A r : r \in Range(what) <=>
           \E n \in DOMAIN elided :
             MissingOn(include_state, elided, file.source, n) # {} /\ r = WhatReport(n)
  BY <1>2, WhatIs
<1>5. /\ \E E : header \in Seq(E)
      /\ \A r \in Range(header) : r.category = <<"build", "include">> /\ r.confidence = 5
  <2> DEFINE st == include_state
             all == FlattenSeq(st.include_list)
             x == [category |-> <<"build", "include">>, confidence |-> 5,
                   line |-> IF all = <<>> THEN 0 ELSE all[1].line]
  <2>1. header = <<>> \/ header = <<x>>
    BY Zenon DEF CheckHeaderFileIncluded
  <2> HIDE DEF all
  <2>2. x.category = <<"build", "include">> /\ x.confidence = 5
    OBVIOUS
  <2> HIDE DEF x, header
  <2>3. CASE header = <<>>
    <3>1. header \in Seq({0}) /\ Range(header) = {}
      BY <2>3 DEF Range
    <3> QED
      BY <3>1
  <2>4. CASE header = <<x>>
    <3>1. header \in Seq({x}) /\ Range(header) = {x}
      BY <2>4 DEF Range
    <3> QED
      BY <2>2, <3>1
  <2> QED
    BY <2>1, <2>3, <2>4
<1> HIDE DEF completed, what, header
<1>6. Range(reports) = Range(completed) \cup Range(what) \cup Range(header)
  <2> DEFINE both == completed \o what
  <2>1. (\E E : both \in Seq(E)) /\ Range(both) = Range(completed) \cup Range(what)
    BY <1>3, <1>4, SeqsConcat
  <2> HIDE DEF both
  <2>2. Range(both \o header) = Range(both) \cup Range(header)
    BY <1>5, <2>1, SeqsConcat
  <2> QED
    BY <2>1, <2>2 DEF both
<1> HIDE DEF reports
<1>7. \A n : /\ WhatReport(n).category = <<"build", "include", "_what_you_use">>
             /\ \A m : WhatReport(m) = WhatReport(n) => m = n
  BY WhatCategory
<1>8. \A n : On(n, Report(<<>>)).category = <<"build", "include">> /\ On(n, Report(<<>>)).confidence = 4
  BY CategoriesAre DEF On
<1> DEFINE i == <<"build", "include">>
           w == <<"build", "include", "_what_you_use">>
           c == <<"build", "class">>
           s == <<"build", "namespaces">>
<1>9. i # w /\ i # c /\ i # s /\ w # c /\ w # s
  OBVIOUS
<1>10. /\ \A r \in Range(completed) : r.category \in {c, s}
       /\ \A r \in Range(header) : r.category = i /\ r.confidence = 5
       /\ \A n : WhatReport(n).category = w /\ On(n, Report(<<>>)).category = i
       /\ \A n : On(n, Report(<<>>)).confidence = 4
  BY <1>3, <1>5, <1>7, <1>8
<1> HIDE DEF i, w, c, s
<1>11. ASSUME NEW r \in Range(reports) PROVE r # On(r.line, Report(<<>>))
  <2> DEFINE x == On(r.line, Report(<<>>))
  <2>0. x.category = i /\ x.confidence = 4
    BY <1>10, Zenon
  <2> HIDE DEF x
  <2> SUFFICES r # x
    BY DEF x
  <2>1. CASE r \in Range(completed)
    BY <1>9, <1>10, <2>0, <2>1
  <2>2. CASE r \in Range(what)
    <3>1. PICK n \in DOMAIN elided : r = WhatReport(n)
      BY <1>4, <2>2
    <3>2. r.category = w
      BY <1>10, <3>1, Zenon
    <3> QED
      BY <1>9, <2>0, <3>2
  <2>3. CASE r \in Range(header)
    <3>1. r.confidence = 5
      BY <1>10, <2>3
    <3> QED
      BY <2>0, <3>1
  <2> QED
    BY <1>6, <2>1, <2>2, <2>3
<1>12. ASSUME NEW n \in DOMAIN elided
       PROVE  WhatReport(n) \in Range(reports) <=>
                MissingOn(include_state, elided, file.source, n) # {}
  <2>1. WhatReport(n) \notin Range(completed) /\ WhatReport(n) \notin Range(header)
    BY <1>9, <1>10
  <2>2. WhatReport(n) \in Range(what) <=> MissingOn(include_state, elided, file.source, n) # {}
    BY <1>4, <1>7
  <2> QED
    BY <1>6, <2>1, <2>2
<1> QED
  BY <1>1, <1>11, <1>12

------------------------------------------------------------------------------
\* The includes, line after line.

Told(n) == On(n, Report(<<>>)) \in Reports
Asked(n) == WhatReport(n) \in Reports

\* Of the first n lines: what the lists hold, and which includes were told of.
IncludesSoFar(n) ==
  /\ ListType(include_state.include_list)
  /\ Listed(elided, include_state.include_list, n)
  /\ \A h : Recorded(Headers[h]) => \A m \in IncludesOf(elided, h, n) :
       Told(m) <=> \E l \in IncludesOf(elided, h, n) : l < m /\ ~Gone(elided, l, m)

ToldBefore ==
  \A r \in Reports : /\ r = On(r.line, Report(<<>>)) => r.line \in 1 .. (linenum - 1)
                     /\ r.category = Report(<<"_what_you_use">>).category => pc = "done"

IncludesInv ==
  /\ ToldBefore
  /\ pc = "prepare" => include_state = IncludeState
  /\ skipped = {} /\ pc # "prepare" => IncludesSoFar(linenum - 1)
  /\ pc = "done" => \A n \in DOMAIN elided :
                      Asked(n) <=> MissingOn(include_state, elided, file.source, n) # {}

LEMMA NoneAheadIs == NoneAhead <=> ToldBefore
BY Zenon DEF NoneAhead, ToldBefore, Reports

LEMMA OnIs ==
  ASSUME NEW n, NEW m, NEW r
  PROVE  /\ On(n, r).line = n /\ On(n, r).category = r.category
         /\ On(n, r) = On(m, r) => n = m
         /\ On(n, Report(<<"_what_you_use">>)) = WhatReport(n)
<1>1. Report(<<"_what_you_use">>) = [category |-> <<"build", "include", "_what_you_use">>, confidence |-> 4]
  BY IncludeCategory, Zenon DEF Report
<1>2. On(n, Report(<<"_what_you_use">>)) = WhatReport(n)
  BY <1>1, WhatCategory DEF On
<1> QED
  BY <1>2 DEF On

\* A step whose reports are of other things, or of an include on its line.
LEMMA ToldStep ==
  ASSUME ToldBefore, pc = "lint", linenum \in Nat \ {0}, linenum' = linenum + 1, NEW new,
         Reports' = Reports \cup new,
         \A r \in new : /\ r.category # Report(<<"_what_you_use">>).category
                        /\ r = On(r.line, Report(<<>>)) => r.line = linenum
  PROVE  ToldBefore'
<1> SUFFICES ASSUME NEW r \in Reports'
             PROVE  /\ r = On(r.line, Report(<<>>)) => r.line \in 1 .. (linenum' - 1)
                    /\ r.category = Report(<<"_what_you_use">>).category => pc' = "done"
  BY DEF ToldBefore
<1>1. 1 .. (linenum - 1) \subseteq 1 .. (linenum' - 1) /\ linenum \in 1 .. (linenum' - 1)
  OBVIOUS
<1>2. CASE r \in Reports
  <2>1. /\ r = On(r.line, Report(<<>>)) => r.line \in 1 .. (linenum - 1)
        /\ r.category # Report(<<"_what_you_use">>).category
    BY <1>2 DEF ToldBefore
  <2> QED
    BY <1>1, <2>1
<1>3. CASE r \in new
  BY <1>1, <1>3
<1> QED
  BY <1>2, <1>3

LEMMA AsmIncludes ==
  ASSUME TypeOK, IncludesInv, ProcessAsmLine
  PROVE  IncludesInv'
<1>1. /\ pc = "lint" /\ pc' = "lint" /\ skipped' # {} /\ linenum' = linenum + 1
      /\ Reported(suppressions \cup Suppressed({linenum}), UnknownOn(linenum))
  BY DEF ProcessAsmLine, Advance
<1> DEFINE new == Range(UnknownOn(linenum))
<1>2. Reports' = Reports \cup new
  BY <1>1, ReportedAre
<1>3. \A r \in new : r.category \notin IncludeCategories
  BY OtherUnknown DEF Other
<1>4. linenum \in Nat \ {0}
  BY <1>1, LenProperties DEF TypeOK
<1>5. \A r : r = On(r.line, Report(<<>>)) => r.category \in IncludeCategories
  BY OnIs DEF IncludeCategories
<1>6. \A r \in new : /\ r.category # Report(<<"_what_you_use">>).category
                     /\ r # On(r.line, Report(<<>>))
  BY <1>3, <1>5 DEF IncludeCategories
<1> HIDE DEF new
<1>7. ToldBefore'
  BY <1>1, <1>2, <1>4, <1>6, ToldStep DEF IncludesInv
<1> QED
  BY <1>1, <1>7 DEF IncludesInv

LEMMA LineIncludes ==
  ASSUME TypeOK, IncludesInv, ProcessLine
  PROVE  IncludesInv'
<1> DEFINE n == linenum - 1
           a == Report(<<>>)
<1>1. /\ pc = "lint" /\ pc' = "lint" /\ linenum' = linenum + 1 /\ skipped' = skipped
      /\ elided' = elided /\ include_state' = Language(linenum).st
  BY Zenon DEF ProcessLine, Advance, clean_lines
<1>2. n \in Nat /\ linenum = n + 1 /\ linenum' - 1 = n + 1 /\ linenum \in Nat \ {0}
  BY <1>1, LenProperties DEF TypeOK
<1>3. PICK supp, reports :
        /\ Reported(supp, reports)
        /\ \A r \in Range(reports) : r.category \in IncludeCategories =>
             \E q \in Range(Language(linenum).reports) : r = On(linenum, q)
        /\ \A q \in Range(Language(linenum).reports) : On(linenum, q) \in Range(reports)
  BY LineTells
<1> DEFINE new == Range(reports)
<1>4. Reports' = Reports \cup new
  BY <1>3, ReportedAre
<1>5. \A q \in Range(Language(linenum).reports) : q \in IncludeReports
  BY LanguageTells, ElementOfSeq, LenProperties DEF Range
<1>6. \A q \in IncludeReports : q.category # Report(<<"_what_you_use">>).category
  BY ReportNames, CategoriesAre DEF IncludeReports
<1>7. \A q : q \in IncludeReports /\ q.category = a.category => q = a
  BY ReportNames DEF IncludeReports
<1>8. ASSUME NEW r \in new
      PROVE  /\ r.category # Report(<<"_what_you_use">>).category
             /\ r = On(r.line, a) => r.line = linenum
  <2>1. CASE r.category \in IncludeCategories
    <3>1. PICK q \in Range(Language(linenum).reports) : r = On(linenum, q)
      BY <1>3, <2>1
    <3> QED
      BY <1>5, <1>6, <3>1, OnIs
  <2>2. CASE r.category \notin IncludeCategories
    <3>1. r = On(r.line, a) => r.category = a.category
      BY OnIs
    <3> QED
      BY <2>2, <3>1 DEF IncludeCategories
  <2> QED
    BY <2>1, <2>2
<1>9. On(linenum, a) \in new <=> IsInclude(elided[linenum]) /\ Again(linenum)
  <2>1. On(linenum, a) \in new <=> a \in Range(Language(linenum).reports)
    <3>1. ASSUME On(linenum, a) \in new PROVE a \in Range(Language(linenum).reports)
      <4>1. On(linenum, a).category \in IncludeCategories
        BY OnIs DEF IncludeCategories
      <4>2. PICK q \in Range(Language(linenum).reports) : On(linenum, a) = On(linenum, q)
        BY <1>3, <3>1, <4>1
      <4>3. q.category = a.category
        BY <4>2, OnIs
      <4> QED
        BY <1>5, <1>7, <4>2, <4>3
    <3> QED
      BY <1>3, <3>1
  <2> QED
    BY <2>1, LanguageTells
<1>10. ASSUME NEW m, m # linenum PROVE On(m, a) \notin new
  BY <1>8, <1>10, OnIs
<1> HIDE DEF new
<1>11. ToldBefore'
  BY <1>1, <1>2, <1>4, <1>8, ToldStep DEF IncludesInv
<1>12. ASSUME skipped = {} PROVE IncludesSoFar(linenum - 1)'
  <2> DEFINE list == include_state.include_list
             O(h) == IncludesOf(elided, h, n)
             P(h) == IncludesOf(elided, h, n + 1)
  <2>1. /\ ListType(list) /\ Listed(elided, list, n)
        /\ \A h : Recorded(Headers[h]) => \A m \in O(h) :
             Told(m) <=> \E l \in O(h) : l < m /\ ~Gone(elided, l, m)
    BY <1>1, <1>12 DEF IncludesInv, IncludesSoFar
  <2>2. /\ ListType(Language(n + 1).st.include_list)
        /\ Listed(elided, Language(n + 1).st.include_list, n + 1)
    BY <1>2, <2>1, LanguageFiles
  <2>3. /\ \A m : m # linenum => (Told(m)' <=> Told(m))
        /\ \A m : m = linenum => (Told(m)' <=> IsInclude(elided[linenum]) /\ Again(linenum))
    <3>1. \A m : Told(m)' <=> On(m, a) \in Reports \/ On(m, a) \in new
      BY <1>4 DEF Told
    <3>2. \A m : Told(m) <=> On(m, a) \in Reports
      BY DEF Told
    <3>3. On(linenum, a) \notin Reports
      <4>1. ASSUME On(linenum, a) \in Reports PROVE On(linenum, a).line \in 1 .. (linenum - 1)
        BY <4>1, OnIs DEF IncludesInv, ToldBefore
      <4>2. linenum \notin 1 .. (linenum - 1)
        BY <1>2
      <4> QED
        BY <4>1, <4>2, OnIs
    <3> QED
      BY <1>9, <1>10, <3>1, <3>2, <3>3
  <2>4. ASSUME NEW h, Recorded(Headers[h]), NEW m \in P(h)
        PROVE  Told(m)' <=> \E l \in P(h) : l < m /\ ~Gone(elided, l, m)
    <3>1. /\ O(h) \subseteq 1 .. n /\ O(h) \subseteq P(h)
          /\ \A l \in P(h) : l \in O(h) \/ l = n + 1
          /\ n + 1 \in P(h) => /\ IsInclude(elided[n + 1]) /\ IncludeOf(elided[n + 1]) = h
                               /\ ~Headers[h].source
      BY <1>2, IncludesNext DEF IncludesOf
    <3>2. CASE m \in O(h)
      <4>1. m \in 1 .. n /\ m # linenum /\ ~(n + 1 < m)
        BY <1>2, <3>1, <3>2
      <4>2. Told(m)' <=> \E l \in O(h) : l < m /\ ~Gone(elided, l, m)
        BY <2>1, <2>3, <2>4, <3>2, <4>1
      <4> QED
        BY <3>1, <4>1, <4>2
    <3>3. CASE m = n + 1
      <4>1. Told(m)' <=> FindHeader(include_state, h)
        <5>1. Told(m)' <=> IsInclude(elided[n + 1]) /\ Again(n + 1)
          BY <1>2, <2>3, <3>3
        <5>2. Again(n + 1) <=> FindHeader(include_state, h)
          BY <2>4, <3>1, <3>3, Zenon DEF Again
        <5> QED
          BY <2>4, <3>1, <3>3, <5>1, <5>2
      <4>2. FindHeader(include_state, h) <=> \E l \in O(h) : ~Gone(elided, l, n)
        BY <1>2, <2>1, <2>4, FoundBefore
      <4>3. ASSUME NEW l \in O(h) PROVE l < m /\ (Gone(elided, l, m) <=> Gone(elided, l, n))
        <5>1. l \in Nat /\ l <= n
          BY <1>2, <3>1
        <5>2. ~Starts(elided[n + 1], "#else")
          BY <2>4, <3>1, <3>3, OneKind
        <5>3. Gone(elided, l, n + 1) <=> Gone(elided, l, n)
          BY <1>2, <5>1, <5>2, GoneNext
        <5> QED
          BY <1>2, <3>3, <5>1, <5>3
      <4>4. ~(n + 1 < m)
        BY <1>2, <3>3
      <4> QED
        BY <3>1, <4>1, <4>2, <4>3, <4>4
    <3> QED
      BY <2>4, <3>1, <3>2, <3>3
  <2>5. /\ ListType(include_state'.include_list)
        /\ Listed(elided', include_state'.include_list, linenum' - 1)
    BY <1>1, <1>2, <2>2
  <2>6. \A h : Recorded(Headers[h]) => \A m \in IncludesOf(elided', h, linenum' - 1) :
          Told(m)' <=> \E l \in IncludesOf(elided', h, linenum' - 1) : l < m /\ ~Gone(elided', l, m)
    BY <1>1, <1>2, <2>4
  <2> QED
    BY <2>5, <2>6, Zenon DEF IncludesSoFar
<1> QED
  BY <1>1, <1>11, <1>12 DEF IncludesInv

LEMMA EndIncludes ==
  ASSUME TypeOK, IncludesInv, EndOfData
  PROVE  IncludesInv'
<1>1. /\ pc = "lint" /\ pc' = "done" /\ linenum' = linenum /\ skipped' = skipped
      /\ elided' = elided /\ include_state' = include_state /\ file' = file
  BY Zenon DEF EndOfData, clean_lines, state
<1>2. PICK supp, reports :
        /\ Reported(supp, reports)
        /\ \A r \in Range(reports) : r # On(r.line, Report(<<>>))
        /\ \A n \in DOMAIN elided :
             WhatReport(n) \in Range(reports) <=>
               MissingOn(include_state, elided, file.source, n) # {}
  BY EndTells
<1> DEFINE new == Range(reports)
<1>3. Reports' = Reports \cup new
  BY <1>2, ReportedAre
<1> HIDE DEF new
<1>4. ToldBefore'
  <2>1. ASSUME NEW r \in Reports'
        PROVE  r = On(r.line, Report(<<>>)) => r.line \in 1 .. (linenum - 1)
    BY <1>2, <1>3, <2>1 DEF IncludesInv, ToldBefore, new
  <2> QED
    BY <1>1, <2>1 DEF ToldBefore
<1>5. ASSUME skipped = {} PROVE IncludesSoFar(linenum - 1)'
  <2>1. IncludesSoFar(linenum - 1)
    BY <1>1, <1>5 DEF IncludesInv
  <2>2. \A m : Told(m)' <=> Told(m)
    <3>1. \A m : On(m, Report(<<>>)) \notin new
      BY <1>2, OnIs DEF new
    <3>2. \A m : /\ Told(m) <=> On(m, Report(<<>>)) \in Reports
                 /\ Told(m)' <=> On(m, Report(<<>>)) \in Reports'
      BY DEF Told
    <3> QED
      BY <1>3, <3>1, <3>2
  <2> QED
    BY <1>1, <2>1, <2>2 DEF IncludesSoFar
<1>6. ASSUME NEW n \in DOMAIN elided
      PROVE  Asked(n)' <=> MissingOn(include_state, elided, file.source, n) # {}
  <2>1. WhatReport(n) \notin Reports
    <3>1. WhatReport(n).category = Report(<<"_what_you_use">>).category
      BY OnIs
    <3> QED
      BY <1>1, <3>1 DEF IncludesInv, ToldBefore
  <2>2. Asked(n)' <=> WhatReport(n) \in Reports'
    BY DEF Asked
  <2> QED
    BY <1>2, <1>3, <2>1, <2>2 DEF new
<1> QED
  BY <1>1, <1>4, <1>5, <1>6 DEF IncludesInv

LEMMA PrepareIncludes ==
  ASSUME TypeOK, IncludesInv, Prepare
  PROVE  IncludesInv'
<1> DEFINE texts == [n \in DOMAIN file.lines |-> file.lines[n].text]
           begin == MultiLineComments(texts).begin
           r == On(begin + 1, MultiLineError)
           reports == IF begin # 0 THEN <<r>> ELSE <<>>
           list == include_state'.include_list
<1>1. /\ pc = "prepare" /\ pc' = "lint" /\ linenum' = 1 /\ Reported({}, reports)
      /\ include_state' = include_state
  BY Zenon DEF Prepare, state
<1>2. Reports = {}
  BY <1>1 DEF TypeOK, Reports
<1>3. r.category \notin IncludeCategories
  BY OtherErrors
<1> HIDE DEF r
<1>4. Other(reports)
  BY <1>3, OtherNone, OtherOne
<1> HIDE DEF reports
<1>5. Reports' = Range(reports)
  BY <1>1, <1>2, ReportedAre
<1>6. \A q \in Reports' : q.category \notin IncludeCategories
  BY <1>4, <1>5 DEF Other
<1>7. ToldBefore'
  <2>1. \A q : q = On(q.line, Report(<<>>)) => q.category \in IncludeCategories
    BY OnIs DEF IncludeCategories
  <2> QED
    BY <1>6, <2>1 DEF ToldBefore, IncludeCategories
<1>8. list = <<<<>>>>
  BY <1>1 DEF IncludesInv, IncludeState
<1>9. ListType(list) /\ Len(list) = 1 /\ \A s, i : ~Holds(list, s, i)
  <2>1. list \in Seq(Seq({0})) /\ Len(list) = 1 /\ DOMAIN list = {1} /\ list[1] = <<>>
    BY <1>8
  <2>2. \A k : k \notin DOMAIN <<>>
    OBVIOUS
  <2> HIDE DEF list
  <2> QED
    BY <2>1, <2>2 DEF ListType, Holds
<1>10. \A h : IncludesOf(elided', h, 0) = {}
  BY DEF IncludesOf
<1>11. Section(elided', 0) = 1
  <2> DEFINE text == elided'
  <2> HIDE DEF text
  <2>1. Section(text, 0) = 1
    BY SectionNext
  <2> QED
    BY <2>1 DEF text
<1>12. Listed(elided', list, 0)
  BY <1>9, <1>10, <1>11 DEF Listed
<1>13. IncludesSoFar(linenum - 1)'
  <2>1. linenum' - 1 = 0
    BY <1>1
  <2> QED
    BY <1>9, <1>10, <1>12, <2>1 DEF IncludesSoFar
<1> QED
  BY <1>1, <1>7, <1>13 DEF IncludesInv

LEMMA IncludesInvariant == Spec => []IncludesInv
<1>1. Init => IncludesInv
  BY DEF Init, IncludesInv, ToldBefore, Reports
<1>2. TypeOK /\ IncludesInv /\ [Next]_vars => IncludesInv'
  <2> SUFFICES ASSUME TypeOK, IncludesInv, [Next]_vars PROVE IncludesInv'
    OBVIOUS
  <2>1. CASE Prepare
    BY <2>1, PrepareIncludes
  <2>2. CASE ProcessAsmLine
    BY <2>2, AsmIncludes
  <2>3. CASE ProcessLine
    BY <2>3, LineIncludes
  <2>4. CASE EndOfData
    BY <2>4, EndIncludes
  <2>5. CASE UNCHANGED vars
    <3>1. UNCHANGED <<file, pc, linenum, elided, include_state, found, skipped>>
      BY <2>5 DEF vars, clean_lines, state
    <3> QED
      BY <3>1 DEF IncludesInv, ToldBefore, IncludesSoFar, Told, Asked, Reports
  <2> QED
    BY <2>1, <2>2, <2>3, <2>4, <2>5 DEF Next
<1>3. ReportsInv => TypeOK
  BY DEF ReportsInv
<1> QED
  BY <1>1, <1>2, <1>3, ReportsInvariant, PTL DEF Spec

\* What the lists hold, as IncludesListed says it.
LEMMA ListedSoFar ==
  ASSUME IncludesInv
  PROVE  IncludesListed /\ NoneAhead
<1> SUFFICES ASSUME skipped = {}, pc # "prepare" PROVE IncludesListed
  BY NoneAheadIs DEF IncludesInv, IncludesListed
<1> DEFINE list == include_state.include_list
           n == linenum - 1
<1>1. /\ Listed(elided, list, n)
      /\ \A h : Recorded(Headers[h]) => \A m \in IncludesOf(elided, h, n) :
           Told(m) <=> \E l \in IncludesOf(elided, h, n) : l < m /\ ~Gone(elided, l, m)
  BY DEF IncludesInv, IncludesSoFar
<1>2. /\ \A h : Included(h) = IncludesOf(elided, h, n)
      /\ \A m, k : Forgotten(m, k) <=> Gone(elided, m, k)
      /\ \A m : Twice(m) <=> Told(m)
      /\ \A m : Section(elided, m) = Directives(elided, "#if", 1, m) + 1
  BY Zenon DEF Included, IncludesOf, Forgotten, Gone, NoIf, Twice, Told, Reports, Section
<1> HIDE DEF list, n
<1>3. Len(list) = Directives(elided, "#if", 1, n) + 1
  BY <1>1, <1>2 DEF Listed
<1>4. ASSUME NEW s \in DOMAIN list, NEW k \in DOMAIN list[s]
      PROVE  LET i == list[s][k] IN
             /\ i.line \in Included(i.header) /\ Recorded(Headers[i.header])
             /\ s = Directives(elided, "#if", 1, i.line) + 1 /\ ~Forgotten(i.line, n)
  <2> DEFINE i == list[s][k]
  <2>1. Holds(list, s, i)
    BY DEF Holds
  <2> HIDE DEF i
  <2>2. Filed(elided, i, s, n)
    BY <1>1, <2>1 DEF Listed
  <2> QED
    BY <1>2, <2>2 DEF Filed, i
<1>5. ASSUME NEW h, Recorded(Headers[h]), NEW m \in Included(h)
      PROVE  /\ ~Forgotten(m, n) =>
                  \E s \in DOMAIN list : \E k \in DOMAIN list[s] :
                    list[s][k].header = h /\ list[s][k].line <= m
             /\ Twice(m) <=> \E l \in Included(h) : l < m /\ ~Forgotten(l, m)
  <2>1. ~Forgotten(m, n) => Has(list, h, m)
    BY <1>1, <1>2, <1>5 DEF Listed
  <2>2. Has(list, h, m) => \E s \in DOMAIN list : \E k \in DOMAIN list[s] :
                             list[s][k].header = h /\ list[s][k].line <= m
    BY DEF Has, Holds
  <2>3. Twice(m) <=> \E l \in Included(h) : l < m /\ ~Forgotten(l, m)
    BY <1>1, <1>2, <1>5
  <2> QED
    BY <2>1, <2>2, <2>3
<1> QED
  BY <1>3, <1>4, <1>5, Zenon DEF IncludesListed, list, n

------------------------------------------------------------------------------
\* What the includes that are known are known for.

\* An include outside of every conditional is in no part that an #else could end.
LEMMA OutsideStays ==
  ASSUME NEW X, NEW text \in Seq(Seq(X)), NEW m \in 1 .. Len(text), NEW n \in 1 .. Len(text),
         Around(text, m) = {},
         \A e \in DOMAIN text : Starts(text[e], "#else") => Around(text, e) # {}
  PROVE  ~Gone(text, m, n)
<1> SUFFICES ASSUME NEW e \in (m + 1) .. n, Starts(text[e], "#else"), NoIf(text, m, e)
             PROVE  FALSE
  BY DEF Gone
<1>1. /\ Len(text) \in Nat /\ DOMAIN text = 1 .. Len(text) /\ m \in Nat /\ e \in Nat
      /\ e \in 1 .. Len(text) /\ m < e
  BY LenProperties
<1>2. PICK i \in Around(text, e) : TRUE
  BY <1>1
<1>3. i \in Ifs(text) /\ i <= e /\ e < EndOf(text, i)
  BY <1>2 DEF Around
<1>4. i \in 1 .. Len(text) /\ EndOf(text, i) \in Nat /\ Starts(text[i], "#if")
  BY <1>3, EndOfIs DEF Ifs
<1>5. i \notin (m + 1) .. e
  BY <1>4 DEF NoIf
<1>6. i <= m /\ m < EndOf(text, i)
  BY <1>1, <1>3, <1>4, <1>5
<1> QED
  BY <1>3, <1>6 DEF Around

\* Of two lines in different parts, the first #else between them ends the part
\* of the first, unless an #if came before it.
LEMMA ExclusiveGone ==
  ASSUME NEW X, elided \in Seq(Seq(X)), NEW m \in Nat, NEW n \in Nat, m < n, Exclusive(m, n)
  PROVE  Gone(elided, m, n)
<1>1. PICK i \in Around(elided, m) :
        /\ Part(elided, i, m) # Part(elided, i, n)
        /\ \A k \in (m + 1) .. n :
             Starts(elided[k], "#if") => Part(elided, i, k) # Part(elided, i, m)
  BY DEF Exclusive
<1> DEFINE E == Elses(elided, i)
           P(k) == {j \in E : j <= k}
           S == {k \in E : m < k /\ k <= n}
<1>2. \A k : Part(elided, i, k) = Cardinality(P(k))
  BY DEF Part
<1>3. i \in Ifs(elided)
  BY DEF Around
<1>4. E \subseteq Nat /\ \A k \in E : Starts(elided[k], "#else")
  <2>1. i \in Nat /\ EndOf(elided, i) \in Nat
    BY <1>3, EndOfIs
  <2> QED
    BY <2>1 DEF Elses
<1> HIDE DEF E
<1>5. S # {}
  <2>1. ASSUME S = {} PROVE P(m) = P(n)
    <3>1. ASSUME NEW j \in E, j <= n PROVE j <= m
      BY <1>4, <2>1, <3>1
    <3>2. ASSUME NEW j \in E, j <= m PROVE j <= n
      BY <1>4, <3>2
    <3> QED
      BY <3>1, <3>2
  <2> QED
    BY <1>1, <1>2, <2>1
<1>6. PICK e \in S : \A k \in S : e <= k
  <2>1. S \in SUBSET Nat
    BY <1>4
  <2> HIDE DEF S
  <2> QED
    BY <1>5, <2>1, LeastNumber
<1>7. e \in E /\ e \in Nat /\ m < e /\ e <= n /\ e \in (m + 1) .. n /\ Starts(elided[e], "#else")
  BY <1>4, <1>6
<1>8. ASSUME NEW k \in (m + 1) .. e, Starts(elided[k], "#if") PROVE FALSE
  <2>1. k # e
    BY <1>7, <1>8, OneDirective
  <2>2. k \in Nat /\ m < k /\ k < e /\ k \in (m + 1) .. n
    BY <1>7, <2>1
  <2>3. P(k) = P(m)
    <3>1. ASSUME NEW j \in E, j <= k PROVE j <= m
      BY <1>4, <1>6, <1>7, <2>2, <3>1
    <3>2. ASSUME NEW j \in E, j <= m PROVE j <= k
      BY <1>4, <2>2, <3>2
    <3> QED
      BY <3>1, <3>2
  <2> QED
    BY <1>1, <1>2, <1>8, <2>2, <2>3
<1> QED
  BY <1>7, <1>8 DEF Gone, NoIf

\* The headers that can be known.
LEMMA DictIs ==
  ASSUME NEW st, NEW opened, NEW h
  PROVE  h \in IncludeDict(st, opened) <=>
           \/ \E s, i : Holds(st.include_list, s, i) /\ i.header = h
           \/ \E g \in opened : h \in Headers[g].includes
<1> DEFINE list == st.include_list
           H == {i.header : i \in UNION {Range(list[s]) : s \in DOMAIN list}}
<1>1. IncludeDict(st, opened) = H \cup UNION {Headers[g].includes : g \in opened}
  BY Zenon DEF IncludeDict
<1>2. h \in H <=> \E s, i : Holds(list, s, i) /\ i.header = h
  BY DEF Range, Holds
<1>3. h \in UNION {Headers[g].includes : g \in opened} <=> \E g \in opened : h \in Headers[g].includes
  OBVIOUS
<1> HIDE DEF H
<1> QED
  BY <1>1, <1>2, <1>3, Zenon

\* What is told of by the end, of the headers that are used.
LEMMA AskedIs ==
  ASSUME TypeOK, IncludesInv, pc = "done", skipped = {}, NoStrayElse, NEW n \in DOMAIN elided
  PROVE  /\ (\A h \in LastUsed(n) : Outside(h) \/ Inherited(h)) => ~AskedFor(n)
         /\ (\E h \in LastUsed(n) : NeverIncluded(h)) /\ ModuleFound => AskedFor(n)
<1> DEFINE L == Len(elided)
           dict == IncludeDict(include_state, {})
           opened == {h \in dict : file.source /\ Headers[h].module}
           known == IncludeDict(include_state, opened)
           missing == MissingOn(include_state, elided, file.source, n)
<1>1. L \in Nat /\ DOMAIN elided = 1 .. L /\ linenum - 1 = L /\ elided \in Seq(Seq(Tokens))
  BY LenProperties DEF TypeOK
<1>2. AskedFor(n) <=> missing # {}
  <2>1. AskedFor(n) <=> Asked(n)
    BY OnIs DEF AskedFor, Asked, Reports
  <2> QED
    BY <2>1 DEF IncludesInv
<1>3. \A h : h \in missing <=>
        h \in LastUsed(n) /\ ~(file.source /\ opened = {}) /\ h \notin known
  <2>1. Missing(include_state, elided, file.source) =
          IF file.source /\ opened = {} THEN {} ELSE Required(elided) \ known
    BY Zenon DEF Missing
  <2> HIDE DEF opened, known
  <2> QED
    BY <2>1 DEF MissingOn, LastUsed
<1>4. \A h : Included(h) = IncludesOf(elided, h, L)
  <2>1. \A h : Included(h) = IncludesOf(elided, h, linenum - 1)
    BY Zenon DEF Included, IncludesOf
  <2> QED
    BY <1>1, <2>1
<1>5. Listed(elided, include_state.include_list, L)
  BY <1>1 DEF IncludesInv, IncludesSoFar
<1>6. ASSUME NEW h PROVE h \in dict <=> FindHeader(include_state, h)
  BY DictIs, FindHeaderIs
<1>7. ASSUME NEW h, Outside(h) PROVE h \in dict
  <2>1. PICK m \in Included(h) : Around(elided, m) = {}
    BY <1>7 DEF Outside
  <2>2. m \in IncludesOf(elided, h, L) /\ m \in 1 .. L /\ L \in 1 .. L
    BY <1>1, <1>4, <2>1, IncludesNext
  <2>3. ~Gone(elided, m, L)
    BY <1>1, <2>1, <2>2, OutsideStays DEF NoStrayElse
  <2>4. FindHeader(include_state, h)
    BY <1>1, <1>5, <1>7, <2>2, <2>3, FoundBefore DEF Outside
  <2> QED
    BY <1>6, <2>4
<1>8. ASSUME NEW h \in dict PROVE Included(h) # {} /\ h \in Names
  <2>1. PICK m \in IncludesOf(elided, h, L) : TRUE
    BY <1>1, <1>5, <1>6, <1>8, FoundBefore
  <2>2. m \in Included(h)
    BY <1>4, <2>1
  <2> QED
    BY <2>2 DEF Included, Names
<1>9. \A h : h \in known <=> h \in dict \/ \E g \in opened : h \in Headers[g].includes
  <2>1. \A h : h \in dict <=> \E s, i : Holds(include_state.include_list, s, i) /\ i.header = h
    BY <1>6, FindHeaderIs
  <2> HIDE DEF opened, dict
  <2> QED
    BY <2>1, DictIs, Zenon
<1>10. \A h : h \in opened <=> h \in dict /\ file.source /\ Headers[h].module
  OBVIOUS
<1> HIDE DEF dict, opened, known, missing, L
<1>11. ASSUME \A h \in LastUsed(n) : Outside(h) \/ Inherited(h), NEW h \in missing PROVE FALSE
  <2>1. h \in LastUsed(n) /\ h \notin known
    BY <1>3, <1>11
  <2>2. CASE Outside(h)
    BY <1>7, <1>9, <2>1, <2>2
  <2>3. CASE Inherited(h)
    <3>1. PICK m \in Names : file.source /\ Headers[m].module /\ Outside(m) /\ h \in Headers[m].includes
      BY <2>3 DEF Inherited
    <3> QED
      BY <1>7, <1>9, <1>10, <2>1, <3>1
  <2> QED
    BY <1>11, <2>1, <2>2, <2>3
<1>12. ASSUME NEW h \in LastUsed(n), NeverIncluded(h), ModuleFound PROVE h \in missing
  <2>1. h \notin dict
    BY <1>8, <1>12 DEF NeverIncluded
  <2>2. ASSUME NEW g \in opened PROVE h \notin Headers[g].includes
    BY <1>8, <1>10, <1>12, <2>2 DEF NeverIncluded
  <2>3. ~(file.source /\ opened = {})
    BY <1>7, <1>10, <1>12 DEF ModuleFound
  <2> QED
    BY <1>3, <1>9, <1>12, <2>1, <2>2, <2>3
<1> QED
  BY <1>2, <1>11, <1>12

LEMMA KnownSoFar ==
  ASSUME TypeOK, IncludesInv
  PROVE  IncludesKnown
<1> SUFFICES ASSUME skipped = {}, NoStrayElse PROVE IncludesKnown
  BY DEF IncludesKnown
<1> DEFINE N == linenum - 1
<1>1. ASSUME pc = "prepare" PROVE Names = {}
  <2>1. 1 .. N = {}
    BY <1>1 DEF TypeOK
  <2> QED
    BY <2>1 DEF Names
<1>2. ASSUME pc # "prepare", NEW h \in Names, Recorded(Headers[h]), NEW n \in Included(h)
      PROVE  /\ (\E m \in Included(h) :
                   m < n /\ (Around(elided, m) = {} \/ \A k \in m .. n : ~Starts(elided[k], "#else")))
                  => Twice(n)
             /\ (\A m \in Included(h) : m < n => Exclusive(m, n)) => ~Twice(n)
  <2>1. Included(h) = IncludesOf(elided, h, N) /\ (Twice(n) <=> Told(n))
    BY Zenon DEF Included, IncludesOf, Twice, Told, Reports
  <2>2. Told(n) <=> \E m \in Included(h) : m < n /\ ~Gone(elided, m, n)
    BY <1>2, <2>1 DEF IncludesInv, IncludesSoFar
  <2>3. elided \in Seq(Seq(Tokens)) /\ Included(h) \subseteq 1 .. Len(elided)
        /\ DOMAIN elided = 1 .. Len(elided)
    <3>1. elided \in Seq(Seq(Tokens)) /\ Len(elided) \in Nat /\ DOMAIN elided = 1 .. Len(elided)
      BY LenProperties DEF TypeOK
    <3>2. linenum \in 1 .. Len(elided) + 1
      <4>1. CASE pc = "lint"
        BY <4>1 DEF TypeOK
      <4>2. CASE pc = "done"
        <5>1. linenum = Len(elided) + 1
          BY <4>2 DEF TypeOK
        <5> QED
          BY <3>1, <5>1
      <4> QED
        BY <1>2, <4>1, <4>2 DEF TypeOK
    <3>3. 1 .. N \subseteq 1 .. Len(elided)
      BY <3>1, <3>2
    <3> QED
      BY <3>1, <3>3 DEF Included
  <2>4. ASSUME NEW m \in Included(h), m < n,
               Around(elided, m) = {} \/ \A k \in m .. n : ~Starts(elided[k], "#else")
        PROVE  Twice(n)
    <3>1. CASE Around(elided, m) = {}
      <4>1. ~Gone(elided, m, n)
        BY <2>3, <3>1, OutsideStays DEF NoStrayElse
      <4> QED
        BY <2>1, <2>2, <2>4, <4>1
    <3>2. CASE \A k \in m .. n : ~Starts(elided[k], "#else")
      <4>1. ~Gone(elided, m, n)
        BY <2>3, <3>2 DEF Gone
      <4> QED
        BY <2>1, <2>2, <2>4, <4>1
    <3> QED
      BY <2>4, <3>1, <3>2
  <2>5. ASSUME \A m \in Included(h) : m < n => Exclusive(m, n) PROVE ~Twice(n)
    <3>1. ASSUME NEW m \in Included(h), m < n PROVE Gone(elided, m, n)
      <4>1. m \in Nat /\ n \in Nat
        BY <2>3
      <4> QED
        BY <2>3, <2>5, <3>1, <4>1, ExclusiveGone
    <3> QED
      BY <2>1, <2>2, <3>1
  <2> QED
    BY <2>4, <2>5
<1>3. ASSUME pc = "done", NEW n \in DOMAIN elided
      PROVE  /\ (\A h \in LastUsed(n) : Outside(h) \/ Inherited(h)) => ~AskedFor(n)
             /\ (\E h \in LastUsed(n) : NeverIncluded(h)) /\ ModuleFound => AskedFor(n)
  BY <1>3, AskedIs
<1> QED
  BY <1>1, <1>2, <1>3, Zenon DEF IncludesKnown

------------------------------------------------------------------------------
\* What is printed, what is kept of the conditionals and what the include lists
\* hold, for every file.
THEOREM LintFileInvariant == Spec => []LintFileInv
<1>1. ReportsInv /\ NestingInv /\ IncludesInv => LintFileInv
  BY ListedSoFar DEF ReportsInv, NestingInv, LintFileInv
<1> QED
  BY <1>1, ReportsInvariant, NestingInvariant, IncludesInvariant, PTL

\* Of every header, whatever the directives between: what was included outside of
\* every conditional is known from there on, to CheckIncludeLine and to
\* CheckForIncludeWhatYouUse; what stands in another part of a conditional is not;
\* and what was never included is asked for.
THEOREM HeadersKnown == Spec => []IncludesKnown
<1>1. ReportsInv /\ IncludesInv => IncludesKnown
  BY KnownSoFar DEF ReportsInv
<1> QED
  BY <1>1, ReportsInvariant, IncludesInvariant, PTL

\* The nesting after every line is that of the lines that count, as if there were
\* no others and no conditionals, however UpdatePreprocessor's stacks were
\* pushed, replaced and popped on the way.
THEOREM ActiveLinesStack == Spec => []StackOfActiveLines
<1>1. NestingInv => StackOfActiveLines
  BY DEF NestingInv
<1> QED
  BY <1>1, NestingInvariant, PTL

LEMMA DueIsHonoured ==
  ASSUME LintFileInv
  PROVE  NolintHonoured
<1> SUFFICES ASSUME NEW e \in found, \A f \in found : Early(f) => f.report # e.report
             PROVE  Printed(e.report) <=> ~Silenced(e.report)
  BY DEF NolintHonoured
<1>1. Silenced(e.report) \/ Printed(e.report)
  BY DEF LintFileInv, PrintedIsDue
<1>2. ASSUME Printed(e.report) PROVE ~Silenced(e.report)
  <2>1. PICK k \in DOMAIN shown : shown[k] = e.report
    BY <1>2 DEF Printed
  <2>2. PICK f \in found : f.report = shown[k] /\ (Early(f) \/ ~Silenced(f.report))
    BY DEF LintFileInv, PrintedIsDue
  <2> QED
    BY <2>1, <2>2
<1> QED
  BY <1>1, <1>2

\* A NOLINT comment silences the errors on its line and no others, for every file
\* and whichever check reports them, as ParseNolintSuppressions and Error are
\* called from ProcessLine.
THEOREM NolintIsHonoured == Spec => []NolintHonoured
<1>1. LintFileInv => NolintHonoured
  BY DueIsHonoured
<1> QED
  BY <1>1, LintFileInvariant, PTL

------------------------------------------------------------------------------
\* Comments, line by line.

LEMMA NowhereHas ==
  ASSUME NEW X, NEW line \in Seq(X), NEW t, Where(line, t) = 0, NEW i \in 1 .. Len(line)
  PROVE  line[i] # t
<1> DEFINE I == {k \in 1 .. Len(line) : line[k] = t}
<1>1. Where(line, t) = IF I # {} THEN Min(I) ELSE 0
  BY Zenon DEF Where, SelectInSeq
<1>2. Len(line) \in Nat
  BY LenProperties
<1>3. ASSUME I # {} PROVE FALSE
  <2>1. I \in SUBSET Nat
    BY <1>2
  <2>2. PICK x \in I : \A y \in I : x <= y
    <3> HIDE DEF I
    <3> QED
      BY <1>3, <2>1, LeastNumber
  <2>3. Min(I) \in I
    <3> HIDE DEF I
    <3> QED
      BY <2>2, Zenon DEF Min
  <2>4. 0 \in I
    BY <1>1, <1>3, <2>3
  <2> QED
    BY <2>4
<1> QED
  BY <1>3

\* The tokens that open something other than a comment over several lines.
Opening == {"Q", "R(", ")R", "//"}

\* A line that holds none of them has no //-comment, and the text before the
\* first // of one that holds none before it is what is left of it.
LEMMA WhereIs ==
  ASSUME NEW X, NEW line \in Seq(X), NEW t, NEW p \in 1 .. Len(line), line[p] = t,
         \A i \in 1 .. (p - 1) : line[i] # t
  PROVE  Where(line, t) = p
<1> DEFINE I == {i \in 1 .. Len(line) : line[i] = t}
<1>1. Where(line, t) = IF I # {} THEN Min(I) ELSE 0
  BY Zenon DEF Where, SelectInSeq
<1>2. Len(line) \in Nat
  BY LenProperties
<1>3. p \in I /\ I \subseteq Nat
  BY <1>2
<1>4. ASSUME NEW i \in I PROVE p <= i
  BY <1>2
<1> HIDE DEF I
<1>5. Min(I) \in I /\ \A y \in I : Min(I) <= y
  BY <1>3, <1>4, Zenon DEF Min
<1>6. Min(I) <= p /\ p <= Min(I) /\ Min(I) \in Nat /\ p \in Nat
  BY <1>3, <1>4, <1>5
<1>7. Min(I) = p
  BY ONLY <1>6
<1> QED
  BY <1>1, <1>3, <1>7

LEMMA NowhereIs ==
  ASSUME NEW X, NEW line \in Seq(X), NEW t, \A i \in 1 .. Len(line) : line[i] # t
  PROVE  Where(line, t) = 0
<1> DEFINE I == {i \in 1 .. Len(line) : line[i] = t}
<1>1. Where(line, t) = IF I # {} THEN Min(I) ELSE 0
  BY Zenon DEF Where, SelectInSeq
<1>2. I = {}
  OBVIOUS
<1> QED
  BY <1>1, <1>2

LEMMA WithoutLineComment ==
  ASSUME NEW X, NEW line \in Seq(X \ Opening)
  PROVE  SingleLine(line) = line
<1>1. \A i \in 1 .. Len(line) : line[i] # "//"
  BY ElementOfSeq DEF Opening
<1>2. Where(line, "//") = 0
  BY <1>1, NowhereIs
<1> QED
  BY <1>2 DEF SingleLine

LEMMA EvenQuotes ==
  ASSUME NEW X, NEW line \in Seq(X \ Opening)
  PROVE  Quotes(line) % 2 = 0
<1>1. {k \in DOMAIN line : line[k] \in {"Q", "R(", ")R"}} = {}
  BY LenProperties, ElementOfSeq DEF Opening
<1>2. Count(line, {"Q", "R(", ")R"}) = 0
  BY <1>1, FS_EmptySet DEF Count
<1>3. Count(line, {"QQ"}) \in Nat
  BY CountType
<1>4. Quotes(line) = 2 * Count(line, {"QQ"})
  BY <1>2, <1>3 DEF Quotes
<1> HIDE DEF Count
<1> QED
  BY <1>3, <1>4

LEMMA WithLineComment ==
  ASSUME NEW X, NEW pre \in Seq(X \ Opening), NEW rest \in Seq(X), "//" \in X
  PROVE  SingleLine(Append(pre, "//") \o rest) = pre
<1> DEFINE line == Append(pre, "//") \o rest
           N == Len(pre)
<1>1. pre \in Seq(X) /\ N \in Nat /\ Len(rest) \in Nat
  BY LenProperties, ElementOfSeq
<1>2. /\ Append(pre, "//") \in Seq(X) /\ Len(Append(pre, "//")) = N + 1
      /\ Append(pre, "//")[N + 1] = "//" /\ \A i \in 1 .. N : Append(pre, "//")[i] = pre[i]
  BY <1>1, AppendProperties
<1>3. /\ line \in Seq(X) /\ Len(line) = (N + 1) + Len(rest)
      /\ \A i \in 1 .. N + 1 : line[i] = Append(pre, "//")[i]
  BY <1>1, <1>2, ConcatProperties
<1>4. line[N + 1] = "//" /\ \A i \in 1 .. N : line[i] = pre[i]
  BY <1>1, <1>2, <1>3
<1> HIDE DEF line
<1>5. N + 1 \in 1 .. Len(line) /\ (N + 1) - 1 = N
  BY <1>1, <1>3
<1>6. \A i \in 1 .. N : line[i] # "//"
  BY <1>4, ElementOfSeq DEF Opening
<1>7. Where(line, "//") = N + 1
  BY <1>3, <1>4, <1>5, <1>6, WhereIs
<1>8. SubSeq(line, 1, N) = pre
  <2>1. N <= Len(line) /\ 1 \in Nat \ {0} /\ N \in Int
    BY <1>1, <1>3
  <2>2. SubSeq(line, 1, N) \in Seq(X)
    BY <1>3, <2>1, PartType
  <2>3. \A i \in 1 .. N : line[i] \in X
    BY <1>1, <1>4, ElementOfSeq
  <2>4. Len(SubSeq(line, 1, N)) = N /\ \A i \in 1 .. N : SubSeq(line, 1, N)[i] = line[i]
    BY <1>1, <1>3, <2>1
  <2> QED
    BY <1>1, <1>4, <2>2, <2>4, SeqEqual
<1>9. Quotes(pre) % 2 = 0
  BY EvenQuotes
<1>10. SubSeq(line, 1, Where(line, "//") - 1) = pre /\ Where(line, "//") # 0
  BY <1>1, <1>5, <1>7, <1>8
<1>11. SingleLine(line) = pre
  BY <1>9, <1>10, Zenon DEF SingleLine
<1> QED
  BY <1>11 DEF line

\* What the tokens of a line are that do not end in a comment over several
\* lines, and whether there is a string among them.
SimpleTokens(read) ==
  \A r \in read : /\ r[1] = "block" => r[2] \notin Opening
                  /\ r[1] = "string" => r[2] \notin {"R(", ")R"}
Strung(read) == \E r \in read : r[1] = "string"

\* How far a line has been read, L, how far its raw strings have been taken out,
\* R, and what the passes make of that: the strings C, and then the comments U.
\* Each pass is where the reading is.  From a //-comment on, what stands before
\* it does not change.
PassesAgree(X, L, R, C, U) ==
  /\ R.inside <=> (L.in = "raw")
  /\ R.comment <=> (L.in = "line")
  /\ L.in = "string" => Strung(L.read)
  /\ L.in # "line" =>
       /\ R.odd <=> (L.in = "string")
       /\ C.out \in Seq(X \ Opening)
       /\ (C.held = <<>>) <=> (L.in # "string")
       /\ (U.held = <<>>) <=> (L.in # "block")
       /\ L.code = IF L.in = "string" THEN Append(U.out, "QQ") ELSE U.out
       /\ Strung(L.read) \/ R.out = C.out
  /\ L.in = "line" =>
       \E pre \in Seq(X \ Opening), rest \in Seq(X) :
         /\ C.out = Append(pre, "//") \o rest
         /\ Uncommenting(pre) = [out |-> L.code, held |-> <<>>]
         /\ Strung(L.read) \/ \E more \in Seq(X) : R.out = Append(pre, "//") \o more
InStep(X, L, R) == PassesAgree(X, L, R, Collapsing(R.out), Uncommenting(Collapsing(R.out).out))

\* What one more token makes of a line without raw strings.
LEMMA PassesGrow ==
  ASSUME NEW X, "QQ" \in X, NEW line \in Seq(X), NEW t \in X
  PROVE  /\ Collapsing(line) \in Holding(X) /\ Uncommenting(line) \in Holding(X)
         /\ Collapsing(Append(line, t)) = StringToken(Collapsing(line), t)
         /\ Uncommenting(Append(line, t)) = CommentToken(Uncommenting(line), t)
BY CollapsingGrows, UncommentingGrows

LEMMA NotEmpty ==
  ASSUME NEW X, NEW s \in Seq(X), NEW t \in X
  PROVE  Append(s, t) # <<>> /\ Append(s, t) \in Seq(X)
<1>1. Len(Append(s, t)) = Len(s) + 1 /\ Append(s, t) \in Seq(X) /\ Len(s) \in Nat
  BY AppendProperties, LenProperties
<1>2. Len(s) + 1 # 0 /\ Len(<<>>) = 0
  BY <1>1
<1> QED
  BY <1>1, <1>2

LEMMA AppendInto ==
  ASSUME NEW X, NEW r \in Seq(X), NEW s \in Seq(X), NEW x \in X
  PROVE  Append(r \o s, x) = r \o Append(s, x) /\ Append(s, x) \in Seq(X)
<1>1. /\ r \o s \in Seq(X) /\ Append(s, x) \in Seq(X)
      /\ Append(r \o s, x) \in Seq(X) /\ r \o Append(s, x) \in Seq(X)
  BY ConcatProperties, AppendProperties
<1>2. Append(r \o s, x) = r \o Append(s, x)
  OBVIOUS
<1> QED
  BY <1>1, <1>2

LEMMA StepInCode ==
  ASSUME NEW X, "QQ" \in X, NEW t \in X, NEW L \in LexStates(X), NEW R \in RawStates(X),
         NEW L2, L2 = LexToken(L, t), NEW R2, R2 = RawToken(R, t),
         L.in = "code", InStep(X, L, R), SimpleTokens(L2.read)
  PROVE  InStep(X, L2, R2)
<1> DEFINE C == Collapsing(R.out)
           U == Uncommenting(C.out)
           C2 == Collapsing(R2.out)
           U2 == Uncommenting(C2.out)
<1>1. /\ C \in Holding(X) /\ U \in Holding(X) /\ R.out \in Seq(X) /\ C.out \in Seq(X)
      /\ \A x \in X : Collapsing(Append(R.out, x)) = StringToken(C, x)
      /\ \A x \in X : Uncommenting(Append(C.out, x)) = CommentToken(U, x)
  <2>1. R.out \in Seq(X)
    BY DEF RawStates
  <2>2. C \in Holding(X)
    BY <2>1, PassesGrow
  <2>3. C.out \in Seq(X)
    BY <2>2 DEF Holding
  <2> QED
    BY <2>1, <2>2, <2>3, PassesGrow
<1>2. PassesAgree(X, L, R, C, U)
  BY DEF InStep
<1>3. SUFFICES PassesAgree(X, L2, R2, C2, U2)
  BY DEF InStep
<1>4. /\ R.inside = FALSE /\ R.comment = FALSE /\ R.odd = FALSE /\ C.out \in Seq(X \ Opening)
      /\ C.held = <<>> /\ U.held = <<>> /\ L.code = U.out /\ (Strung(L.read) \/ R.out = C.out)
  BY <1>2 DEF PassesAgree, RawStates
<1> HIDE DEF C, U
<1>5. CASE t = "Q"
  <2>1. L2 = [in |-> "string", read |-> L.read \cup {<<"string", t>>}, code |-> Append(L.code, "QQ")]
    BY <1>5 DEF LexToken, Class, Closes
  <2>2. /\ R2.out = Append(R.out, t) /\ R2.inside = FALSE /\ R2.comment = FALSE /\ R2.odd = TRUE
    BY <1>4, <1>5 DEF RawToken, RawStates
  <2>3. C2 = [C EXCEPT !.held = Append(@, t)]
    BY <1>1, <1>4, <1>5, <2>2 DEF StringToken
  <2>4. C2.out = C.out /\ C2.held # <<>>
    <3>1. C2.out = C.out /\ C2.held = Append(C.held, t) /\ C.held \in Seq(X)
      BY <1>1, <2>3 DEF Holding
    <3> HIDE DEF C2
    <3> QED
      BY <3>1, NotEmpty
  <2>5. U2 = U
    BY <2>4 DEF U
  <2>6. Strung(L2.read)
    <3>1. <<"string", t>> \in L2.read /\ <<"string", t>>[1] = "string"
      BY <2>1
    <3> QED
      BY <3>1, Zenon DEF Strung
  <2> HIDE DEF C2, U2
  <2> QED
    BY <1>4, <2>1, <2>2, <2>4, <2>5, <2>6 DEF PassesAgree
<1>6. CASE t = ")R"
  <2>1. <<"string", t>> \in L2.read
    BY <1>6 DEF LexToken, Class, Closes
  <2> QED
    BY <1>6, <2>1 DEF SimpleTokens
<1>7. CASE t = "R("
  <2>1. L2 = [in |-> "raw", read |-> L.read \cup {<<"raw", t>>}, code |-> Append(L.code, "QQ")]
    BY <1>7 DEF LexToken, Class, Closes
  <2>2. /\ R2.out = Append(R.out, "QQ") /\ R2.inside = TRUE /\ R2.comment = FALSE /\ R2.odd = FALSE
    BY <1>4, <1>7 DEF RawToken, RawStates
  <2>3. C2 = [C EXCEPT !.out = Append(@, "QQ")]
    BY <1>1, <1>4, <2>2 DEF StringToken
  <2>4. C2.out = Append(C.out, "QQ") /\ C2.held = <<>>
    BY <1>1, <1>4, <2>3 DEF Holding
  <2>5. U2 = [U EXCEPT !.out = Append(@, "QQ")]
    BY <1>1, <1>4, <2>4 DEF CommentToken
  <2>6. U2.out = Append(U.out, "QQ") /\ U2.held = <<>>
    BY <1>1, <1>4, <2>5 DEF Holding
  <2>7. Strung(L2.read) \/ R2.out = C2.out
    BY <1>4, <2>1, <2>2, <2>4 DEF Strung
  <2>8. C2.out \in Seq(X \ Opening)
    <3>1. "QQ" \in X \ Opening
      BY DEF Opening
    <3> QED
      BY <1>4, <2>4, <3>1, NotEmpty
  <2> HIDE DEF C2, U2
  <2> QED
    BY <1>4, <2>1, <2>2, <2>4, <2>6, <2>7, <2>8 DEF PassesAgree
<1>8. CASE t = "//"
  <2>1. L2 = [in |-> "line", read |-> L.read \cup {<<"line", t>>}, code |-> L.code]
    BY <1>8 DEF LexToken, Class, Closes
  <2>2. /\ R2.out = Append(R.out, t) /\ R2.inside = FALSE /\ R2.comment = TRUE
    BY <1>4, <1>8 DEF RawToken, RawStates
  <2>3. C2 = [C EXCEPT !.out = Append(@, t)]
    BY <1>1, <1>4, <1>8, <2>2 DEF StringToken
  <2>4. C2.out = Append(C.out, t)
    BY <1>1, <2>3 DEF Holding
  <2>5. C2.out = Append(C.out, "//") \o <<>> /\ <<>> \in Seq(X)
    BY <1>1, <1>8, <2>4, NotEmpty, ConcatEmptySeq
  <2>6. Uncommenting(C.out) = [out |-> L2.code, held |-> <<>>]
    BY <1>1, <1>4, <2>1 DEF U, Holding
  <2>7. Strung(L2.read) \/ R2.out = Append(C.out, "//") \o <<>>
    BY <1>4, <1>8, <2>1, <2>2, <2>4, <2>5 DEF Strung
  <2> HIDE DEF C2, U2
  <2>8. L2.in = "line" /\ C.out \in Seq(X \ Opening)
    BY <1>4, <2>1
  <2>9. \E pre \in Seq(X \ Opening), rest \in Seq(X) :
          /\ C2.out = Append(pre, "//") \o rest
          /\ Uncommenting(pre) = [out |-> L2.code, held |-> <<>>]
          /\ Strung(L2.read) \/ \E more \in Seq(X) : R2.out = Append(pre, "//") \o more
    BY <2>5, <2>6, <2>7, <2>8
  <2> QED
    BY <2>2, <2>8, <2>9 DEF PassesAgree
<1>9. CASE t = "/*"
  <2>1. L2 = [in |-> "block", read |-> L.read \cup {<<"block", t>>}, code |-> L.code]
    BY <1>9 DEF LexToken, Class, Closes
  <2>2. /\ R2.out = Append(R.out, t) /\ R2.inside = FALSE /\ R2.comment = FALSE /\ R2.odd = FALSE
    BY <1>4, <1>9 DEF RawToken, RawStates
  <2>3. C2 = [C EXCEPT !.out = Append(@, t)]
    BY <1>1, <1>4, <1>9, <2>2 DEF StringToken
  <2>4. C2.out = Append(C.out, t) /\ C2.held = <<>>
    BY <1>1, <1>4, <2>3 DEF Holding
  <2>5. U2 = [U EXCEPT !.held = Append(@, t)]
    BY <1>1, <1>4, <1>9, <2>4 DEF CommentToken
  <2>6. U2.out = U.out /\ U2.held # <<>>
    BY <1>1, <2>5, NotEmpty DEF Holding
  <2>7. Strung(L2.read) \/ R2.out = C2.out
    BY <1>4, <2>1, <2>2, <2>4 DEF Strung
  <2>8. C2.out \in Seq(X \ Opening)
    <3>1. t \in X \ Opening
      BY <1>9 DEF Opening
    <3> QED
      BY <1>4, <2>4, <3>1, NotEmpty
  <2> HIDE DEF C2, U2
  <2> QED
    BY <1>4, <2>1, <2>2, <2>4, <2>6, <2>7, <2>8 DEF PassesAgree
<1>10. CASE t \notin Opening \cup {"/*"}
  <2>1. L2 = [in |-> "code", read |-> L.read \cup {<<"code", t>>}, code |-> Append(L.code, t)]
    BY <1>10 DEF LexToken, Class, Closes, Opening
  <2>2. /\ R2.out = Append(R.out, t) /\ R2.inside = FALSE /\ R2.comment = FALSE /\ R2.odd = FALSE
    BY <1>4, <1>10 DEF RawToken, RawStates, Opening
  <2>3. C2 = [C EXCEPT !.out = Append(@, t)]
    BY <1>1, <1>4, <1>10, <2>2 DEF StringToken, Opening
  <2>4. C2.out = Append(C.out, t) /\ C2.held = <<>>
    BY <1>1, <1>4, <2>3 DEF Holding
  <2>5. U2 = [U EXCEPT !.out = Append(@, t)]
    BY <1>1, <1>4, <1>10, <2>4 DEF CommentToken
  <2>6. U2.out = Append(U.out, t) /\ U2.held = <<>>
    BY <1>1, <1>4, <2>5 DEF Holding
  <2>7. Strung(L2.read) \/ R2.out = C2.out
    BY <1>4, <2>1, <2>2, <2>4 DEF Strung
  <2>8. C2.out \in Seq(X \ Opening)
    <3>1. t \in X \ Opening
      BY <1>10
    <3> QED
      BY <1>4, <2>4, <3>1, NotEmpty
  <2> HIDE DEF C2, U2
  <2> QED
    BY <1>4, <2>1, <2>2, <2>4, <2>6, <2>7, <2>8 DEF PassesAgree
<1> QED
  BY <1>5, <1>6, <1>7, <1>8, <1>9, <1>10 DEF Opening

LEMMA StepElsewhere ==
  ASSUME NEW X, "QQ" \in X, NEW t \in X, NEW L \in LexStates(X), NEW R \in RawStates(X),
         NEW L2, L2 = LexToken(L, t), NEW R2, R2 = RawToken(R, t),
         L.in \in {"string", "raw", "block"}, InStep(X, L, R), SimpleTokens(L2.read)
  PROVE  InStep(X, L2, R2)
<1> DEFINE C == Collapsing(R.out)
           U == Uncommenting(C.out)
           C2 == Collapsing(R2.out)
           U2 == Uncommenting(C2.out)
<1>1. /\ C \in Holding(X) /\ U \in Holding(X) /\ R.out \in Seq(X) /\ C.out \in Seq(X)
      /\ \A x \in X : Collapsing(Append(R.out, x)) = StringToken(C, x)
      /\ \A x \in X : Uncommenting(Append(C.out, x)) = CommentToken(U, x)
  <2>1. R.out \in Seq(X)
    BY DEF RawStates
  <2>2. C \in Holding(X)
    BY <2>1, PassesGrow
  <2>3. C.out \in Seq(X)
    BY <2>2 DEF Holding
  <2> QED
    BY <2>1, <2>2, <2>3, PassesGrow
<1>2. PassesAgree(X, L, R, C, U)
  BY DEF InStep
<1>3. SUFFICES PassesAgree(X, L2, R2, C2, U2)
  BY DEF InStep
<1>4. /\ R.comment = FALSE /\ C.out \in Seq(X \ Opening)
      /\ (Strung(L.read) \/ R.out = C.out)
      /\ C.held \in Seq(X) /\ U.held \in Seq(X) /\ U.out \in Seq(X)
  BY <1>1, <1>2 DEF PassesAgree, RawStates, Holding
<1>5. /\ L.in = "string" => /\ R.inside = FALSE /\ R.odd = TRUE /\ C.held # <<>> /\ U.held = <<>>
                            /\ L.code = Append(U.out, "QQ") /\ Strung(L.read)
      /\ L.in = "raw" => /\ R.inside = TRUE /\ R.odd = FALSE /\ C.held = <<>> /\ U.held = <<>>
                         /\ L.code = U.out
      /\ L.in = "block" => /\ R.inside = FALSE /\ R.odd = FALSE /\ C.held = <<>> /\ U.held # <<>>
                           /\ L.code = U.out
  BY <1>2 DEF PassesAgree, RawStates
<1> HIDE DEF C, U
<1>6. CASE L.in = "string"
  <2>1. Strung(L2.read)
    BY <1>5, <1>6 DEF Strung, LexToken
  <2>2. t \notin {"R(", ")R"}
    <3>1. <<"string", t>> \in L2.read
      BY <1>6 DEF LexToken, Class
    <3> QED
      BY <3>1 DEF SimpleTokens
  <2>3. R2.out = Append(R.out, t) /\ R2.inside = FALSE /\ R2.comment = FALSE
    BY <1>4, <1>5, <1>6, <2>2 DEF RawToken, RawStates
  <2>4. CASE t = "Q"
    <3>1. L2.in = "code" /\ L2.code = L.code
      BY <1>6, <2>4 DEF LexToken, Class, Closes
    <3>2. R2.odd = FALSE
      BY <1>4, <1>5, <1>6, <2>4 DEF RawToken, RawStates
    <3>3. C2 = [C EXCEPT !.held = <<>>, !.out = Append(@, "QQ")]
      BY <1>1, <1>5, <1>6, <2>3, <2>4 DEF StringToken
    <3>4. C2.out = Append(C.out, "QQ") /\ C2.held = <<>>
      BY <1>1, <3>3 DEF Holding
    <3>5. U2 = [U EXCEPT !.out = Append(@, "QQ")]
      BY <1>1, <1>5, <1>6, <3>4 DEF CommentToken
    <3>6. U2.out = Append(U.out, "QQ") /\ U2.held = <<>>
      BY <1>1, <1>5, <1>6, <3>5 DEF Holding
    <3>7. C2.out \in Seq(X \ Opening)
      <4>1. "QQ" \in X \ Opening
        BY DEF Opening
      <4> QED
        BY <1>4, <3>4, <4>1, NotEmpty
    <3> HIDE DEF C2, U2
    <3> QED
      BY <1>5, <1>6, <2>1, <2>3, <3>1, <3>2, <3>4, <3>6, <3>7 DEF PassesAgree
  <2>5. CASE t # "Q"
    <3>1. L2.in = "string" /\ L2.code = L.code
      BY <1>6, <2>5 DEF LexToken, Class, Closes
    <3>2. R2.odd = TRUE
      BY <1>4, <1>5, <1>6, <2>2, <2>5 DEF RawToken, RawStates
    <3>3. C2 = [C EXCEPT !.held = Append(@, t)]
      BY <1>1, <1>5, <1>6, <2>2, <2>3, <2>5 DEF StringToken
    <3>4. C2.out = C.out /\ C2.held # <<>>
      <4>1. C2.out = C.out /\ C2.held = Append(C.held, t)
        BY <1>1, <3>3 DEF Holding
      <4> HIDE DEF C2
      <4> QED
        BY <1>4, <4>1, NotEmpty
    <3>5. U2 = U
      BY <3>4 DEF U
    <3> HIDE DEF C2, U2
    <3> QED
      BY <1>4, <1>5, <1>6, <2>1, <2>3, <3>1, <3>2, <3>4, <3>5 DEF PassesAgree
  <2> QED
    BY <2>4, <2>5
<1>7. CASE L.in = "raw"
  <2>1. L2.in = (IF t = ")R" THEN "code" ELSE "raw") /\ L2.code = L.code
    BY <1>7 DEF LexToken, Class, Closes
  <2>2. R2 = [R EXCEPT !.inside = (t # ")R")]
    BY <1>5, <1>7, Zenon DEF RawToken
  <2>3. R2.out = R.out /\ R2.comment = FALSE /\ R2.odd = FALSE /\ (R2.inside <=> t # ")R")
    BY <1>4, <1>5, <1>7, <2>2 DEF RawStates
  <2>4. C2 = C /\ U2 = U
    BY <2>3 DEF C, U
  <2>5. Strung(L2.read) \/ R2.out = C2.out
    BY <1>4, <2>3, <2>4 DEF Strung, LexToken
  <2> HIDE DEF C2, U2
  <2> QED
    BY <1>4, <1>5, <1>7, <2>1, <2>3, <2>4, <2>5 DEF PassesAgree
<1>8. CASE L.in = "block"
  <2>1. t \notin Opening
    <3>1. <<"block", t>> \in L2.read
      BY <1>8 DEF LexToken, Class
    <3> QED
      BY <3>1 DEF SimpleTokens
  <2>2. /\ R2.out = Append(R.out, t) /\ R2.inside = FALSE /\ R2.comment = FALSE /\ R2.odd = FALSE
    BY <1>4, <1>5, <1>8, <2>1 DEF RawToken, RawStates, Opening
  <2>3. C2 = [C EXCEPT !.out = Append(@, t)]
    BY <1>1, <1>5, <1>8, <2>1, <2>2 DEF StringToken, Opening
  <2>4. C2.out = Append(C.out, t) /\ C2.held = <<>>
    BY <1>1, <1>5, <1>8, <2>3 DEF Holding
  <2>5. Strung(L2.read) \/ R2.out = C2.out
    BY <1>4, <2>2, <2>4 DEF Strung, LexToken
  <2>6. C2.out \in Seq(X \ Opening)
    BY <1>4, <2>1, <2>4, NotEmpty
  <2>7. CASE t = "*/"
    <3>1. L2.in = "code" /\ L2.code = L.code
      BY <1>8, <2>7 DEF LexToken, Class, Closes
    <3>2. U2 = [U EXCEPT !.held = <<>>]
      BY <1>1, <1>5, <1>8, <2>4, <2>7 DEF CommentToken
    <3>3. U2.out = U.out /\ U2.held = <<>>
      BY <1>1, <3>2 DEF Holding
    <3> HIDE DEF C2, U2
    <3> QED
      BY <1>5, <1>8, <2>2, <2>4, <2>5, <2>6, <3>1, <3>3 DEF PassesAgree
  <2>8. CASE t # "*/"
    <3>1. L2.in = "block" /\ L2.code = L.code
      BY <1>8, <2>8 DEF LexToken, Class, Closes
    <3>2. U2 = [U EXCEPT !.held = Append(@, t)]
      BY <1>1, <1>5, <1>8, <2>4, <2>8 DEF CommentToken
    <3>3. U2.out = U.out /\ U2.held # <<>>
      <4>1. U2.out = U.out /\ U2.held = Append(U.held, t)
        BY <1>1, <3>2 DEF Holding
      <4> HIDE DEF U2
      <4> QED
        BY <1>4, <4>1, NotEmpty
    <3> HIDE DEF C2, U2
    <3> QED
      BY <1>5, <1>8, <2>2, <2>4, <2>5, <2>6, <3>1, <3>3 DEF PassesAgree
  <2> QED
    BY <2>7, <2>8
<1> QED
  BY <1>6, <1>7, <1>8

LEMMA StepInLine ==
  ASSUME NEW X, "QQ" \in X, "//" \in X, NEW t \in X, NEW L \in LexStates(X), NEW R \in RawStates(X),
         NEW L2, L2 = LexToken(L, t), NEW R2, R2 = RawToken(R, t),
         L.in = "line", InStep(X, L, R)
  PROVE  InStep(X, L2, R2)
<1> DEFINE C == Collapsing(R.out)
           C2 == Collapsing(R2.out)
           U2 == Uncommenting(C2.out)
<1>1. /\ C \in Holding(X) /\ R.out \in Seq(X) /\ C.out \in Seq(X)
      /\ Collapsing(Append(R.out, t)) = StringToken(C, t)
  <2>1. R.out \in Seq(X)
    BY DEF RawStates
  <2>2. C \in Holding(X)
    BY <2>1, PassesGrow
  <2>3. C.out \in Seq(X)
    BY <2>2 DEF Holding
  <2> QED
    BY <2>1, <2>2, <2>3, PassesGrow
<1>2. PassesAgree(X, L, R, C, Uncommenting(C.out))
  BY DEF InStep
<1>3. SUFFICES PassesAgree(X, L2, R2, C2, U2)
  BY DEF InStep
<1>4. R.inside = FALSE /\ R.comment = TRUE
  BY <1>2 DEF PassesAgree, RawStates
<1>5. PICK pre \in Seq(X \ Opening), rest \in Seq(X) :
        /\ C.out = Append(pre, "//") \o rest
        /\ Uncommenting(pre) = [out |-> L.code, held |-> <<>>]
        /\ Strung(L.read) \/ \E more \in Seq(X) : R.out = Append(pre, "//") \o more
  BY <1>2 DEF PassesAgree
<1>6. L2.in = "line" /\ L2.code = L.code
  BY DEF LexToken, Class, Closes
<1>7. R2.out = Append(R.out, t) /\ R2.inside = FALSE /\ R2.comment = TRUE
  BY <1>4 DEF RawToken, RawStates
<1>8. C2 = StringToken(C, t)
  BY <1>1, <1>7
<1>9. C2.out = C.out \/ C2.out = Append(C.out, t) \/ C2.out = Append(C.out, "QQ")
  <2> HIDE DEF C, C2
  <2> QED
    BY <1>1, <1>8 DEF StringToken, Holding
<1>10. Append(pre, "//") \in Seq(X)
  <2>1. pre \in Seq(X)
    BY SeqMonotonic
  <2> QED
    BY <2>1, NotEmpty
<1>11. ASSUME NEW s \in Seq(X), NEW x \in X
       PROVE  /\ Append(Append(pre, "//") \o s, x) = Append(pre, "//") \o Append(s, x)
              /\ Append(s, x) \in Seq(X)
  <2> DEFINE head == Append(pre, "//")
  <2>1. head \in Seq(X)
    BY <1>10
  <2> HIDE DEF head
  <2>2. Append(head \o s, x) = head \o Append(s, x) /\ Append(s, x) \in Seq(X)
    BY <2>1, AppendInto
  <2> QED
    BY <2>2, Zenon DEF head
<1>12. \E more \in Seq(X) : C2.out = Append(pre, "//") \o more
  <2> HIDE DEF C, C2
  <2>1. CASE C2.out = C.out
    BY <1>5, <2>1, Zenon
  <2>2. ASSUME NEW x \in X, C2.out = Append(C.out, x)
        PROVE  \E more \in Seq(X) : C2.out = Append(pre, "//") \o more
    <3>1. Append(Append(pre, "//") \o rest, x) = Append(pre, "//") \o Append(rest, x)
      BY <1>11
    <3>2. C2.out = Append(pre, "//") \o Append(rest, x)
      BY <1>5, <2>2, <3>1, Zenon
    <3> QED
      BY <1>11, <3>2, Zenon
  <2> QED
    BY <1>9, <2>1, <2>2
<1>13. Strung(L2.read) \/ \E more \in Seq(X) : R2.out = Append(pre, "//") \o more
  <2>1. CASE Strung(L.read)
    BY <2>1 DEF Strung, LexToken
  <2>2. CASE ~Strung(L.read)
    <3>1. PICK more \in Seq(X) : R.out = Append(pre, "//") \o more
      BY <1>5, <2>2
    <3>2. R2.out = Append(pre, "//") \o Append(more, t) /\ Append(more, t) \in Seq(X)
      BY <1>7, <1>11, <3>1
    <3> QED
      BY <3>2
  <2> QED
    BY <2>1, <2>2
<1> HIDE DEF C, C2, U2
<1>14. \E p \in Seq(X \ Opening), r \in Seq(X) :
         /\ C2.out = Append(p, "//") \o r
         /\ Uncommenting(p) = [out |-> L2.code, held |-> <<>>]
         /\ Strung(L2.read) \/ \E more \in Seq(X) : R2.out = Append(p, "//") \o more
  BY <1>5, <1>6, <1>12, <1>13
<1> QED
  BY <1>6, <1>7, <1>14 DEF PassesAgree

\* The passes are where the reading is at every token of a line that starts in
\* no comment.
LEMMA StartsInStep ==
  ASSUME NEW X, "QQ" \in X, NEW from \in {"code", "raw"}
  PROVE  InStep(X, LexStart(from), RawStart(from = "raw"))
<1> DEFINE L == LexStart(from)
           R == RawStart(from = "raw")
           C == Collapsing(R.out)
           U == Uncommenting(C.out)
<1>1. /\ Collapsing(<<>>) = HoldingNone /\ Uncommenting(<<>>) = HoldingNone
      /\ Collapsing(Append(<<>>, "QQ")) = StringToken(HoldingNone, "QQ")
      /\ Uncommenting(Append(<<>>, "QQ")) = CommentToken(HoldingNone, "QQ")
  <2>1. <<>> \in Seq(X)
    OBVIOUS
  <2>2. Collapsing(<<>>) = HoldingNone /\ Uncommenting(<<>>) = HoldingNone
    BY <2>1, CollapsingGrows, UncommentingGrows
  <2> QED
    BY <2>1, <2>2, PassesGrow
<1>2. Append(<<>>, "QQ") = <<"QQ">> /\ "QQ" \in X \ Opening
  BY DEF Opening
<1>3. /\ Collapsing(<<"QQ">>) = [out |-> <<"QQ">>, held |-> <<>>]
      /\ Uncommenting(<<"QQ">>) = [out |-> <<"QQ">>, held |-> <<>>]
  BY <1>1, <1>2 DEF StringToken, CommentToken, HoldingNone
<1>4. R.inside = (from = "raw") /\ R.comment = FALSE /\ R.odd = FALSE
  BY DEF RawStart
<1>5. L.in = from /\ L.read = {} /\ R.out = L.code
  BY DEF LexStart, RawStart
<1>6. C.out = L.code /\ C.held = <<>> /\ U.out = L.code /\ U.held = <<>>
  <2>1. CASE from = "raw"
    <3>1. L.code = <<"QQ">>
      BY <2>1 DEF LexStart
    <3> HIDE DEF L, R
    <3> QED
      BY <1>3, <1>5, <3>1
  <2>2. CASE from = "code"
    <3>1. L.code = <<>>
      BY <2>2 DEF LexStart
    <3> HIDE DEF L, R
    <3> QED
      BY <1>1, <1>5, <3>1 DEF HoldingNone
  <2> QED
    BY <2>1, <2>2
<1>7. L.code \in Seq(X \ Opening)
  <2>1. L.code = <<"QQ">> \/ L.code = <<>>
    BY DEF LexStart
  <2> DEFINE Y == X \ Opening
  <2>2. "QQ" \in Y
    BY <1>2
  <2> HIDE DEF Y, L
  <2>3. L.code \in Seq(Y)
    <3>1. <<"QQ">> \in Seq(Y) /\ <<>> \in Seq(Y)
      BY <2>2
    <3> QED
      BY <2>1, <3>1, Zenon
  <2> QED
    BY <2>3 DEF Y
<1> HIDE DEF L, R, C, U
<1>8. PassesAgree(X, L, R, C, U)
  BY <1>4, <1>5, <1>6, <1>7 DEF PassesAgree
<1> QED
  BY <1>8 DEF InStep, L, R, C, U

LEMMA LineInStep ==
  ASSUME NEW X, "QQ" \in X, "//" \in X, NEW text \in Seq(X), NEW from \in {"code", "raw"},
         SimpleTokens(Lex(from, text).read)
  PROVE  InStep(X, Lex(from, text), RawLine(from = "raw", text))
<1> DEFINE N == Len(text)
<1>1. N \in Nat /\ \A i \in 1 .. N : text[i] \in X
  BY LenProperties, ElementOfSeq
<1>2. from \in Classes /\ (from = "raw") \in BOOLEAN
  BY DEF Classes
<1>3. PICK v : /\ v[0] = LexStart(from) /\ v[N] = Lex(from, text)
               /\ \A i \in 1 .. N : v[i] = LexToken(v[i - 1], text[i])
               /\ \A i \in 0 .. N : v[i] \in LexStates(X)
  BY <1>2, LexTrace
<1>4. PICK w : /\ w[0] = RawStart(from = "raw") /\ w[N] = RawLine(from = "raw", text)
               /\ \A i \in 1 .. N : w[i] = RawToken(w[i - 1], text[i])
               /\ \A i \in 0 .. N : w[i] \in RawStates(X)
  BY <1>2, RawLineTrace
<1> DEFINE Good == {n \in Nat : n <= N /\ SimpleTokens(v[n].read) => InStep(X, v[n], w[n])}
<1>5. 0 \in Good
  BY <1>3, <1>4, StartsInStep
<1>6. ASSUME NEW n \in Nat, n \in Good PROVE n + 1 \in Good
  <2>1. SUFFICES ASSUME n + 1 <= N, SimpleTokens(v[n + 1].read)
                 PROVE  InStep(X, v[n + 1], w[n + 1])
    OBVIOUS
  <2>2. n + 1 \in 1 .. N /\ (n + 1) - 1 = n /\ n \in 0 .. N /\ n <= N
    BY <1>1, <2>1
  <2>3. /\ v[n + 1] = LexToken(v[n], text[n + 1]) /\ w[n + 1] = RawToken(w[n], text[n + 1])
        /\ v[n] \in LexStates(X) /\ w[n] \in RawStates(X) /\ text[n + 1] \in X
    BY <1>1, <1>3, <1>4, <2>2
  <2>4. v[n].read \subseteq v[n + 1].read
    BY <2>3 DEF LexToken
  <2>5. SimpleTokens(v[n].read)
    BY <2>1, <2>4 DEF SimpleTokens
  <2>6. InStep(X, v[n], w[n])
    BY <1>6, <2>2, <2>5
  <2>7. v[n].in \in Classes
    BY <2>3 DEF LexStates
  <2>8. CASE v[n].in = "code"
    BY <2>1, <2>3, <2>6, <2>8, StepInCode
  <2>9. CASE v[n].in \in {"string", "raw", "block"}
    BY <2>1, <2>3, <2>6, <2>9, StepElsewhere
  <2>10. CASE v[n].in = "line"
    BY <2>3, <2>6, <2>10, StepInLine
  <2> QED
    BY <2>7, <2>8, <2>9, <2>10 DEF Classes
<1>7. Nat \subseteq Good
  <2> HIDE DEF Good
  <2> QED
    BY <1>5, <1>6, SetInduction
<1>8. N \in Good /\ N <= N
  BY <1>1, <1>7
<1> QED
  BY <1>3, <1>4, <1>8

\* At its end, what is left is the code.
LEMMA EndOfLine ==
  ASSUME NEW X, "QQ" \in X, "//" \in X, NEW L \in LexStates(X), NEW R \in RawStates(X),
         InStep(X, L, R), L.in \in {"code", "raw", "line"},
         Strung(L.read) => ~Starts(R.out, "#include")
  PROVE  CleanseComments(CollapseStrings(R.out)) = L.code
<1> DEFINE C == Collapsing(R.out)
           U == Uncommenting(C.out)
           left == CollapseStrings(R.out)
<1>1. R.out \in Seq(X)
  BY DEF RawStates
<1>2. C \in Holding(X) /\ C.out \in Seq(X) /\ C.held \in Seq(X)
  <2>1. C \in Holding(X)
    BY <1>1, PassesGrow
  <2> QED
    BY <2>1 DEF Holding
<1>3. U \in Holding(X) /\ U.out \in Seq(X) /\ U.held \in Seq(X)
  <2>1. U \in Holding(X)
    BY <1>2, PassesGrow
  <2> QED
    BY <2>1 DEF Holding
<1>4. PassesAgree(X, L, R, C, U)
  BY DEF InStep
<1>5. left = C.out \o C.held \/ (left = R.out /\ ~Strung(L.read))
  BY DEF CollapseStrings
<1>6. /\ L.code \in Seq(X) /\ L.code \o <<>> = L.code
  <2>1. L.code \in Seq(X)
    BY DEF LexStates
  <2> QED
    BY <2>1, ConcatEmptySeq
<1> HIDE DEF C, U, left
<1>7. CASE L.in \in {"code", "raw"}
  <2>1. /\ C.out \in Seq(X \ Opening) /\ C.held = <<>> /\ U.held = <<>> /\ L.code = U.out
        /\ Strung(L.read) \/ R.out = C.out
    BY <1>4, <1>7 DEF PassesAgree
  <2>2. left = C.out
    BY <1>2, <1>5, <2>1, ConcatEmptySeq
  <2>3. SingleLine(left) = left
    BY <2>1, <2>2, WithoutLineComment
  <2>4. Uncommenting(SingleLine(left)) = U
    BY <2>2, <2>3 DEF U
  <2>5. CleanseComments(left) = U.out \o U.held
    BY <2>4, Zenon DEF CleanseComments
  <2> QED
    BY <1>6, <2>1, <2>5 DEF left
<1>8. CASE L.in = "line"
  <2>1. PICK pre \in Seq(X \ Opening), rest \in Seq(X) :
          /\ C.out = Append(pre, "//") \o rest
          /\ Uncommenting(pre) = [out |-> L.code, held |-> <<>>]
          /\ Strung(L.read) \/ \E more \in Seq(X) : R.out = Append(pre, "//") \o more
    BY <1>4, <1>8 DEF PassesAgree
  <2>2. Append(pre, "//") \in Seq(X)
    <3>1. pre \in Seq(X)
      BY SeqMonotonic
    <3> QED
      BY <3>1, NotEmpty
  <2>3. PICK more \in Seq(X) : left = Append(pre, "//") \o more
    <3>1. CASE left = C.out \o C.held
      <4> DEFINE head == Append(pre, "//")
      <4>1. head \in Seq(X)
        BY <2>2
      <4> HIDE DEF head
      <4>2. (head \o rest) \o C.held = head \o (rest \o C.held) /\ rest \o C.held \in Seq(X)
        <5>1. rest \in Seq(X) /\ C.held \in Seq(X)
          BY <1>2
        <5>2. rest \o C.held \in Seq(X)
          BY <5>1, ConcatProperties
        <5>3. (head \o rest) \o C.held = head \o (rest \o C.held)
          <6> DEFINE held == C.held
          <6>1. held \in Seq(X)
            BY <5>1
          <6> HIDE DEF held
          <6>2. (head \o rest) \o held = head \o (rest \o held)
            BY <4>1, <5>1, <6>1, ConcatAssociative
          <6> QED
            BY <6>2 DEF held
        <5> QED
          BY <5>2, <5>3, Zenon
      <4>3. left = head \o (rest \o C.held)
        BY <2>1, <3>1, <4>2, Zenon DEF head
      <4> QED
        BY <4>2, <4>3, Zenon DEF head
    <3>2. CASE left = R.out /\ ~Strung(L.read)
      BY <2>1, <3>2, Zenon
    <3> QED
      BY <1>5, <3>1, <3>2
  <2>4. SingleLine(left) = pre
    BY <2>3, WithLineComment
  <2>5. Uncommenting(SingleLine(left)) = [out |-> L.code, held |-> <<>>]
    BY <2>1, <2>4
  <2>6. CleanseComments(left) = L.code \o <<>>
    <3> DEFINE st == Uncommenting(SingleLine(left))
    <3>1. CleanseComments(left) = st.out \o st.held
      BY Zenon DEF CleanseComments
    <3>2. st.out = L.code /\ st.held = <<>>
      BY <2>5
    <3> HIDE DEF st
    <3> QED
      BY <3>1, <3>2
  <2> QED
    BY <1>6, <2>6 DEF left
<1> QED
  BY <1>7, <1>8

\* So a line that starts and ends in no comment keeps its code, and goes on as a
\* raw string if it is one.
LEMMA LineKept ==
  ASSUME NEW X, "QQ" \in X, "//" \in X, NEW text \in Seq(X), NEW from \in {"code", "raw"},
         SimpleLine(text, from, Lex(from, text)), Lex(from, text).in # "block"
  PROVE  /\ CleanseComments(CollapseStrings(RawLine(from = "raw", text).out)) = Lex(from, text).code
         /\ RawLine(from = "raw", text).inside <=> (Lex(from, text).in = "raw")
<1> DEFINE L == Lex(from, text)
           R == RawLine(from = "raw", text)
<1>1. from \in Classes /\ (from = "raw") \in BOOLEAN
  BY DEF Classes
<1>2. L \in LexStates(X) /\ R \in RawStates(X)
  BY <1>1, LexGrows, RawLineGrows
<1>3. SimpleTokens(L.read)
  BY DEF SimpleLine, SimpleTokens, Opening
<1>4. InStep(X, L, R)
  BY <1>3, LineInStep
<1>5. L.in \in {"code", "raw", "line"}
  BY <1>2 DEF LexStates, Classes, SimpleLine
<1>6. ASSUME Strung(L.read) PROVE ~Starts(R.out, "#include")
  <2> DEFINE Y == X \ {"#include"}
  <2>1. "#include" \notin Range(text)
    BY <1>6 DEF SimpleLine, Strung
  <2>2. text \in Seq(Y)
    <3>1. Len(text) \in Nat /\ text \in [1 .. Len(text) -> X]
      BY LenProperties
    <3>2. ASSUME NEW i \in 1 .. Len(text) PROVE text[i] \in Y
      BY <2>1, <3>1 DEF Range
    <3>3. text \in [1 .. Len(text) -> Y]
      BY <3>1, <3>2
    <3> HIDE DEF Y
    <3> QED
      BY <3>1, <3>3
  <2>3. R \in RawStates(Y)
    <3>1. "QQ" \in Y
      OBVIOUS
    <3> HIDE DEF Y
    <3> QED
      BY <1>1, <2>2, <3>1, RawLineGrows
  <2>4. R.out \in Seq(Y)
    BY <2>3 DEF RawStates
  <2>5. Stripped(R.out) \in Seq(Y)
    BY <2>4, StrippedType
  <2>6. Stripped(R.out) # <<>> => Head(Stripped(R.out)) \in Y
    <3> HIDE DEF Y
    <3> QED
      BY <2>5, HeadTailProperties
  <2> QED
    BY <2>6 DEF Starts
<1> HIDE DEF L, R
<1>7. CleanseComments(CollapseStrings(R.out)) = L.code
  BY <1>2, <1>4, <1>5, <1>6, EndOfLine
<1>8. R.inside <=> (L.in = "raw")
  BY <1>4 DEF InStep, PassesAgree
<1> QED
  BY <1>7, <1>8 DEF L, R

------------------------------------------------------------------------------
\* Comments, over the lines of a file.

\* A line in a comment over several lines has no code, and ends with it where it
\* ends with the comment; and a line opens one where C++ has it open.
LEMMA LexTokenIs ==
  ASSUME NEW st, NEW t, NEW class, class = Class(st.in, t)
  PROVE  /\ LexToken(st, t).in = IF st.in = class /\ Closes(st.in, t) THEN "code" ELSE class
         /\ LexToken(st, t).read = st.read \cup {<<class, t>>}
         /\ class = "block" => LexToken(st, t).code = st.code
<1> DEFINE code == CASE class = "code" -> Append(st.code, t)
                     [] class \in {"string", "raw"} /\ st.in # class -> Append(st.code, "QQ")
                     [] OTHER -> st.code
<1>1. LexToken(st, t) = [in |-> IF st.in = class /\ Closes(st.in, t) THEN "code" ELSE class,
                         read |-> st.read \cup {<<class, t>>}, code |-> code]
  BY Zenon DEF LexToken
<1>2. class = "block" => code = st.code
  OBVIOUS
<1> HIDE DEF code
<1> QED
  BY <1>1, <1>2

LEMMA LexReads ==
  ASSUME NEW X, "QQ" \in X, NEW text \in Seq(X), NEW from \in Classes
  PROVE  \E v : /\ v[0] = LexStart(from) /\ v[Len(text)] = Lex(from, text)
                /\ \A i \in 1 .. Len(text) :
                     /\ v[i] = LexToken(v[i - 1], text[i])
                     /\ v[i - 1].in \in Classes
                     /\ <<Class(v[i - 1].in, text[i]), text[i]>> \in Lex(from, text).read
<1> DEFINE N == Len(text)
<1>1. N \in Nat /\ \A i \in 1 .. N : text[i] \in X
  BY LenProperties, ElementOfSeq
<1>2. PICK v : /\ v[0] = LexStart(from) /\ v[N] = Lex(from, text)
               /\ \A i \in 1 .. N : v[i] = LexToken(v[i - 1], text[i])
               /\ \A i \in 0 .. N : v[i] \in LexStates(X)
  BY LexTrace
<1>3. ASSUME NEW i \in 1 .. N
      PROVE  v[i].read = v[i - 1].read \cup {<<Class(v[i - 1].in, text[i]), text[i]>>}
  BY <1>2, LexTokenIs
<1> DEFINE ReadOn(k) == {n \in Nat : k <= n /\ n <= N => v[k].read \subseteq v[n].read}
<1>4. ASSUME NEW k \in 1 .. N PROVE v[k].read \subseteq v[N].read
  <2>1. 0 \in ReadOn(k)
    OBVIOUS
  <2>2. ASSUME NEW n \in Nat, n \in ReadOn(k) PROVE n + 1 \in ReadOn(k)
    <3>1. SUFFICES ASSUME k <= n + 1, n + 1 <= N PROVE v[k].read \subseteq v[n + 1].read
      OBVIOUS
    <3>2. CASE k = n + 1
      BY <3>2
    <3>3. CASE k <= n
      <4>1. n + 1 \in 1 .. N /\ (n + 1) - 1 = n /\ n <= N
        BY <1>1, <3>1
      <4>2. v[n].read \subseteq v[n + 1].read
        BY <1>3, <4>1
      <4> QED
        BY <2>2, <3>3, <4>1, <4>2
    <3> QED
      BY <3>1, <3>2, <3>3
  <2>3. Nat \subseteq ReadOn(k)
    <3> HIDE DEF ReadOn
    <3> QED
      BY <2>1, <2>2, SetInduction
  <2>4. N \in ReadOn(k) /\ k <= N
    BY <1>1, <2>3
  <2> QED
    BY <1>1, <2>4
<1>5. ASSUME NEW i \in 1 .. N
      PROVE  /\ v[i - 1].in \in Classes
             /\ <<Class(v[i - 1].in, text[i]), text[i]>> \in Lex(from, text).read
  <2>1. i - 1 \in 0 .. N
    BY <1>1
  <2>2. v[i - 1].in \in Classes
    BY <1>2, <2>1 DEF LexStates
  <2>3. <<Class(v[i - 1].in, text[i]), text[i]>> \in v[N].read
    BY <1>3, <1>4
  <2> QED
    BY <1>2, <2>2, <2>3
<1> QED
  BY <1>2, <1>5

LEMMA BlankedCode ==
  ASSUME NEW X, "QQ" \in X, NEW text \in Seq(X), NEW from \in {"code", "raw", "block"},
         SimpleLine(text, from, Lex(from, text)), "block" \in {from, Lex(from, text).in}
  PROVE  Lex(from, text).code = <<>> /\ from # "raw" /\ Lex(from, text).in \in {"code", "block"}
<1> DEFINE N == Len(text)
<1>1. N \in Nat /\ from \in Classes
  BY LenProperties DEF Classes
<1>2. PICK v : /\ v[0] = LexStart(from) /\ v[N] = Lex(from, text)
               /\ \A i \in 1 .. N :
                    /\ v[i] = LexToken(v[i - 1], text[i])
                    /\ v[i - 1].in \in Classes
                    /\ <<Class(v[i - 1].in, text[i]), text[i]>> \in Lex(from, text).read
  BY <1>1, LexReads
<1>3. ASSUME NEW i \in 1 .. N PROVE Class(v[i - 1].in, text[i]) = "block"
  BY <1>2 DEF SimpleLine
<1>4. from # "raw"
  <2>1. SUFFICES ASSUME from = "raw" PROVE FALSE
    OBVIOUS
  <2>2. Lex(from, text).in = "block" /\ v[0].in = "raw"
    BY <1>2, <2>1 DEF LexStart
  <2>3. N # 0
    BY <1>2, <2>2
  <2>4. 1 \in 1 .. N /\ 1 - 1 = 0
    BY <1>1, <2>3
  <2>5. Class("raw", text[1]) = "block"
    BY <1>3, <2>2, <2>4
  <2> QED
    BY <2>5 DEF Class
<1> DEFINE Bare == {w \in {v[i] : i \in 0 .. N} : w.code = <<>>}
<1>5. v[0] \in Bare
  BY <1>1, <1>2, <1>4 DEF LexStart
<1>6. ASSUME NEW i \in 1 .. N, v[i - 1] \in Bare PROVE v[i] \in Bare
  <2>1. v[i].code = v[i - 1].code
    <3>1. Class(v[i - 1].in, text[i]) = "block" /\ v[i] = LexToken(v[i - 1], text[i])
      BY <1>2, <1>3
    <3>2. LexToken(v[i - 1], text[i]).code = v[i - 1].code
      BY <3>1, LexTokenIs
    <3> QED
      BY <3>1, <3>2
  <2>2. i \in 0 .. N
    BY <1>1
  <2> QED
    BY <1>6, <2>1, <2>2
<1>7. v[N] \in Bare
  <2>1. N \in 0 .. N
    BY <1>1
  <2> HIDE DEF Bare
  <2> QED
    BY <1>1, <1>5, <1>6, <2>1, RecursionStays
<1>8. Lex(from, text).in \in {"code", "block"}
  <2>1. CASE N = 0
    <3>1. v[N].in = from
      BY <1>2, <2>1 DEF LexStart
    <3> QED
      BY <1>2, <3>1
  <2>2. CASE N # 0
    <3>1. N \in 1 .. N
      BY <1>1, <2>2
    <3>2. v[N] = LexToken(v[N - 1], text[N]) /\ Class(v[N - 1].in, text[N]) = "block"
      BY <1>2, <1>3, <3>1
    <3>3. LexToken(v[N - 1], text[N]).in \in {"code", "block"}
      BY <3>2, LexTokenIs
    <3> QED
      BY <1>2, <3>2, <3>3
  <2> QED
    BY <2>1, <2>2
<1> QED
  BY <1>2, <1>4, <1>7, <1>8

LEMMA CommentEnds ==
  ASSUME NEW X, "QQ" \in X, NEW text \in Seq(X), SimpleLine(text, "block", Lex("block", text))
  PROVE  EndsWith(text, "*/") <=> (Lex("block", text).in # "block")
<1> DEFINE N == Len(text)
<1>1. N \in Nat /\ "block" \in Classes
  BY LenProperties DEF Classes
<1>2. PICK v : /\ v[0] = LexStart("block") /\ v[N] = Lex("block", text)
               /\ \A i \in 1 .. N :
                    /\ v[i] = LexToken(v[i - 1], text[i])
                    /\ v[i - 1].in \in Classes
                    /\ <<Class(v[i - 1].in, text[i]), text[i]>> \in Lex("block", text).read
  BY <1>1, LexReads
<1>3. ASSUME EndsWith(text, "*/") PROVE Lex("block", text).in # "block"
  <2>1. text # <<>> /\ text[N] = "*/"
    BY <1>3 DEF EndsWith, Last
  <2>2. N \in 1 .. N
    BY <1>1, <2>1, EmptySeq
  <2>3. v[N] = LexToken(v[N - 1], "*/")
    BY <1>2, <2>1, <2>2
  <2>4. LexToken(v[N - 1], "*/").in # "block"
    BY DEF LexToken, Class, Closes
  <2> QED
    BY <1>2, <2>3, <2>4
<1> QED
  BY <1>3 DEF SimpleLine

LEMMA CommentOpens ==
  ASSUME NEW X, "QQ" \in X, NEW text \in Seq(X), NEW from \in {"code", "raw"},
         SimpleLine(text, from, Lex(from, text))
  PROVE  OpensComment(text) <=> (Lex(from, text).in = "block")
<1> DEFINE N == Len(text)
<1>1. N \in Nat /\ from \in Classes
  BY LenProperties DEF Classes
<1>2. PICK v : /\ v[0] = LexStart(from) /\ v[N] = Lex(from, text)
               /\ \A i \in 1 .. N :
                    /\ v[i] = LexToken(v[i - 1], text[i])
                    /\ v[i - 1].in \in Classes
                    /\ <<Class(v[i - 1].in, text[i]), text[i]>> \in Lex(from, text).read
  BY <1>1, LexReads
<1>3. ASSUME OpensComment(text) PROVE Lex(from, text).in = "block"
  <2>1. Starts(text, "/*") /\ Where(text, "*/") = 0 /\ from = "code"
    BY <1>3 DEF OpensComment, SimpleLine
  <2>2. ASSUME NEW i \in 1 .. N PROVE text[i] # "*/"
    BY <2>1, <2>2, NowhereHas
  <2>3. PICK p \in 1 .. N : text[p] = "/*" /\ (p = 1 \/ (p = 2 /\ text[1] = "__"))
    <3>1. Stripped(text) # <<>> /\ Head(Stripped(text)) = "/*"
      BY <2>1 DEF Starts
    <3>2. CASE text # <<>> /\ Head(text) = "__"
      <4>1. Tail(text) # <<>> /\ Head(Tail(text)) = "/*"
        BY <3>1, <3>2 DEF Stripped
      <4>2. /\ Tail(text) \in Seq(X) /\ Len(Tail(text)) = N - 1
            /\ \A i \in 1 .. Len(Tail(text)) : Tail(text)[i] = text[i + 1]
        BY <3>2, HeadTailProperties
      <4>3. Len(Tail(text)) \in Nat \ {0}
        BY <4>1, <4>2, EmptySeq
      <4>4. 1 \in 1 .. Len(Tail(text)) /\ 2 \in 1 .. N
        BY <1>1, <4>2, <4>3
      <4>5. Tail(text)[1] = "/*" /\ text[1] = "__"
        BY <3>2, <4>1
      <4>6. text[2] = "/*"
        BY <4>2, <4>4, <4>5
      <4> QED
        BY <4>4, <4>5, <4>6
    <3>3. CASE ~(text # <<>> /\ Head(text) = "__")
      <4>1. text # <<>> /\ Head(text) = "/*"
        BY <3>1, <3>3 DEF Stripped
      <4>2. 1 \in 1 .. N
        BY <1>1, <4>1, EmptySeq
      <4> QED
        BY <4>1, <4>2
    <3> QED
      BY <3>2, <3>3
  <2>4. v[p - 1].in = "code"
    <3>1. v[0].in = "code"
      BY <1>2, <2>1 DEF LexStart
    <3>2. CASE p = 1
      BY <3>1, <3>2
    <3>3. CASE p = 2 /\ text[1] = "__"
      <4>1. 1 \in 1 .. N /\ 1 - 1 = 0 /\ p - 1 = 1
        BY <1>1, <3>3
      <4>2. v[1] = LexToken(v[0], "__")
        BY <1>2, <3>3, <4>1
      <4>3. LexToken(v[0], "__").in = "code"
        BY <3>1 DEF LexToken, Class, Closes
      <4> QED
        BY <4>1, <4>2, <4>3
    <3> QED
      BY <2>3, <3>2, <3>3
  <2>5. v[p].in = "block"
    <3>1. Class(v[p - 1].in, text[p]) = "block" /\ v[p - 1].in # "block"
      BY <2>3, <2>4 DEF Class
    <3>2. LexToken(v[p - 1], text[p]).in = "block"
      BY <3>1, LexTokenIs
    <3> QED
      BY <1>2, <3>2
  <2> DEFINE Open == {n \in Nat : p <= n /\ n <= N => v[n].in = "block"}
  <2>6. 0 \in Open
    BY <1>1
  <2>7. ASSUME NEW n \in Nat, n \in Open PROVE n + 1 \in Open
    <3>1. SUFFICES ASSUME p <= n + 1, n + 1 <= N PROVE v[n + 1].in = "block"
      OBVIOUS
    <3>2. CASE p = n + 1
      BY <2>5, <3>2
    <3>3. CASE p <= n
      <4>1. n + 1 \in 1 .. N /\ (n + 1) - 1 = n /\ n <= N
        BY <1>1, <3>1
      <4>2. v[n].in = "block" /\ text[n + 1] # "*/" /\ v[n + 1] = LexToken(v[n], text[n + 1])
        BY <1>2, <2>2, <2>7, <3>3, <4>1
      <4> QED
        BY <4>2 DEF LexToken, Class, Closes
    <3> QED
      BY <1>1, <3>1, <3>2, <3>3
  <2>8. Nat \subseteq Open
    <3> HIDE DEF Open
    <3> QED
      BY <2>6, <2>7, SetInduction
  <2>9. N \in Open /\ p <= N
    BY <1>1, <2>8
  <2> QED
    BY <1>2, <2>9
<1>4. ASSUME Lex(from, text).in = "block" PROVE OpensComment(text)
  <2>1. ASSUME NEW i \in 1 .. N PROVE Class(v[i - 1].in, text[i]) = "block" /\ text[i] # "*/"
    <3>1. <<Class(v[i - 1].in, text[i]), text[i]>> \in Lex(from, text).read
      BY <1>2
    <3>2. \A r \in Lex(from, text).read : r[1] = "block"
      BY <1>4 DEF SimpleLine
    <3>3. <<"block", "*/">> \notin Lex(from, text).read
      BY <1>4 DEF SimpleLine
    <3>4. Class(v[i - 1].in, text[i]) = "block"
      BY <3>1, <3>2
    <3> QED
      BY <3>1, <3>3, <3>4
  <2>2. v[0].in = from
    BY <1>2 DEF LexStart
  <2>3. N # 0
    BY <1>2, <1>4, <2>2
  <2>4. 1 \in 1 .. N /\ 1 - 1 = 0
    BY <1>1, <2>3
  <2>5. Class(from, text[1]) = "block"
    BY <2>1, <2>2, <2>4
  <2>6. text[1] = "/*"
    BY <2>5 DEF Class
  <2>7. text # <<>> /\ Head(text) = "/*"
    BY <2>3, <2>6, EmptySeq
  <2>8. Starts(text, "/*")
    BY <2>7 DEF Starts, Stripped
  <2>9. Where(text, "*/") = 0
    BY <2>1, NowhereIs
  <2> QED
    BY <2>8, <2>9 DEF OpensComment
<1> QED
  BY <1>3, <1>4

\* What finding the comments over several lines goes by.
CommentScans == [begin : Nat, blanked : SUBSET Nat]
NoComments == [begin |-> 0, blanked |-> {}]
CommentScan(texts, st, n) ==
  IF st.begin = 0 THEN [st EXCEPT !.begin = IF OpensComment(texts[n]) THEN n ELSE 0]
  ELSE IF EndsWith(texts[n], "*/") THEN [begin |-> 0, blanked |-> st.blanked \cup st.begin .. n]
  ELSE st

\* The comments over several lines, line by line.
LEMMA CommentsTrace ==
  ASSUME NEW X, NEW texts \in Seq(Seq(X)), NEW id, id = [n \in DOMAIN texts |-> n]
  PROVE  \E v : /\ v[0] = NoComments
                /\ v[Len(id)] = MultiLineComments(texts)
                /\ \A i \in 1 .. Len(id) : v[i] = CommentScan(texts, v[i - 1], id[i])
                /\ \A i \in 0 .. Len(id) : v[i] \in CommentScans
<1> DEFINE base == NoComments
           A == CommentScans
           N == Len(id)
           F == [i \in 1 .. N |-> [v \in A |-> CommentScan(texts, v, id[i])]]
           iter[s \in SUBSET (DOMAIN id)] ==
             IF s = {} THEN base ELSE CommentScan(texts, iter[s \ {Max(s)}], id[Max(s)])
           v == [i \in 0 .. N |-> iter[1 .. i]]
<1>1. N \in Nat /\ DOMAIN id = 1 .. N /\ \A i \in 1 .. N : id[i] \in Nat
  <2>1. Len(texts) \in Nat /\ DOMAIN texts = 1 .. Len(texts)
    BY LenProperties
  <2>2. id \in Seq(Nat) /\ Len(id) = Len(texts)
    BY <2>1
  <2> QED
    BY <2>1, <2>2
<1>2. base \in A
  BY DEF NoComments, CommentScans
<1>3. ASSUME NEW w \in A, NEW t \in Nat PROVE CommentScan(texts, w, t) \in A
  BY DEF CommentScan, CommentScans
<1>4. MultiLineComments(texts) = iter[DOMAIN id]
  BY Zenon DEF MultiLineComments, CommentScan, NoComments, FoldLeft, MapThenFoldSet
<1> HIDE DEF base, A, N
<1>5. Recurrence(F, N, A)
  BY <1>1, <1>3 DEF Recurrence
<1>6. PICK g : Folds(g, F, base, N, A)
  <2> HIDE DEF F
  <2> QED
    BY <1>1, <1>2, <1>5, FiniteFold
<1>7. g = [s \in SUBSET (DOMAIN id) |->
             IF s = {} THEN base ELSE CommentScan(texts, g[s \ {Max(s)}], id[Max(s)])]
  <2>1. g = [s \in SUBSET (DOMAIN id) |-> g[s]]
    BY <1>1, <1>6 DEF Folds
  <2>2. ASSUME NEW s \in SUBSET (DOMAIN id)
        PROVE  g[s] = IF s = {} THEN base ELSE CommentScan(texts, g[s \ {Max(s)}], id[Max(s)])
    <3>1. CASE s = {}
      BY <1>1, <1>6, <3>1 DEF Folds
    <3>2. CASE s # {}
      <4>1. Max(s) \in 1 .. N /\ s \ {Max(s)} \in SUBSET (1 .. N)
        BY <1>1, <3>2, MaxType
      <4>2. g[s] = F[Max(s)][g[s \ {Max(s)}]] /\ g[s \ {Max(s)}] \in A
        BY <1>1, <1>6, <3>2, <4>1 DEF Folds
      <4> QED
        BY <3>2, <4>1, <4>2
    <3> QED
      BY <3>1, <3>2
  <2> QED
    BY <2>1, <2>2, Zenon
<1>8. iter = [s \in SUBSET (DOMAIN id) |->
                IF s = {} THEN base ELSE CommentScan(texts, iter[s \ {Max(s)}], id[Max(s)])]
  BY <1>7, Zenon
<1> HIDE DEF iter
<1>9. v[0] = base /\ v[N] = MultiLineComments(texts) /\ \A i \in 0 .. N : v[i] = iter[1 .. i]
  <2>1. 1 .. 0 = {} /\ iter[{}] = base /\ 0 \in 0 .. N /\ N \in 0 .. N
    BY <1>1, <1>8
  <2> QED
    BY <1>1, <1>4, <2>1
<1> HIDE DEF v
<1>10. ASSUME NEW i \in 1 .. N PROVE v[i] = CommentScan(texts, v[i - 1], id[i])
  <2>1. /\ 1 .. i \in SUBSET (DOMAIN id) /\ 1 .. i # {} /\ Max(1 .. i) = i
        /\ (1 .. i) \ {i} = 1 .. (i - 1) /\ i - 1 \in 0 .. N /\ i \in 0 .. N
    <3>1. /\ 1 .. i \in SUBSET (1 .. N) /\ 1 .. i # {} /\ Max(1 .. i) = i
          /\ (1 .. i) \ {i} = 1 .. (i - 1) /\ i - 1 \in 0 .. N
      BY <1>1, FirstPositions
    <3>2. i \in 0 .. N /\ DOMAIN id = 1 .. N
      BY <1>1
    <3> QED
      BY <3>1, <3>2
  <2>2. iter[1 .. i] = CommentScan(texts, iter[1 .. (i - 1)], id[i])
    BY <1>8, <2>1
  <2> QED
    BY <1>9, <2>1, <2>2
<1>11. ASSUME NEW i \in 1 .. N, v[i - 1] \in A PROVE v[i] \in A
  BY <1>1, <1>3, <1>10, <1>11
<1>12. \A i \in 0 .. N : v[i] \in A
  BY <1>1, <1>2, <1>9, <1>11, RecursionStays
<1> QED
  BY <1>9, <1>10, <1>12 DEF base, A, N

\* What is open after each of the lines.
Carries(open, text) ==
  /\ open[0] = "code"
  /\ \A n \in 1 .. Len(text) :
       /\ open[n - 1] \in {"code", "raw", "block"}
       /\ open[n] = (IF Lex(open[n - 1], text[n]).in \in {"raw", "block"}
                     THEN Lex(open[n - 1], text[n]).in ELSE "code")

LEMMA LexedIs ==
  ASSUME NEW X, NEW text \in Seq(Seq(X)), NEW f, Len(f.lines) = Len(text),
         DOMAIN f.lines = 1 .. Len(text), \A n \in 1 .. Len(text) : f.lines[n].text = text[n]
  PROVE  \E open : /\ Carries(open, text)
                   /\ Lexed(f) = [n \in 1 .. Len(text) |->
                        [from |-> open[n - 1], line |-> Lex(open[n - 1], text[n])]]
<1> DEFINE N == Len(text)
           A == {"code", "raw", "block"}
           Goes(in) == IF in \in {"raw", "block"} THEN in ELSE "code"
           F == [n \in 1 .. N |-> [w \in A |-> Goes(Lex(w, text[n]).in)]]
           Body(g) == [n \in 0 .. Len(f.lines) |->
                        IF n = 0 THEN "code" ELSE Goes(Lex(g[n - 1], f.lines[n].text).in)]
           open == CHOOSE g : g = Body(g)
<1>1. N \in Nat /\ "code" \in A
  BY LenProperties
<1>2. \A n \in 1 .. N : \A w \in A : F[n][w] = Goes(Lex(w, text[n]).in)
  OBVIOUS
<1>3. \A in : Goes(in) \in A
  OBVIOUS
<1>4. Recurrence(F, N, A)
  <2> HIDE DEF A, F, Goes
  <2> QED
    BY <1>2, <1>3 DEF Recurrence
<1>5. PICK g : Recurs(g, F, "code", N, A)
  <2> HIDE DEF A, F, Goes
  <2> QED
    BY <1>1, <1>4, FiniteRecursion
<1>6. g = Body(g)
  <2> HIDE DEF Goes, A, F
  <2>1. g = [n \in 0 .. N |-> g[n]]
    BY <1>5 DEF Recurs
  <2>2. ASSUME NEW n \in 0 .. N
        PROVE  g[n] = IF n = 0 THEN "code" ELSE Goes(Lex(g[n - 1], f.lines[n].text).in)
    <3>1. CASE n = 0
      BY <1>5, <3>1 DEF Recurs
    <3>2. CASE n # 0
      <4>1. n \in 1 .. N /\ n - 1 \in 0 .. N
        BY <1>1, <3>2
      <4>2. g[n] = F[n][g[n - 1]] /\ g[n - 1] \in A
        BY <1>5, <4>1 DEF Recurs
      <4>3. f.lines[n].text = text[n]
        BY <4>1
      <4> QED
        BY <1>2, <3>2, <4>1, <4>2, <4>3
    <3> QED
      BY <3>1, <3>2
  <2> QED
    BY <2>1, <2>2, Zenon
<1>7. open = Body(open)
  <2> HIDE DEF Body
  <2> QED
    BY <1>6, Zenon
<1>8. Lexed(f) = [n \in DOMAIN f.lines |->
                   [from |-> open[n - 1], line |-> Lex(open[n - 1], f.lines[n].text)]]
  BY Zenon DEF Lexed
<1> HIDE DEF open, F
<1>9. open[0] = "code" /\ \A n \in 1 .. N : open[n] = Goes(Lex(open[n - 1], text[n]).in)
  <2> HIDE DEF Goes
  <2>1. \A n \in 0 .. N : open[n] = IF n = 0 THEN "code" ELSE Goes(Lex(open[n - 1], f.lines[n].text).in)
    BY <1>7
  <2>2. 0 \in 0 .. N /\ \A n \in 1 .. N : n \in 0 .. N /\ n # 0
    BY <1>1
  <2> QED
    BY <2>1, <2>2
<1>10. ASSUME NEW n \in 1 .. N PROVE open[n - 1] \in A
  <2>1. CASE n = 1
    BY <1>1, <1>9, <2>1
  <2>2. CASE n # 1
    <3>1. n - 1 \in 1 .. N
      BY <1>1, <2>2
    <3> HIDE DEF A, Goes
    <3> QED
      BY <1>3, <1>9, <3>1
  <2> QED
    BY <2>1, <2>2
<1>11. Carries(open, text)
  BY <1>9, <1>10 DEF Carries
<1>12. Lexed(f) = [n \in 1 .. N |-> [from |-> open[n - 1], line |-> Lex(open[n - 1], text[n])]]
  <2>1. \A n \in 1 .. N : [from |-> open[n - 1], line |-> Lex(open[n - 1], f.lines[n].text)]
                            = [from |-> open[n - 1], line |-> Lex(open[n - 1], text[n])]
    OBVIOUS
  <2> QED
    BY <1>8, <2>1
<1> QED
  BY <1>11, <1>12

\* The lines that are blanked are those a comment over several lines has.
LEMMA CommentsAre ==
  ASSUME NEW X, "QQ" \in X, NEW text \in Seq(Seq(X)), NEW open, Carries(open, text),
         \A n \in 1 .. Len(text) : SimpleLine(text[n], open[n - 1], Lex(open[n - 1], text[n])),
         open[Len(text)] # "block"
  PROVE  MultiLineComments(text).blanked =
           {n \in 1 .. Len(text) : "block" \in {open[n - 1], Lex(open[n - 1], text[n]).in}}
<1> DEFINE N == Len(text)
           id == [n \in DOMAIN text |-> n]
           Ends(n) == Lex(open[n - 1], text[n]).in
           Within(i) == {n \in 1 .. i : "block" \in {open[n - 1], Ends(n)}}
<1>1. N \in Nat /\ DOMAIN text = 1 .. N /\ \A i \in 1 .. N : text[i] \in Seq(X)
  BY LenProperties, ElementOfSeq
<1>2. Len(id) = N /\ \A i \in 1 .. N : id[i] = i
  BY <1>1
<1>3. PICK v : /\ v[0] = NoComments /\ v[Len(id)] = MultiLineComments(text)
               /\ \A i \in 1 .. Len(id) : v[i] = CommentScan(text, v[i - 1], id[i])
               /\ \A i \in 0 .. Len(id) : v[i] \in CommentScans
  BY CommentsTrace
<1>4. /\ v[N] = MultiLineComments(text)
      /\ \A i \in 1 .. N : v[i] = CommentScan(text, v[i - 1], i)
      /\ \A i \in 0 .. N : v[i] \in CommentScans
  BY <1>2, <1>3
<1> HIDE DEF id
<1>5. ASSUME NEW n \in 1 .. N
      PROVE  /\ open[n] = "block" <=> Ends(n) = "block"
             /\ open[n - 1] # "block" => (OpensComment(text[n]) <=> Ends(n) = "block")
             /\ open[n - 1] = "block" => (EndsWith(text[n], "*/") <=> Ends(n) # "block")
  <2>1. /\ open[n - 1] \in {"code", "raw", "block"}
        /\ open[n] = (IF Ends(n) \in {"raw", "block"} THEN Ends(n) ELSE "code")
        /\ SimpleLine(text[n], open[n - 1], Lex(open[n - 1], text[n]))
    BY DEF Carries
  <2>2. open[n] = "block" <=> Ends(n) = "block"
    <3> HIDE DEF Ends
    <3> QED
      BY <2>1
  <2>3. CASE open[n - 1] = "block"
    <3>1. EndsWith(text[n], "*/") <=> Lex("block", text[n]).in # "block"
      BY <1>1, <2>1, <2>3, CommentEnds
    <3> QED
      BY <2>2, <2>3, <3>1
  <2>4. CASE open[n - 1] # "block"
    <3>1. open[n - 1] \in {"code", "raw"}
      BY <2>1, <2>4
    <3>2. OpensComment(text[n]) <=> Lex(open[n - 1], text[n]).in = "block"
      BY <1>1, <2>1, <3>1, CommentOpens
    <3> QED
      BY <2>2, <2>4, <3>2
  <2> QED
    BY <2>3, <2>4
<1> HIDE DEF Ends
<1> DEFINE Begins(st, i) == /\ st.begin \in 0 .. i /\ (st.begin = 0 <=> open[i] # "block")
                            /\ st.blanked \cup (IF st.begin = 0 THEN {} ELSE st.begin .. i) = Within(i)
           Good == {i \in Nat : i <= N => Begins(v[i], i)}
<1>6. 0 \in Good
  <2>1. v[0].begin = 0 /\ v[0].blanked = {} /\ open[0] # "block" /\ Within(0) = {}
    BY <1>3 DEF NoComments, Carries
  <2> QED
    BY <2>1
<1>7. ASSUME NEW n \in Nat, n \in Good PROVE n + 1 \in Good
  <2> DEFINE i == n + 1
             s == v[n]
             Touched == "block" \in {open[n], Ends(i)}
  <2>1. SUFFICES ASSUME i <= N PROVE Begins(v[i], i)
    OBVIOUS
  <2>2. i \in 1 .. N /\ i - 1 = n /\ n \in 0 .. N
    BY <1>1, <2>1
  <2>3. v[i] = CommentScan(text, s, i) /\ s \in CommentScans
    BY <1>4, <2>2
  <2>4. Begins(s, n)
    BY <1>7, <2>2
  <2>5. Within(i) = Within(n) \cup (IF Touched THEN {i} ELSE {})
    <3>1. 1 .. i = (1 .. n) \cup {i} /\ i \notin 1 .. n /\ i - 1 = n
      BY <1>1, <2>2
    <3> HIDE DEF i
    <3> QED
      BY <3>1
  <2>6. /\ open[i] = "block" <=> Ends(i) = "block"
        /\ open[n] # "block" => (OpensComment(text[i]) <=> Ends(i) = "block")
        /\ open[n] = "block" => (EndsWith(text[i], "*/") <=> Ends(i) # "block")
    BY <1>5, <2>2
  <2>7. /\ s.begin \in 0 .. n /\ (s.begin = 0 <=> open[n] # "block")
        /\ s.blanked \cup (IF s.begin = 0 THEN {} ELSE s.begin .. n) = Within(n)
    BY <2>4
  <2> HIDE DEF Within
  <2>8. CASE s.begin = 0 /\ OpensComment(text[i])
    <3>1. v[i].begin = i /\ v[i].blanked = s.blanked
      BY <2>3, <2>8 DEF CommentScan, CommentScans
    <3>2. open[i] = "block" /\ Touched /\ s.blanked = Within(n) /\ i .. i = {i}
      BY <2>2, <2>6, <2>7, <2>8
    <3> QED
      BY <2>2, <2>5, <3>1, <3>2
  <2>9. CASE s.begin = 0 /\ ~OpensComment(text[i])
    <3>1. v[i].begin = 0 /\ v[i].blanked = s.blanked
      BY <2>3, <2>9 DEF CommentScan, CommentScans
    <3>2. open[i] # "block" /\ ~Touched /\ s.blanked = Within(n)
      BY <2>2, <2>6, <2>7, <2>9
    <3>3. Within(i) = v[i].blanked
      BY <2>5, <3>1, <3>2
    <3>4. 0 \in 0 .. i
      BY <2>2
    <3> QED
      BY <3>1, <3>2, <3>3, <3>4
  <2>10. CASE s.begin # 0 /\ EndsWith(text[i], "*/")
    <3>1. v[i].begin = 0 /\ v[i].blanked = s.blanked \cup s.begin .. i
      BY <2>3, <2>10 DEF CommentScan, CommentScans
    <3>2. open[i] # "block" /\ Touched /\ s.blanked \cup s.begin .. n = Within(n)
      BY <2>2, <2>6, <2>7, <2>10
    <3>3. s.begin .. i = (s.begin .. n) \cup {i}
      BY <2>2, <2>7
    <3> QED
      BY <2>2, <2>5, <3>1, <3>2, <3>3
  <2>11. CASE s.begin # 0 /\ ~EndsWith(text[i], "*/")
    <3>1. v[i] = s
      BY <2>3, <2>11 DEF CommentScan, CommentScans
    <3>2. open[i] = "block" /\ Touched /\ s.blanked \cup s.begin .. n = Within(n)
      BY <2>2, <2>6, <2>7, <2>11
    <3>3. s.begin .. i = (s.begin .. n) \cup {i} /\ s.begin \in 0 .. i
      BY <2>2, <2>7
    <3> QED
      BY <2>2, <2>5, <2>11, <3>1, <3>2, <3>3
  <2> QED
    BY <2>8, <2>9, <2>10, <2>11
<1>8. Nat \subseteq Good
  <2> HIDE DEF Good
  <2> QED
    BY <1>6, <1>7, SetInduction
<1>9. N \in Good /\ N <= N
  BY <1>1, <1>8
<1>10. v[N].blanked = Within(N)
  BY <1>9
<1> QED
  BY <1>4, <1>10 DEF Ends

\* The raw strings are taken out of each line from what is open at its start.
LEMMA RawStringsAre ==
  ASSUME NEW X, "QQ" \in X, NEW text \in Seq(Seq(X)), NEW open, open[0] # "raw",
         \A n \in 1 .. Len(text) :
           RawLine(open[n - 1] = "raw", text[n]).inside <=> (open[n] = "raw")
  PROVE  CleanseRawStrings(text) = [n \in 1 .. Len(text) |-> RawLine(open[n - 1] = "raw", text[n]).out]
<1> DEFINE N == Len(text)
           Out(n) == RawLine(open[n - 1] = "raw", text[n]).out
<1>1. N \in Nat /\ \A i \in 1 .. N : text[i] \in Seq(X)
  BY LenProperties, ElementOfSeq
<1>2. PICK v : /\ v[0] = RawScanStart /\ v[N].out = CleanseRawStrings(text)
               /\ \A i \in 1 .. N : v[i] = RawScan(v[i - 1], text[i])
               /\ \A i \in 0 .. N : v[i] \in RawScans(X)
  BY RawStringsTrace
<1> DEFINE Same(i) == /\ v[i].inside = (open[i] = "raw") /\ Len(v[i].out) = i
                      /\ \A k \in 1 .. i : v[i].out[k] = Out(k)
           Good == {i \in Nat : i <= N => Same(i)}
<1>3. 0 \in Good
  <2>1. v[0].inside = FALSE /\ v[0].out = <<>>
    BY <1>2 DEF RawScanStart
  <2>2. v[0].inside = (open[0] = "raw")
    BY <2>1
  <2>3. Len(v[0].out) = 0 /\ 1 .. 0 = {}
    BY <2>1
  <2>4. Same(0)
    BY <2>2, <2>3
  <2> HIDE DEF Same
  <2> QED
    BY <2>4
<1>4. ASSUME NEW n \in Nat, n \in Good PROVE n + 1 \in Good
  <2>1. SUFFICES ASSUME n + 1 <= N PROVE Same(n + 1)
    OBVIOUS
  <2>2. n + 1 \in 1 .. N /\ (n + 1) - 1 = n /\ n \in 0 .. N
    BY <1>1, <2>1
  <2>3. v[n + 1] = RawScan(v[n], text[n + 1]) /\ v[n] \in RawScans(X) /\ text[n + 1] \in Seq(X)
    BY <1>1, <1>2, <2>2
  <2>4. Same(n)
    BY <1>4, <2>2
  <2> DEFINE raw == RawLine(open[n] = "raw", text[n + 1])
  <2>5. RawLine(v[n].inside, text[n + 1]) = raw
    BY <2>4
  <2>6. raw \in RawStates(X)
    <3>1. (open[n] = "raw") \in BOOLEAN
      OBVIOUS
    <3> QED
      BY <2>3, <3>1, RawLineGrows
  <2>7. raw.inside \in BOOLEAN /\ raw.out \in Seq(X) /\ Out(n + 1) = raw.out
    BY <2>2, <2>6 DEF RawStates
  <2>8. raw.inside <=> (open[n + 1] = "raw")
    BY <2>2
  <2>9. v[n + 1].inside = raw.inside /\ v[n + 1].out = Append(v[n].out, raw.out)
    BY <2>3, <2>5 DEF RawScan
  <2> HIDE DEF raw, Out
  <2>10. v[n].out \in Seq(Seq(X)) /\ Len(v[n].out) = n /\ \A k \in 1 .. n : v[n].out[k] = Out(k)
    BY <2>3, <2>4 DEF RawScans
  <2>11. Len(v[n + 1].out) = n + 1 /\ \A k \in 1 .. n + 1 : v[n + 1].out[k] = Out(k)
    <3>1. /\ Len(Append(v[n].out, raw.out)) = n + 1
          /\ Append(v[n].out, raw.out)[n + 1] = raw.out
          /\ \A k \in 1 .. n : Append(v[n].out, raw.out)[k] = v[n].out[k]
      BY <2>7, <2>10, AppendProperties
    <3>2. ASSUME NEW k \in 1 .. n + 1 PROVE v[n + 1].out[k] = Out(k)
      <4>1. CASE k = n + 1
        BY <2>7, <2>9, <3>1, <4>1
      <4>2. CASE k # n + 1
        <5>1. k \in 1 .. n
          BY <4>2
        <5> QED
          BY <2>9, <2>10, <3>1, <5>1
      <4> QED
        BY <4>1, <4>2
    <3> QED
      BY <2>9, <3>1, <3>2
  <2>12. v[n + 1].inside = (open[n + 1] = "raw")
    BY <2>7, <2>8, <2>9
  <2> QED
    BY <2>11, <2>12
<1>5. Nat \subseteq Good
  <2> HIDE DEF Good
  <2> QED
    BY <1>3, <1>4, SetInduction
<1>6. Same(N)
  <2>1. N \in Good /\ N <= N
    BY <1>1, <1>5
  <2> QED
    BY <2>1
<1>7. v[N].out \in Seq(Seq(X))
  <2>1. N \in 0 .. N
    BY <1>1
  <2> QED
    BY <1>2, <2>1 DEF RawScans
<1> HIDE DEF Out
<1>8. v[N].out = [n \in 1 .. N |-> Out(n)]
  <2>1. v[N].out = [n \in 1 .. N |-> v[N].out[n]]
    BY <1>6, <1>7, LenProperties
  <2> QED
    BY <1>6, <2>1
<1> QED
  BY <1>2, <1>8 DEF Out

\* Nothing is left of a line that is blanked.
LEMMA BlankLine ==
  /\ CleanseComments(CollapseStrings(RawLine(FALSE, <<"/*", "*/">>).out)) = <<>>
  /\ ~RawLine(FALSE, <<"/*", "*/">>).inside
<1> DEFINE X == {"QQ", "//", "/*", "*/"}
           line == <<"/*", "*/">>
           one == LexToken(LexStart("code"), "/*")
           two == LexToken(one, "*/")
<1>1. /\ <<>> \in Seq(X) /\ <<"/*">> \in Seq(X) /\ line \in Seq(X)
      /\ <<"/*">> = Append(<<>>, "/*") /\ line = Append(<<"/*">>, "*/")
  OBVIOUS
<1>2. "QQ" \in X /\ "//" \in X /\ "/*" \in X /\ "*/" \in X /\ "code" \in Classes
  BY DEF Classes
<1>3. Lex("code", line) = two
  <2> HIDE DEF X, line, two
  <2>1. Lex("code", <<>>) = LexStart("code")
    BY <1>1, <1>2, LexGrows
  <2>2. Lex("code", <<"/*">>) = LexToken(LexStart("code"), "/*")
    BY <1>1, <1>2, <2>1, LexGrows
  <2>3. Lex("code", line) = LexToken(Lex("code", <<"/*">>), "*/")
    BY <1>1, <1>2, LexGrows
  <2> QED
    BY <2>2, <2>3 DEF two
<1>4. one.in = "block" /\ one.read = {<<"block", "/*">>} /\ one.code = <<>>
  BY DEF LexToken, LexStart, Class, Closes
<1> HIDE DEF one
<1>5. two.in = "code" /\ two.read = {<<"block", "/*">>, <<"block", "*/">>} /\ two.code = <<>>
  BY <1>4 DEF LexToken, Class, Closes
<1> HIDE DEF two
<1>6. SimpleLine(line, "code", two)
  <2>1. "#include" \notin Range(line)
    BY DEF Range
  <2> HIDE DEF line
  <2> QED
    BY <1>5, <2>1 DEF SimpleLine
<1> HIDE DEF X, line
<1>7. /\ CleanseComments(CollapseStrings(RawLine("code" = "raw", line).out)) = <<>>
      /\ RawLine("code" = "raw", line).inside <=> (two.in = "raw")
  BY <1>1, <1>2, <1>3, <1>5, <1>6, LineKept
<1>8. ("code" = "raw") = FALSE
  OBVIOUS
<1> QED
  BY <1>5, <1>7, <1>8 DEF line

\* So the passes leave of a file what C++ says is code.
LEMMA TextKept ==
  ASSUME NEW X, {"QQ", "//", "/*", "*/"} \subseteq X, NEW text \in Seq(Seq(X)),
         NEW f, Len(f.lines) = Len(text), DOMAIN f.lines = 1 .. Len(text),
         \A n \in 1 .. Len(text) : f.lines[n].text = text[n], Simple(f)
  PROVE  Elided(RemoveMultiLineComments(text)) =
              [n \in 1 .. Len(text) |-> Lexed(f)[n].line.code]
<1> DEFINE N == Len(text)
           blank == <<"/*", "*/">>
           removed == RemoveMultiLineComments(text)
<1>1. N \in Nat /\ DOMAIN text = 1 .. N /\ \A n \in 1 .. N : text[n] \in Seq(X)
  BY LenProperties, ElementOfSeq
<1>2. PICK open : /\ Carries(open, text)
                  /\ Lexed(f) = [n \in 1 .. N |->
                       [from |-> open[n - 1], line |-> Lex(open[n - 1], text[n])]]
  BY LexedIs
<1>3. ASSUME NEW n \in 1 .. N
      PROVE  Lexed(f)[n].from = open[n - 1] /\ Lexed(f)[n].line = Lex(open[n - 1], text[n])
  BY <1>2
<1>4. ASSUME NEW n \in 1 .. N
      PROVE  /\ open[n - 1] \in {"code", "raw", "block"}
             /\ open[n] = (IF Lex(open[n - 1], text[n]).in \in {"raw", "block"}
                           THEN Lex(open[n - 1], text[n]).in ELSE "code")
             /\ SimpleLine(text[n], open[n - 1], Lex(open[n - 1], text[n]))
  <2>1. SimpleLine(f.lines[n].text, Lexed(f)[n].from, Lexed(f)[n].line)
    BY DEF Simple
  <2>2. f.lines[n].text = text[n]
    OBVIOUS
  <2>3. SimpleLine(text[n], open[n - 1], Lex(open[n - 1], text[n]))
    BY <1>3, <2>1, <2>2
  <2> QED
    BY <1>2, <2>3 DEF Carries
<1>5. open[N] # "block"
  <2>1. CASE N = 0
    BY <1>2, <2>1 DEF Carries
  <2>2. CASE N # 0
    <3>1. N \in 1 .. N
      BY <1>1, <2>2
    <3> DEFINE lexed == Lexed(f)
    <3>2. Len(lexed) = N /\ lexed # <<>>
      <4>1. DOMAIN lexed = 1 .. N
        BY <1>2
      <4>2. lexed = [n \in 1 .. N |-> lexed[n]]
        BY <1>2
      <4> HIDE DEF lexed
      <4>3. lexed \in Seq({lexed[n] : n \in 1 .. N})
        BY <1>1, <4>2
      <4>4. Len(lexed) = N
        BY <1>1, <4>1, <4>3, LenProperties
      <4> QED
        BY <2>2, <4>4, EmptySeq
    <3>3. Last(lexed).line.in # "block"
      BY <3>2 DEF Simple
    <3>4. Last(lexed) = lexed[N]
      BY <3>2, Zenon DEF Last
    <3>5. lexed[N].line = Lex(open[N - 1], text[N])
      BY <1>3, <3>1
    <3> HIDE DEF lexed
    <3>6. Lex(open[N - 1], text[N]).in # "block"
      BY <3>3, <3>4, <3>5
    <3> QED
      BY <1>4, <3>1, <3>6
  <2> QED
    BY <2>1, <2>2
<1>6. ASSUME NEW n \in 1 .. N
      PROVE  removed[n] = IF "block" \in {open[n - 1], Lex(open[n - 1], text[n]).in}
                          THEN blank ELSE text[n]
  <2>1. MultiLineComments(text).blanked =
          {k \in 1 .. N : "block" \in {open[k - 1], Lex(open[k - 1], text[k]).in}}
    <3>1. "QQ" \in X /\ Carries(open, text)
      BY <1>2
    <3>2. \A k \in 1 .. N : SimpleLine(text[k], open[k - 1], Lex(open[k - 1], text[k]))
      BY <1>4
    <3> QED
      BY <1>5, <3>1, <3>2, CommentsAre
  <2>2. removed[n] = IF n \in MultiLineComments(text).blanked THEN blank ELSE text[n]
    BY <1>1, Zenon DEF RemoveMultiLineComments
  <2> QED
    BY <2>1, <2>2
<1>7. removed \in Seq(Seq(X)) /\ Len(removed) = N
  <2>1. removed = [n \in 1 .. N |-> removed[n]]
    BY <1>1, Zenon DEF RemoveMultiLineComments
  <2>2. blank \in Seq(X)
    OBVIOUS
  <2> HIDE DEF removed, blank
  <2>3. \A n \in 1 .. N : removed[n] \in Seq(X)
    BY <1>1, <1>6, <2>2
  <2>4. removed \in Seq(Seq(X))
    BY <1>1, <2>1, <2>3
  <2>5. DOMAIN removed = 1 .. N
    BY <2>1
  <2> QED
    BY <1>1, <2>4, <2>5, LenProperties
<1> DEFINE raw(n) == RawLine(open[n - 1] = "raw", removed[n])
<1>8. ASSUME NEW n \in 1 .. N
      PROVE  /\ raw(n).inside <=> (open[n] = "raw")
             /\ CleanseComments(CollapseStrings(raw(n).out)) = Lex(open[n - 1], text[n]).code
  <2> DEFINE L == Lex(open[n - 1], text[n])
  <2>1. CASE "block" \in {open[n - 1], L.in}
    <3>1. L.code = <<>> /\ open[n - 1] # "raw" /\ L.in \in {"code", "block"}
      <4>1. "QQ" \in X /\ text[n] \in Seq(X) /\ open[n - 1] \in {"code", "raw", "block"}
        BY <1>1, <1>4
      <4>2. SimpleLine(text[n], open[n - 1], L) /\ "block" \in {open[n - 1], L.in}
        BY <1>4, <2>1
      <4> QED
        BY <4>1, <4>2, BlankedCode
    <3>2. removed[n] = blank /\ (open[n - 1] = "raw") = FALSE
      BY <1>6, <2>1, <3>1
    <3>3. raw(n) = RawLine(FALSE, blank)
      BY <3>2
    <3>4. CleanseComments(CollapseStrings(raw(n).out)) = <<>> /\ ~raw(n).inside
      BY <3>3, BlankLine
    <3>5. open[n] # "raw"
      BY <1>4, <3>1
    <3> QED
      BY <3>1, <3>4, <3>5
  <2>2. CASE "block" \notin {open[n - 1], L.in}
    <3>1. removed[n] = text[n] /\ open[n - 1] \in {"code", "raw"} /\ L.in # "block"
      BY <1>4, <1>6, <2>2
    <3>2. raw(n) = RawLine(open[n - 1] = "raw", text[n])
      BY <3>1
    <3>3. /\ CleanseComments(CollapseStrings(raw(n).out)) = L.code
          /\ raw(n).inside <=> (L.in = "raw")
      BY <1>1, <1>4, <3>1, <3>2, LineKept
    <3>4. (open[n] = "raw") <=> (L.in = "raw")
      BY <1>4, <3>1
    <3> QED
      BY <3>3, <3>4
  <2> QED
    BY <2>1, <2>2
<1>9. CleanseRawStrings(removed) = [n \in 1 .. N |-> raw(n).out]
  <2>1. open[0] # "raw"
    BY <1>2 DEF Carries
  <2>2. "QQ" \in X
    OBVIOUS
  <2>3. \A n \in 1 .. N : RawLine(open[n - 1] = "raw", removed[n]).inside <=> (open[n] = "raw")
    BY <1>8
  <2> HIDE DEF removed
  <2> QED
    BY <1>7, <2>1, <2>2, <2>3, RawStringsAre
<1> HIDE DEF removed, raw
<1>10. Elided(removed) = [n \in 1 .. N |-> CleanseComments(CollapseStrings(raw(n).out))]
  <2> DEFINE cleansed == CleanseRawStrings(removed)
  <2>1. DOMAIN cleansed = 1 .. N /\ \A n \in 1 .. N : cleansed[n] = raw(n).out
    BY <1>9
  <2>2. Elided(removed) = [n \in DOMAIN cleansed |-> CleanseComments(CollapseStrings(cleansed[n]))]
    BY Zenon DEF Elided
  <2> HIDE DEF cleansed
  <2> QED
    BY <2>1, <2>2
<1>11. Elided(removed) = [n \in 1 .. N |-> Lexed(f)[n].line.code]
  BY <1>3, <1>8, <1>10
<1> QED
  BY <1>11 DEF removed

\* On the files cpplint can be expected to understand, the checks see the code
\* and nothing but the code.
THEOREM CodeSeen == Spec => []CodeKept
<1> DEFINE texts == [n \in DOMAIN file.lines |-> file.lines[n].text]
           Cleansed == /\ file \in File
                       /\ pc # "prepare" => elided = Elided(RemoveMultiLineComments(texts))
<1>1. Init => Cleansed
  BY FilesAssumption DEF Init
<1>2. Cleansed /\ [Next]_vars => Cleansed'
  <2> SUFFICES ASSUME Cleansed, [Next]_vars PROVE Cleansed'
    OBVIOUS
  <2>1. CASE Prepare
    <3>1. file' = file /\ pc = "prepare"
      BY <2>1 DEF Prepare
    <3>2. elided' = Elided(RemoveMultiLineComments(texts))
      BY <2>1, Zenon DEF Prepare
    <3> QED
      BY <3>1, <3>2
  <2>2. CASE ProcessAsmLine
    BY <2>2 DEF ProcessAsmLine, clean_lines
  <2>3. CASE ProcessLine
    <3>1. pc = "lint" /\ UNCHANGED <<file, pc, clean_lines>>
      BY <2>3, Zenon DEF ProcessLine
    <3> QED
      BY <3>1 DEF clean_lines
  <2>4. CASE EndOfData
    BY <2>4 DEF EndOfData, clean_lines
  <2>5. CASE UNCHANGED vars
    BY <2>5 DEF vars, clean_lines
  <2> QED
    BY <2>1, <2>2, <2>3, <2>4, <2>5 DEF Next
<1>3. Cleansed => CodeKept
  <2> SUFFICES ASSUME Cleansed, pc = "lint", Simple(file), NEW n \in DOMAIN elided
               PROVE  elided[n] = Lexed(file)[n].line.code
    BY DEF CodeKept
  <2> DEFINE X == Tokens \cup {"//"}
             N == Len(file.lines)
  <2>1. N \in Nat /\ DOMAIN file.lines = 1 .. N /\ \A m \in 1 .. N : file.lines[m] \in Line
    <3>1. file.lines \in Seq(Line)
      BY DEF File
    <3> QED
      BY <3>1, LenProperties, ElementOfSeq
  <2>2. \A m \in 1 .. N : file.lines[m].text \in Seq(X)
    <3>1. \A m \in 1 .. N : file.lines[m].text \in Seq(Tokens)
      BY <2>1 DEF Line
    <3> QED
      BY <3>1, SeqMonotonic
  <2>3. texts \in Seq(Seq(X)) /\ Len(texts) = N /\ \A m \in 1 .. N : file.lines[m].text = texts[m]
    <3> HIDE DEF X
    <3>1. texts = [m \in 1 .. N |-> file.lines[m].text]
      BY <2>1
    <3>2. texts \in Seq(Seq(X))
      BY <2>1, <2>2, <3>1
    <3> QED
      BY <2>1, <3>1, <3>2, LenProperties
  <2>4. {"QQ", "//", "/*", "*/"} \subseteq X
    BY FilesAssumption
  <2>5. elided = Elided(RemoveMultiLineComments(texts))
    OBVIOUS
  <2> HIDE DEF X, N, texts
  <2>6. elided = [m \in 1 .. N |-> Lexed(file)[m].line.code]
    BY <2>1, <2>3, <2>4, <2>5, TextKept
  <2> QED
    BY <2>6
<1> QED
  BY <1>1, <1>2, <1>3, PTL DEF Spec
==============================================================================
