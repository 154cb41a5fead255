--------------------------- MODULE LintRunProofs ---------------------------
(***************************************************************************)
(* Proofs about LintRun, for every source tree and command line.           *)
(***************************************************************************)
EXTENDS LintRun, Recursion, SequenceTheorems

------------------------------------------------------------------------------
\* The filters.

\* One step per action; what moves the filters is the command line, and after
\* it the end of a file, which takes them from the backup.
LEMMA BackupStep ==
  ASSUME TypeOK, BackupKept, [Next]_vars
  PROVE  TypeOK' /\ BackupKept'
<1> USE DEF BackupKept, TypeOK, FiltersRestored
<1>1. CASE ParseArguments
  BY <1>1 DEF ParseArguments, Raise, AddFilters, Given, args
<1>2. CASE ProcessFile
  BY <1>2 DEF ProcessFile, BackupFilters, Given, args
<1>3. CASE SkipConfig
  BY <1>3 DEF SkipConfig, Given, args
<1>4. CASE ReadConfig
  BY <1>4 DEF ReadConfig, RestoreFilters, NextFile, Given, args
<1>5. CASE ApplyFilters
  BY <1>5 DEF ApplyFilters, Raise, Given, args
<1>6. CASE OpenFile
  BY <1>6 DEF OpenFile, RestoreFilters, NextFile, Given, args
<1>7. CASE ProcessLine
  BY <1>7 DEF ProcessLine, Given, args
<1>8. CASE EndOfFile
  BY <1>8 DEF EndOfFile, RestoreFilters, NextFile, Given, args
<1>9. CASE Exit
  BY <1>9 DEF Exit, Given, args
<1>10. CASE UNCHANGED vars
  BY <1>10 DEF vars, Given, args
<1> QED
  BY <1>1, <1>2, <1>3, <1>4, <1>5, <1>6, <1>7, <1>8, <1>9, <1>10 DEF Next

\* No step changes the source tree and the command line.
LEMMA WorldStays ==
  ASSUME world \in Worlds, [Next]_vars
  PROVE  world' = world
BY DEF Next, ParseArguments, ProcessFile, SkipConfig, ReadConfig, ApplyFilters, OpenFile,
       ProcessLine, EndOfFile, Exit, vars

------------------------------------------------------------------------------
\* Sequences.

\* The elements that are kept are elements.
LEMMA KeptType ==
  ASSUME NEW X, NEW s \in Seq(X), NEW K
  PROVE  Kept(s, K) \in Seq(X)
<1> DEFINE n == Len(s)
           step == [i \in 1 .. n |-> [v \in Seq(X) |-> IF i \in K THEN Append(v, s[i]) ELSE v]]
           kept[i \in 0 .. n] == IF i = 0 THEN <<>>
                                 ELSE IF i \in K THEN Append(kept[i - 1], s[i])
                                 ELSE kept[i - 1]
<1>1. n \in Nat /\ \A i \in 1 .. n : s[i] \in X
  BY LenProperties, ElementOfSeq
<1>2. ASSUME NEW i \in 1 .. n, NEW v \in Seq(X) PROVE step[i][v] \in Seq(X)
  BY <1>1, AppendProperties
<1>3. <<>> \in Seq(X)
  BY EmptySeq
<1>4. PICK g : Recurs(g, step, <<>>, n, Seq(X))
  <2> HIDE DEF step, n
  <2> QED
    BY <1>1, <1>2, <1>3, FiniteRecursion DEF Recurrence
<1> HIDE DEF n
<1>5. g = [i \in 0 .. n |-> IF i = 0 THEN <<>>
                            ELSE IF i \in K THEN Append(g[i - 1], s[i])
                            ELSE g[i - 1]]
  <2>1. g = [i \in 0 .. n |-> g[i]]
    BY <1>4 DEF Recurs
  <2>2. ASSUME NEW i \in 0 .. n
        PROVE  g[i] = IF i = 0 THEN <<>> ELSE IF i \in K THEN Append(g[i - 1], s[i])
                      ELSE g[i - 1]
    <3>1. CASE i = 0
      BY <1>4, <3>1 DEF Recurs
    <3>2. CASE i # 0
      <4>1. i \in 1 .. n /\ i - 1 \in 0 .. n
        BY <1>1, <3>2
      <4> QED
        BY <1>4, <3>2, <4>1 DEF Recurs
    <3> QED
      BY <3>1, <3>2
  <2> QED
    BY <2>1, <2>2, Zenon
<1>6. kept = [i \in 0 .. n |-> IF i = 0 THEN <<>>
                               ELSE IF i \in K THEN Append(kept[i - 1], s[i])
                               ELSE kept[i - 1]]
  BY <1>5, Zenon
<1>7. Kept(s, K) = kept[n]
  BY Zenon DEF Kept, n
<1> HIDE DEF kept
<1>8. kept[0] \in Seq(X)
  <2>1. 0 \in 0 .. n
    BY <1>1
  <2> QED
    BY <1>3, <1>6, <2>1
<1>9. ASSUME NEW i \in 1 .. n, kept[i - 1] \in Seq(X) PROVE kept[i] \in Seq(X)
  <2>1. i \in 0 .. n /\ i # 0
    BY <1>1
  <2>2. kept[i] = IF i \in K THEN Append(kept[i - 1], s[i]) ELSE kept[i - 1]
    BY <1>6, <2>1
  <2>3. Append(kept[i - 1], s[i]) \in Seq(X)
    BY <1>1, <1>9, AppendProperties
  <2> QED
    BY <1>9, <2>2, <2>3
<1>10. n \in 0 .. n
  BY <1>1
<1> QED
  BY <1>1, <1>7, <1>8, <1>9, <1>10, RecursionStays

LEMMA AppendRange ==
  ASSUME NEW E, NEW s \in Seq(E), NEW r \in E
  PROVE  Range(Append(s, r)) = Range(s) \cup {r}
<1> DEFINE t == Append(s, r)
<1>1. Len(s) \in Nat /\ DOMAIN s = 1 .. Len(s) /\ DOMAIN t = 1 .. Len(s) + 1
  BY AppendProperties, LenProperties
<1>2. t[Len(s) + 1] = r /\ \A k \in 1 .. Len(s) : t[k] = s[k]
  BY AppendProperties
<1>3. \A k \in 1 .. Len(s) + 1 : k \in 1 .. Len(s) \/ k = Len(s) + 1
  BY <1>1
<1>4. Len(s) + 1 \in 1 .. Len(s) + 1 /\ 1 .. Len(s) \subseteq 1 .. Len(s) + 1
  BY <1>1
<1> HIDE DEF t
<1>5. Range(t) = Range(s) \cup {r}
  BY <1>1, <1>2, <1>3, <1>4 DEF Range
<1> QED
  BY <1>5 DEF t

LEMMA ConcatRange ==
  ASSUME NEW E, NEW s \in Seq(E), NEW t \in Seq(E)
  PROVE  Range(s \o t) = Range(s) \cup Range(t)
<1> DEFINE m == Len(s)
           n == Len(t)
           u == s \o t
<1>1. /\ m \in Nat /\ DOMAIN s = 1 .. m
      /\ n \in Nat /\ DOMAIN t = 1 .. n
  BY LenProperties
<1>2. /\ DOMAIN u = 1 .. m + n
      /\ \A i \in 1 .. m + n : u[i] = IF i <= m THEN s[i] ELSE t[i - m]
  BY ConcatProperties, LenProperties
<1> HIDE DEF m, n, u
<1>3. \A i \in 1 .. m : i \in 1 .. m + n /\ u[i] = s[i]
  BY <1>1, <1>2
<1>4. \A i \in 1 .. n : i + m \in 1 .. m + n /\ u[i + m] = t[i]
  BY <1>1, <1>2
<1>5. ASSUME NEW i \in 1 .. m + n
      PROVE  \/ i \in 1 .. m /\ u[i] = s[i]
             \/ i - m \in 1 .. n /\ u[i] = t[i - m]
  BY <1>1, <1>2
<1>6. Range(u) = {u[i] : i \in 1 .. m + n} /\ Range(s) = {s[i] : i \in 1 .. m}
        /\ Range(t) = {t[i] : i \in 1 .. n}
  BY <1>1, <1>2 DEF Range
<1> QED
  BY <1>3, <1>4, <1>5, <1>6 DEF u

------------------------------------------------------------------------------
\* The counts.

LEMMA BumpCounts ==
  ASSUME NEW E, NEW s \in Seq(E), NEW r \in E
  PROVE  Bump(CountsOf(s), Counted(r.category)) = CountsOf(Append(s, r))
<1> DEFINE n == Len(s)
           t == Append(s, r)
           new == Counted(r.category)
           Where(u, key) == {k \in DOMAIN u : Counted(u[k].category) = key}
           Keys(u) == {Counted(u[k].category) : k \in DOMAIN u}
<1>1. n \in Nat /\ DOMAIN s = 1 .. n /\ DOMAIN t = 1 .. n + 1
  BY AppendProperties, LenProperties
<1>2. t[n + 1] = r /\ \A k \in 1 .. n : t[k] = s[k]
  BY AppendProperties
<1>3. \A k \in 1 .. n + 1 : k \in 1 .. n \/ k = n + 1
  BY <1>1
<1>4. n + 1 \in 1 .. n + 1 /\ n + 1 \notin 1 .. n /\ 1 .. n \subseteq 1 .. n + 1
  BY <1>1
<1> HIDE DEF t, n, new
<1>5. Keys(t) = Keys(s) \cup {new}
  BY <1>1, <1>2, <1>3, <1>4 DEF new
<1>6. ASSUME NEW key
      PROVE  Where(t, key) = Where(s, key) \cup IF key = new THEN {n + 1} ELSE {}
  BY <1>1, <1>2, <1>3, <1>4 DEF new
<1>7. ASSUME NEW key PROVE IsFiniteSet(Where(s, key)) /\ n + 1 \notin Where(s, key)
  <2>1. IsFiniteSet(1 .. n)
    BY <1>1, FS_Interval
  <2>2. Where(s, key) \in SUBSET (1 .. n)
    BY <1>1
  <2> HIDE DEF Where
  <2> QED
    BY <1>4, <2>1, <2>2, FS_Subset
<1>8. ASSUME NEW key
      PROVE  /\ Cardinality(Where(s, key)) \in Nat
             /\ Cardinality(Where(t, key)) = Cardinality(Where(s, key)) + IF key = new THEN 1 ELSE 0
  <2> HIDE DEF Where
  <2>1. Cardinality(Where(s, key)) \in Nat
    BY <1>7, FS_CardinalityType
  <2>2. CASE key = new
    <3>1. Where(t, key) = Where(s, key) \cup {n + 1}
      BY <1>6, <2>2
    <3>2. Cardinality(Where(s, key) \cup {n + 1}) = Cardinality(Where(s, key)) + 1
      BY <1>7, FS_AddElement
    <3> QED
      BY <2>1, <2>2, <3>1, <3>2
  <2>3. CASE key # new
    <3>1. Where(t, key) = Where(s, key)
      BY <1>6, <2>3
    <3> QED
      BY <2>1, <2>3, <3>1
  <2> QED
    BY <2>2, <2>3, <2>1
<1>9. ASSUME NEW key, key \notin Keys(s) PROVE Cardinality(Where(s, key)) = 0
  <2>1. Where(s, key) = {}
    BY <1>9
  <2> HIDE DEF Where
  <2> QED
    BY <2>1, FS_EmptySet
<1>10. CountsOf(s) = [key \in Keys(s) |-> Cardinality(Where(s, key))]
  BY DEF CountsOf
<1>11. CountsOf(t) = [key \in Keys(s) \cup {new} |-> Cardinality(Where(t, key))]
  BY <1>5 DEF CountsOf
<1> HIDE DEF Where, Keys
<1>12. ASSUME NEW key \in Keys(s) \cup {new}
       PROVE  (IF key \in Keys(s) THEN CountsOf(s)[key] ELSE 0) + (IF key = new THEN 1 ELSE 0)
                = Cardinality(Where(t, key))
  BY <1>8, <1>9, <1>10
<1>13. DOMAIN CountsOf(s) = Keys(s)
  BY <1>10
<1>14. Bump(CountsOf(s), new) = [key \in Keys(s) \cup {new} |-> Cardinality(Where(t, key))]
  BY <1>12, <1>13, Zenon DEF Bump
<1> QED
  BY <1>11, <1>14 DEF t, new

\* The reports of a step that are printed.
Passing(supp, reports) ==
  {reports[k] : k \in {l \in DOMAIN reports : ShouldPrintError(supp, reports[l])}}

\* What the reports of one step come to: those that should be printed are, in
\* their order, and counted as they are.
LEMMA ErrorsCount ==
  ASSUME NEW E, NEW supp, NEW reports \in Seq(E), shown \in Seq(E),
         error_count = Len(shown), Tallied => errors_by_category = CountsOf(shown)
  PROVE  /\ Errors(supp, reports).shown \in Seq(E)
         /\ Errors(supp, reports).count = Len(Errors(supp, reports).shown)
         /\ Tallied => Errors(supp, reports).by = CountsOf(Errors(supp, reports).shown)
         /\ Range(Errors(supp, reports).shown) = Range(shown) \cup Passing(supp, reports)
<1> DEFINE St(s) == [shown |-> s, count |-> Len(s),
                     by |-> IF Tallied THEN CountsOf(s) ELSE errors_by_category]
           A == {St(s) : s \in Seq(E)}
           n == Len(reports)
           After(v, r) == [shown |-> Append(v.shown, r), count |-> v.count + 1,
                           by |-> IncrementErrorCount(v.by, r.category)]
           step == [i \in 1 .. n |-> [v \in A |->
                      IF ShouldPrintError(supp, reports[i]) THEN After(v, reports[i]) ELSE v]]
           start == [shown |-> shown, count |-> error_count, by |-> errors_by_category]
           st[i \in 0 .. n] ==
             IF i = 0 THEN [shown |-> shown, count |-> error_count, by |-> errors_by_category]
             ELSE IF ShouldPrintError(supp, reports[i])
             THEN [shown |-> Append(st[i - 1].shown, reports[i]), count |-> st[i - 1].count + 1,
                   by |-> IncrementErrorCount(st[i - 1].by, reports[i].category)]
             ELSE st[i - 1]
<1>1. n \in Nat /\ DOMAIN reports = 1 .. n /\ \A i \in 1 .. n : reports[i] \in E
  BY LenProperties
<1>2. start \in A
  <2>1. start = St(shown)
    BY Zenon
  <2> QED
    BY <2>1
<1>3. ASSUME NEW s \in Seq(E), NEW r \in E
      PROVE  After(St(s), r) = St(Append(s, r)) /\ Append(s, r) \in Seq(E)
  <2>1. Append(s, r) \in Seq(E) /\ Len(Append(s, r)) = Len(s) + 1
    BY AppendProperties
  <2>2. Tallied => IncrementErrorCount(CountsOf(s), r.category) = CountsOf(Append(s, r))
    BY BumpCounts DEF IncrementErrorCount, Tallied
  <2>3. ~Tallied => IncrementErrorCount(errors_by_category, r.category) = errors_by_category
    BY DEF IncrementErrorCount, Tallied
  <2> QED
    BY <2>1, <2>2, <2>3, Zenon
<1>4. ASSUME NEW i \in 1 .. n, NEW v \in A PROVE step[i][v] \in A
  <2>1. PICK s \in Seq(E) : v = St(s)
    OBVIOUS
  <2>2. After(v, reports[i]) \in A
    <3>1. After(v, reports[i]) = St(Append(s, reports[i])) /\ Append(s, reports[i]) \in Seq(E)
      BY <1>1, <1>3, <2>1, Zenon
    <3> HIDE DEF After, St
    <3> QED
      BY <3>1
  <2>3. step[i][v] = IF ShouldPrintError(supp, reports[i]) THEN After(v, reports[i]) ELSE v
    <3> HIDE DEF After, A
    <3> QED
      OBVIOUS
  <2> HIDE DEF step, A, After
  <2> QED
    BY <2>2, <2>3
<1>5. PICK g : Recurs(g, step, start, n, A)
  <2> HIDE DEF step, A, start, n
  <2> QED
    BY <1>1, <1>2, <1>4, FiniteRecursion DEF Recurrence
<1>6. g = [i \in 0 .. n |->
             IF i = 0 THEN [shown |-> shown, count |-> error_count, by |-> errors_by_category]
             ELSE IF ShouldPrintError(supp, reports[i])
             THEN [shown |-> Append(g[i - 1].shown, reports[i]), count |-> g[i - 1].count + 1,
                   by |-> IncrementErrorCount(g[i - 1].by, reports[i].category)]
             ELSE g[i - 1]]
  <2>1. g = [i \in 0 .. n |-> g[i]]
    BY <1>5 DEF Recurs
  <2>2. ASSUME NEW i \in 0 .. n
        PROVE  g[i] = IF i = 0 THEN start
                      ELSE IF ShouldPrintError(supp, reports[i]) THEN After(g[i - 1], reports[i])
                      ELSE g[i - 1]
    <3>1. CASE i = 0
      BY <1>5, <3>1 DEF Recurs
    <3>2. CASE i # 0
      <4>1. i \in 1 .. n /\ i - 1 \in 0 .. n
        BY <1>1, <3>2
      <4>2. g[i] = step[i][g[i - 1]] /\ g[i - 1] \in A
        <5> HIDE DEF step, A, start
        <5> QED
          BY <1>5, <4>1 DEF Recurs
      <4>3. step[i][g[i - 1]] = IF ShouldPrintError(supp, reports[i])
                                THEN After(g[i - 1], reports[i]) ELSE g[i - 1]
        <5> HIDE DEF A, After
        <5> QED
          BY <4>1, <4>2
      <4> HIDE DEF step, After, start
      <4> QED
        BY <3>2, <4>2, <4>3
    <3> QED
      BY <3>1, <3>2
  <2> QED
    BY <2>1, <2>2, Zenon
<1>7. st = [i \in 0 .. n |->
              IF i = 0 THEN start
              ELSE IF ShouldPrintError(supp, reports[i]) THEN After(st[i - 1], reports[i])
              ELSE st[i - 1]]
  BY <1>6, Zenon
<1>8. Errors(supp, reports) = st[n]
  BY Zenon DEF Errors
<1> HIDE DEF st
<1>9. st[0] = start /\ \A i \in 1 .. n :
        st[i] = IF ShouldPrintError(supp, reports[i]) THEN After(st[i - 1], reports[i]) ELSE st[i - 1]
  <2>1. 0 \in 0 .. n /\ \A i \in 1 .. n : i \in 0 .. n /\ i # 0
    BY <1>1
  <2> HIDE DEF start, After, n
  <2> QED
    BY <1>7, <2>1
<1> HIDE DEF start, After, n
<1> DEFINE Ran(i) == {reports[k] : k \in {l \in 1 .. i : ShouldPrintError(supp, reports[l])}}
           Fine(i) == st[i] \in A /\ Range(st[i].shown) = Range(shown) \cup Ran(i)
           T == {i \in Nat : i <= n => Fine(i)}
<1>10. ASSUME NEW v \in A
       PROVE  /\ v.shown \in Seq(E) /\ v.count = Len(v.shown)
              /\ Tallied => v.by = CountsOf(v.shown)
  OBVIOUS
<1>11. 0 \in T
  <2>1. Ran(0) = {}
    OBVIOUS
  <2>2. st[0] = start /\ start.shown = shown
    BY <1>9 DEF start
  <2>3. Fine(0)
    <3> HIDE DEF A, Ran
    <3> QED
      BY <1>2, <2>1, <2>2
  <2> HIDE DEF Fine
  <2> QED
    BY <2>3
<1>12. ASSUME NEW i \in Nat, i \in T PROVE i + 1 \in T
  <2> SUFFICES ASSUME i + 1 <= n PROVE Fine(i + 1)
    <3> HIDE DEF Fine
    <3> QED
      OBVIOUS
  <2>1. i <= n /\ i + 1 \in 1 .. n /\ (i + 1) - 1 = i
    BY <1>1
  <2>2. Fine(i)
    BY <1>12, <2>1
  <2>3. CASE ShouldPrintError(supp, reports[i + 1])
    <3>1. st[i + 1] = After(st[i], reports[i + 1])
      BY <1>9, <2>1, <2>3
    <3>2. PICK s \in Seq(E) : st[i] = St(s)
      BY <2>2
    <3>3. st[i + 1] = St(Append(s, reports[i + 1])) /\ Append(s, reports[i + 1]) \in Seq(E)
      <4> HIDE DEF St
      <4> QED
        BY <1>1, <1>3, <2>1, <3>1, <3>2, Zenon
    <3>4. Range(Append(s, reports[i + 1])) = Range(s) \cup {reports[i + 1]}
      BY <1>1, <2>1, AppendRange
    <3>5. Ran(i + 1) = Ran(i) \cup {reports[i + 1]}
      <4>1. \A k \in 1 .. i + 1 : k \in 1 .. i \/ k = i + 1
        OBVIOUS
      <4>2. 1 .. i \subseteq 1 .. i + 1 /\ i + 1 \in 1 .. i + 1
        OBVIOUS
      <4> QED
        BY <2>3, <4>1, <4>2
    <3>6. st[i].shown = s /\ st[i + 1].shown = Append(s, reports[i + 1])
      BY <3>2, <3>3
    <3>7. st[i + 1] \in A
      BY <3>3
    <3> HIDE DEF Ran, A
    <3> QED
      BY <2>2, <3>4, <3>5, <3>6, <3>7
  <2>4. CASE ~ShouldPrintError(supp, reports[i + 1])
    <3>1. st[i + 1] = st[i]
      BY <1>9, <2>1, <2>4
    <3>2. Ran(i + 1) = Ran(i)
      <4>1. \A k \in 1 .. i + 1 : k \in 1 .. i \/ k = i + 1
        OBVIOUS
      <4>2. 1 .. i \subseteq 1 .. i + 1
        OBVIOUS
      <4> QED
        BY <2>4, <4>1, <4>2
    <3> HIDE DEF Ran, A
    <3> QED
      BY <2>2, <3>1, <3>2
  <2> QED
    BY <2>3, <2>4
<1>13. Fine(n)
  <2>1. Nat \subseteq T
    <3> HIDE DEF T
    <3> QED
      BY <1>11, <1>12, SetInduction
  <2> HIDE DEF Fine
  <2> QED
    BY <1>1, <2>1
<1>14. Ran(n) = Passing(supp, reports)
  BY <1>1 DEF Passing
<1> HIDE DEF A, Ran
<1> QED
  BY <1>8, <1>10, <1>13, <1>14
------------------------------------------------------------------------------
\* What the steps report.

LEMMA WorldFacts ==
  ASSUME world \in Worlds
  PROVE  /\ IsFiniteSet(DOMAIN world.files)
         /\ \A f \in DOMAIN world.files : /\ world.files[f].dir \in Seq(STRING)
                                          /\ world.files[f].lines \in Seq(LineType)
         /\ args.filenames \in Seq(DOMAIN world.files) /\ args.filters \in Filters
BY WorldsAssumption DEF WorldsAssumption, args

LEMMA FileAtWork ==
  ASSUME world \in Worlds, AtWork, pc \in {"config", "open", "lint"}
  PROVE  /\ filename \in DOMAIN world.files
         /\ file.dir \in Seq(STRING) /\ Len(file.dir) \in Nat
         /\ file.lines \in Seq(LineType) /\ Len(file.lines) \in Nat
         /\ DOMAIN file.lines = 1 .. Len(file.lines)
         /\ Tail(filenames) \in Seq(DOMAIN world.files)
<1>1. filenames \in Seq(DOMAIN world.files) /\ filenames # <<>>
  BY DEF AtWork
<1>2. filename \in DOMAIN world.files /\ Tail(filenames) \in Seq(DOMAIN world.files)
  BY <1>1, HeadTailProperties DEF filename
<1>3. file.dir \in Seq(STRING) /\ file.lines \in Seq(LineType)
  BY <1>2, WorldFacts DEF file
<1> QED
  BY <1>2, <1>3, LenProperties

\* The reports of a line, as Error gets them.
ReportsOf(name, n) ==
  LET line == world.files[name].lines[n] IN
  If(Unknown(line.comments), NolintError) \o line.reports
    \o If(line.width > line_length, LengthError)
ErrorsOf(name, n) == [k \in DOMAIN ReportsOf(name, n) |-> At(name, ReportsOf(name, n)[k], n)]

ReportType == [category : Categories, confidence : 1 .. 5]

LEMMA NamedErrors ==
  /\ NolintError \in ReportType /\ LengthError \in ReportType /\ NewlineError \in ReportType
  /\ NolintError.category # LengthError.category
  /\ NewlineError.category # LengthError.category
BY DEF NolintError, LengthError, NewlineError, ReportType, Categories

LEMMA ReportsTyped ==
  ASSUME NEW n, NEW name, world.files[name].lines[n] \in LineType
  PROVE  /\ ReportsOf(name, n) \in Seq(ReportType)
         /\ Range(ReportsOf(name, n)) =
              Range(world.files[name].lines[n].reports)
                \cup (IF Unknown(world.files[name].lines[n].comments) THEN {NolintError} ELSE {})
                \cup (IF world.files[name].lines[n].width > line_length THEN {LengthError} ELSE {})
         /\ \A r \in Range(world.files[name].lines[n].reports) :
              r \in ReportType /\ r.category # LengthError.category
<1> DEFINE line == world.files[name].lines[n]
           T == [category : Categories \ {<<"whitespace", "line_length">>}, confidence : 1 .. 5]
           one == If(Unknown(line.comments), NolintError)
           two == If(line.width > line_length, LengthError)
<1>1. line.reports \in Seq(T)
  BY DEF LineType, Reports
<1>2. \A r \in T : r \in ReportType /\ r.category # LengthError.category
  BY DEF ReportType, LengthError
<1> HIDE DEF T
<1>3. line.reports \in Seq(ReportType)
  BY <1>1, <1>2, SeqMonotonic
<1>4. ASSUME NEW c \in BOOLEAN, NEW r \in ReportType
      PROVE  If(c, r) \in Seq(ReportType) /\ Range(If(c, r)) = IF c THEN {r} ELSE {}
  BY DEF If, Range
<1>5. /\ one \in Seq(ReportType)
      /\ Range(one) = IF Unknown(line.comments) THEN {NolintError} ELSE {}
  BY <1>4, NamedErrors DEF Unknown
<1>6. /\ two \in Seq(ReportType)
      /\ Range(two) = IF line.width > line_length THEN {LengthError} ELSE {}
  <2>1. CASE line.width > line_length
    BY <2>1, NamedErrors DEF If, Range
  <2>2. CASE ~(line.width > line_length)
    BY <2>2 DEF If, Range
  <2> QED
    BY <2>1, <2>2
<1>7. ReportsOf(name, n) = one \o line.reports \o two
  BY DEF ReportsOf
<1>8. \A r \in Range(line.reports) : r \in T
  BY <1>1, ElementOfSeq, LenProperties DEF Range
<1> HIDE DEF line, one, two
<1>9. /\ one \o line.reports \in Seq(ReportType)
      /\ Range(one \o line.reports) = Range(one) \cup Range(line.reports)
  BY <1>3, <1>5, ConcatProperties, ConcatRange
<1>10. /\ ReportsOf(name, n) \in Seq(ReportType)
       /\ Range(ReportsOf(name, n)) = Range(one \o line.reports) \cup Range(two)
  <2>1. (one \o line.reports) \o two \in Seq(ReportType)
    BY <1>6, <1>9, ConcatProperties
  <2>2. Range((one \o line.reports) \o two) = Range(one \o line.reports) \cup Range(two)
    <3> DEFINE both == one \o line.reports
    <3>1. both \in Seq(ReportType) /\ two \in Seq(ReportType)
      BY <1>6, <1>9
    <3> HIDE DEF both
    <3>2. Range(both \o two) = Range(both) \cup Range(two)
      BY <3>1, ConcatRange
    <3> QED
      BY <3>2 DEF both
  <2> QED
    BY <1>7, <2>1, <2>2
<1>11. Range(ReportsOf(name, n)) = Range(line.reports) \cup Range(one) \cup Range(two)
  BY <1>9, <1>10
<1> QED
  BY <1>2, <1>5, <1>6, <1>8, <1>10, <1>11 DEF line
LEMMA ErrorsTyped ==
  ASSUME NEW name \in DOMAIN world.files, NEW n \in Nat, world.files[name].lines[n] \in LineType
  PROVE  /\ ErrorsOf(name, n) \in Seq(ErrorType)
         /\ Range(ErrorsOf(name, n)) = {At(name, r, n) : r \in Range(ReportsOf(name, n))}
<1> DEFINE rs == ReportsOf(name, n)
           es == ErrorsOf(name, n)
<1>1. Len(rs) \in Nat /\ DOMAIN rs = 1 .. Len(rs) /\ \A k \in 1 .. Len(rs) : rs[k] \in ReportType
  BY ReportsTyped, LenProperties, ElementOfSeq
<1>2. es = [k \in 1 .. Len(rs) |-> At(name, rs[k], n)]
  BY <1>1 DEF ErrorsOf
<1> HIDE DEF rs, es
<1>3. \A k \in 1 .. Len(rs) : At(name, rs[k], n) \in ErrorType
  BY <1>1 DEF At, ErrorType, ReportType
<1>4. es \in Seq(ErrorType)
  BY <1>1, <1>2, <1>3
<1>5. Range(es) = {At(name, r, n) : r \in Range(rs)}
  BY <1>1, <1>2 DEF Range
<1> QED
  BY <1>4, <1>5 DEF rs, es

\* And those of the end of a file.
MixedErrors(name) ==
  [k \in DOMAIN Mixed(world.files[name]) |->
     At(name, NewlineError, Mixed(world.files[name])[k])]

LEMMA MixedTyped ==
  ASSUME NEW name \in DOMAIN world.files, world \in Worlds
  PROVE  /\ MixedErrors(name) \in Seq(ErrorType)
         /\ Range(MixedErrors(name)) =
              {At(name, NewlineError, n) : n \in Range(Mixed(world.files[name]))}
         /\ \A n \in Range(Mixed(world.files[name])) : n \in Nat
<1> DEFINE f == world.files[name]
           ms == Mixed(f)
           es == MixedErrors(name)
           ns == [k \in DOMAIN f.lines |-> k]
<1>1. f.lines \in Seq(LineType) /\ Len(f.lines) \in Nat /\ DOMAIN f.lines = 1 .. Len(f.lines)
  BY WorldFacts, LenProperties
<1>2. ns \in Seq(Nat)
  BY <1>1
<1>3. ms \in Seq(Nat)
  <2> HIDE DEF ns
  <2>1. Kept(ns, f.crlf) \in Seq(Nat)
    BY <1>2, KeptType
  <2>2. CASE f.crlf = DOMAIN f.lines
    BY <2>2 DEF Mixed
  <2>3. CASE f.crlf # DOMAIN f.lines
    BY <2>1, <2>3 DEF Mixed, ns
  <2> QED
    BY <2>2, <2>3
<1>4. Len(ms) \in Nat /\ DOMAIN ms = 1 .. Len(ms) /\ \A k \in 1 .. Len(ms) : ms[k] \in Nat
  <2> HIDE DEF ms
  <2> QED
    BY <1>3, LenProperties, ElementOfSeq
<1>5. es = [k \in 1 .. Len(ms) |-> At(name, NewlineError, ms[k])]
  BY <1>4 DEF MixedErrors
<1> HIDE DEF es, ms
<1>6. \A k \in 1 .. Len(ms) : At(name, NewlineError, ms[k]) \in ErrorType
  BY <1>4, NamedErrors DEF At, ErrorType, ReportType
<1>7. es \in Seq(ErrorType)
  BY <1>4, <1>5, <1>6
<1>8. Range(es) = {At(name, NewlineError, n) : n \in Range(ms)}
  BY <1>4, <1>5 DEF Range
<1>9. \A n \in Range(ms) : n \in Nat
  BY <1>4 DEF Range
<1> QED
  BY <1>7, <1>8, <1>9 DEF es, ms

\* ProcessLine and EndOfFile in terms of these.
Supp(name, n) ==
  UNION {UNION {ParseNolintSuppressions(c, m) : c \in world.files[name].lines[m].comments} :
           m \in 1 .. n}

LEMMA LineIsReported ==
  ASSUME ProcessLine
  PROVE  /\ suppressions' = suppressions \cup
              UNION {ParseNolintSuppressions(c, linenum) : c \in file.lines[linenum].comments}
         /\ shown' = Errors(suppressions', ErrorsOf(filename, linenum)).shown
         /\ error_count' = Errors(suppressions', ErrorsOf(filename, linenum)).count
         /\ errors_by_category' = Errors(suppressions', ErrorsOf(filename, linenum)).by
BY DEF ProcessLine, Error, ErrorsOf, ReportsOf, file

LEMMA EndIsReported ==
  ASSUME EndOfFile
  PROVE  /\ shown' = Errors(suppressions, MixedErrors(filename)).shown
         /\ error_count' = Errors(suppressions, MixedErrors(filename)).count
         /\ errors_by_category' = Errors(suppressions, MixedErrors(filename)).by
BY DEF EndOfFile, Error, MixedErrors, file
------------------------------------------------------------------------------
\* The names and the counts.

\* What the command line lists are files of the world, with --recursive or not.
LEMMA ListedTyped ==
  ASSUME world \in Worlds, NEW names \in Listed
  PROVE  FilterExcludedFiles(names) \in Seq(DOMAIN world.files)
<1>1. names \in Seq(DOMAIN world.files)
  <2>1. CASE args.recursive
    <3> DEFINE S == {f \in DOMAIN world.files : world.files[f].ext \in GetAllExtensions}
    <3>1. IsFiniteSet(S)
      BY WorldFacts, FS_Subset
    <3>2. Cardinality(S) \in Nat
      BY <3>1, FS_CardinalityType
    <3>3. S \subseteq DOMAIN world.files
      OBVIOUS
    <3>4. names \in [1 .. Cardinality(S) -> S]
      BY <2>1 DEF Listed, SetToSeqs
    <3> HIDE DEF S
    <3>5. names \in Seq(S)
      BY <3>2, <3>4
    <3> QED
      BY <3>3, <3>5, SeqMonotonic
  <2>2. CASE ~args.recursive
    BY <2>2, WorldFacts DEF Listed
  <2> QED
    BY <2>1, <2>2
<1> QED
  BY <1>1, KeptType DEF FilterExcludedFiles

LEMMA AtWorkStep ==
  ASSUME world \in Worlds, TypeOK, AtWork, CountsKept, [Next]_vars
  PROVE  AtWork'
<1>1. CASE ParseArguments
  <2>1. filenames' \in Seq(DOMAIN world.files)
    BY <1>1, ListedTyped DEF ParseArguments
  <2>2. pc' \in {"next", "raised"} /\ verbose_level' = args.verbose
    BY <1>1 DEF ParseArguments, Raise
  <2>3. UNCHANGED <<world, shown, linted, linenum>>
    BY <1>1 DEF ParseArguments, counts
  <2> QED
    BY <2>1, <2>2, <2>3 DEF AtWork, ErrorType, args
<1>2. CASE ProcessFile
  <2>1. /\ pc' = "config" /\ filenames # <<>> /\ pc = "next"
        /\ UNCHANGED <<world, filenames, linted, shown, verbose_level>>
    BY <1>2 DEF ProcessFile, counts, settings
  <2> QED
    BY <2>1 DEF AtWork, ErrorType, args
<1>3. CASE SkipConfig
  <2>1. /\ pc = "config"
        /\ UNCHANGED <<world, filenames, linted, shown, verbose_level, pc>>
    BY <1>3 DEF SkipConfig, counts, settings
  <2> QED
    BY <2>1 DEF AtWork, ErrorType, args
<1>4. CASE ReadConfig
  <2>1. /\ pc = "config"
        /\ UNCHANGED <<world, linted, shown, verbose_level>>
        /\ \/ UNCHANGED <<filenames, pc>>
           \/ pc' = "next" /\ filenames' = Tail(filenames)
    BY <1>4 DEF ReadConfig, NextFile, counts, settings
  <2>2. Tail(filenames) \in Seq(DOMAIN world.files)
    BY <2>1, FileAtWork
  <2> QED
    BY <2>1, <2>2 DEF AtWork, ErrorType, args
<1>5. CASE ApplyFilters
  <2>1. /\ pc = "config" /\ pc' \in {"open", "raised"}
        /\ UNCHANGED <<world, filenames, linted, shown, verbose_level>>
    BY <1>5 DEF ApplyFilters, Raise, counts, settings
  <2> QED
    BY <2>1 DEF AtWork, ErrorType, args
<1>6. CASE OpenFile
  <2>1. /\ pc = "open"
        /\ UNCHANGED <<world, linted, shown, verbose_level>>
        /\ \/ pc' = "lint" /\ linenum' = 1 /\ UNCHANGED filenames
           \/ pc' = "next" /\ filenames' = Tail(filenames)
    BY <1>6 DEF OpenFile, NextFile, counts, settings
  <2>2. Tail(filenames) \in Seq(DOMAIN world.files) /\ Len(file.lines) \in Nat
    BY <2>1, FileAtWork
  <2>3. linenum' = 1 => linenum' \in 1 .. Len(file.lines) + 1
    BY <2>2
  <2>4. UNCHANGED filenames => file' = file
    BY <2>1 DEF file, filename
  <2>5. CASE pc' = "lint" /\ linenum' = 1 /\ UNCHANGED filenames
    BY <2>1, <2>3, <2>4, <2>5 DEF AtWork, ErrorType, args
  <2>6. CASE pc' = "next" /\ filenames' = Tail(filenames)
    BY <2>1, <2>2, <2>6 DEF AtWork, ErrorType, args
  <2> QED
    BY <2>1, <2>5, <2>6
<1>7. CASE ProcessLine
  <2>1. /\ pc = "lint" /\ linenum <= Len(file.lines) /\ linenum' = linenum + 1
        /\ UNCHANGED <<world, pc, filenames, linted, verbose_level>>
    BY <1>7 DEF ProcessLine, settings
  <2>2. /\ filename \in DOMAIN world.files /\ linenum \in 1 .. Len(file.lines)
        /\ file.lines[linenum] \in LineType /\ Len(file.lines) \in Nat
    BY <2>1, FileAtWork, ElementOfSeq DEF AtWork
  <2>3. ErrorsOf(filename, linenum) \in Seq(ErrorType)
    BY <2>2, ErrorsTyped DEF file
  <2>4. shown' \in Seq(ErrorType)
    BY <1>7, <2>3, LineIsReported, ErrorsCount DEF CountsKept, AtWork
  <2> QED
    BY <2>1, <2>2, <2>4 DEF AtWork, ErrorType, args, file, filename
<1>8. CASE EndOfFile
  <2>1. /\ pc = "lint" /\ pc' = "next" /\ linted' = linted \cup {filename}
        /\ filenames' = Tail(filenames)
        /\ UNCHANGED <<world, verbose_level>>
    BY <1>8 DEF EndOfFile, NextFile, settings
  <2>2. /\ filename \in DOMAIN world.files
        /\ Tail(filenames) \in Seq(DOMAIN world.files)
    BY <2>1, FileAtWork
  <2>3. MixedErrors(filename) \in Seq(ErrorType)
    BY <2>2, MixedTyped
  <2>4. shown' \in Seq(ErrorType)
    BY <1>8, <2>3, EndIsReported, ErrorsCount DEF CountsKept, AtWork
  <2> QED
    BY <2>1, <2>2, <2>4 DEF AtWork, ErrorType, args
<1>9. CASE Exit
  <2>1. /\ pc = "next" /\ pc' = "done"
        /\ UNCHANGED <<world, filenames, linted, shown, verbose_level>>
    BY <1>9 DEF Exit, counts, settings
  <2> QED
    BY <2>1 DEF AtWork, ErrorType, args
<1>10. CASE UNCHANGED vars
  BY <1>10 DEF vars, settings, counts, AtWork, ErrorType, args, file, filename
<1> QED
  BY <1>1, <1>2, <1>3, <1>4, <1>5, <1>6, <1>7, <1>8, <1>9, <1>10 DEF Next

LEMMA NothingCounted == CountsOf(<<>>) = <<>>
BY DEF CountsOf

\* What is counted does not depend on more than how.
LEMMA CountedAsBefore ==
  ASSUME UNCHANGED counting
  PROVE  CountsOf(shown)' = CountsOf(shown') /\ (Tallied' <=> Tallied)
BY DEF CountsOf, Counted, Tallied

\* Error counts what it prints, the command line only says how, and the exit
\* status is taken from the count.
LEMMA CountsStep ==
  ASSUME world \in Worlds, TypeOK, AtWork, CountsKept, [Next]_vars
  PROVE  CountsKept'
<1>1. CASE ParseArguments
  <2>1. /\ pc = "args" /\ pc' \in {"next", "raised"}
        /\ UNCHANGED <<error_count, errors_by_category, shown>>
    BY <1>1 DEF ParseArguments, Raise, counts
  <2>2. shown = <<>> /\ errors_by_category = <<>>
    BY <2>1 DEF AtWork, CountsKept
  <2>3. shown' = <<>>
    BY <2>1, <2>2
  <2>4. CountsOf(shown)' = <<>>
    BY <2>3 DEF CountsOf
  <2> QED
    BY <2>1, <2>2, <2>4 DEF CountsKept
<1>2. CASE Exit
  <2>1. /\ pc' = "done" /\ exit_status' = IF error_count > 0 THEN 1 ELSE 0
        /\ UNCHANGED <<counting, error_count, errors_by_category, shown>>
    BY <1>2 DEF Exit, counts, settings
  <2>2. error_count = Len(shown) /\ shown \in Seq(ErrorType)
    BY DEF CountsKept, AtWork
  <2>3. (shown # <<>>) <=> (error_count > 0)
    BY <2>2, EmptySeq
  <2> QED
    BY <2>1, <2>3, CountedAsBefore DEF CountsKept
<1>3. CASE ProcessLine
  <2>1. /\ pc = "lint" /\ linenum <= Len(file.lines)
        /\ UNCHANGED <<pc, counting>>
    BY <1>3 DEF ProcessLine, settings
  <2>2. /\ filename \in DOMAIN world.files /\ linenum \in 1 .. Len(file.lines)
        /\ file.lines[linenum] \in LineType
    BY <2>1, FileAtWork, ElementOfSeq DEF AtWork
  <2>3. ErrorsOf(filename, linenum) \in Seq(ErrorType)
    BY <2>2, ErrorsTyped DEF file
  <2>4. error_count' = Len(shown') /\ (Tallied => errors_by_category' = CountsOf(shown'))
    BY <1>3, <2>3, LineIsReported, ErrorsCount DEF CountsKept, AtWork
  <2> QED
    BY <2>1, <2>4, CountedAsBefore DEF CountsKept
<1>4. CASE EndOfFile
  <2>1. pc = "lint" /\ pc' = "next" /\ UNCHANGED counting
    BY <1>4 DEF EndOfFile, NextFile, settings
  <2>2. filename \in DOMAIN world.files
    BY <2>1, FileAtWork
  <2>3. MixedErrors(filename) \in Seq(ErrorType)
    BY <2>2, MixedTyped
  <2>4. error_count' = Len(shown') /\ (Tallied => errors_by_category' = CountsOf(shown'))
    BY <1>4, <2>3, EndIsReported, ErrorsCount DEF CountsKept, AtWork
  <2> QED
    BY <2>1, <2>4, CountedAsBefore DEF CountsKept
<1>5. ASSUME ProcessFile \/ SkipConfig \/ ReadConfig \/ ApplyFilters \/ OpenFile
      PROVE  /\ pc # "args" /\ pc' # "args" /\ pc' # "done"
             /\ UNCHANGED <<counting, error_count, errors_by_category, shown>>
  BY <1>5 DEF ProcessFile, SkipConfig, ReadConfig, ApplyFilters, OpenFile, NextFile, Raise,
              settings, counts, TypeOK
<1>6. CASE ProcessFile \/ SkipConfig \/ ReadConfig \/ ApplyFilters \/ OpenFile
  BY <1>5, <1>6, CountedAsBefore DEF CountsKept
<1>7. CASE UNCHANGED vars
  BY <1>7, CountedAsBefore DEF vars, settings, counts, CountsKept
<1> QED
  BY <1>1, <1>2, <1>3, <1>4, <1>6, <1>7 DEF Next
------------------------------------------------------------------------------
\* Which filter decides.

LEMMA HighestIs ==
  ASSUME NEW S \in SUBSET Nat, S # {}
  PROVE  Highest(S) \in S /\ \A e \in S : Highest(S) <= e
<1>1. \E d \in S : \A e \in S : d <= e
  BY LeastNumber
<1> QED
  BY <1>1 DEF Highest

LEMMA DeepestIs ==
  ASSUME NEW n \in Nat, NEW S \in SUBSET (0 .. n), S # {}
  PROVE  Deepest(S) \in S /\ \A e \in S : e <= Deepest(S)
<1>1. \E d \in S : \A e \in S : e <= d
  BY GreatestNumber
<1> QED
  BY <1>1 DEF Deepest

\* Of filters added to others those that were added decide, if they are about
\* the category (AddFilters, and _ShouldPrintError's loop).
LEMMA ConcatFiltered ==
  ASSUME NEW X, NEW a \in Seq(X), NEW b \in Seq(X), NEW category
  PROVE  Filtered(a \o b, category) =
           IF About(b, category) THEN Filtered(b, category) ELSE Filtered(a, category)
<1> DEFINE m == Len(a)
           n == Len(b)
           u == a \o b
           Matching(fs) == {k \in DOMAIN fs : IsPrefix(fs[k].of, category)}
<1>1. /\ m \in Nat /\ DOMAIN a = 1 .. m
      /\ n \in Nat /\ DOMAIN b = 1 .. n
  BY LenProperties
<1>2. /\ DOMAIN u = 1 .. m + n
      /\ \A i \in 1 .. m + n : u[i] = IF i <= m THEN a[i] ELSE b[i - m]
  BY ConcatProperties, LenProperties
<1>3. \A fs : Filtered(fs, category) =
               (Matching(fs) # {} /\ fs[Deepest(Matching(fs))].sign = "-")
  BY Zenon DEF Filtered, Deepest
<1>4. About(b, category) <=> Matching(b) # {}
  BY DEF About
<1> HIDE DEF m, n, u
<1>5. \A k \in 1 .. m : k \in 1 .. m + n /\ k <= m
  BY <1>1
<1>6. \A k \in 1 .. n : k + m \in 1 .. m + n /\ ~(k + m <= m) /\ (k + m) - m = k
  BY <1>1
<1>7. \A k \in 1 .. m + n : IF k <= m THEN k \in 1 .. m ELSE k - m \in 1 .. n
  BY <1>1
<1>8. \A k \in Matching(a) : k \in Matching(u)
  BY <1>1, <1>2, <1>5
<1>9. \A k \in Matching(b) : k + m \in Matching(u)
  BY <1>1, <1>2, <1>6
<1>10. \A k \in Matching(u) : IF k <= m THEN k \in Matching(a) ELSE k - m \in Matching(b)
  BY <1>1, <1>2, <1>7
<1>11. /\ Matching(a) \in SUBSET (1 .. m) /\ Matching(b) \in SUBSET (1 .. n)
       /\ Matching(u) \in SUBSET (1 .. m + n)
  BY <1>1, <1>2
<1>12. /\ Matching(a) \in SUBSET (0 .. m) /\ Matching(b) \in SUBSET (0 .. n)
       /\ Matching(u) \in SUBSET (0 .. m + n) /\ m + n \in Nat
  <2>1. 1 .. m \subseteq 0 .. m /\ 1 .. n \subseteq 0 .. n /\ 1 .. m + n \subseteq 0 .. m + n
    BY <1>1
  <2> HIDE DEF Matching
  <2> QED
    BY <1>1, <1>11, <2>1
<1> HIDE DEF Matching
<1>13. CASE Matching(b) # {}
  <2> DEFINE kb == Deepest(Matching(b))
             ku == Deepest(Matching(u))
  <2>1. kb \in Matching(b) /\ \A e \in Matching(b) : e <= kb
    BY <1>1, <1>12, <1>13, DeepestIs
  <2>2. kb + m \in Matching(u)
    BY <1>9, <2>1
  <2>3. ku \in Matching(u) /\ \A e \in Matching(u) : e <= ku
    BY <1>12, <2>2, DeepestIs
  <2> HIDE DEF kb, ku
  <2>4. kb \in 1 .. n /\ ku \in 1 .. m + n /\ kb + m <= ku
    BY <1>11, <2>1, <2>2, <2>3
  <2>5. ~(ku <= m)
    BY <1>1, <2>4
  <2>6. ku - m \in Matching(b) /\ ku - m <= kb
    BY <1>10, <2>1, <2>3, <2>5
  <2>7. ku - m = kb
    BY <1>1, <2>4, <2>6
  <2>8. u[ku] = b[kb]
    BY <1>2, <2>4, <2>5, <2>7
  <2>9. Matching(u) # {}
    BY <2>2
  <2> QED
    BY <1>3, <1>4, <1>13, <2>8, <2>9, Zenon DEF u, kb, ku
<1>14. CASE Matching(b) = {}
  <2>1. \A k : k \in Matching(u) <=> k \in Matching(a)
    BY <1>8, <1>10, <1>14
  <2>2. Matching(u) = Matching(a)
    BY <2>1
  <2>3. CASE Matching(a) = {}
    BY <1>3, <1>4, <1>14, <2>2, <2>3, Zenon DEF u
  <2>4. CASE Matching(a) # {}
    <3> DEFINE k == Deepest(Matching(a))
    <3>1. k \in 1 .. m
      BY <1>1, <1>11, <1>12, <2>4, DeepestIs
    <3> HIDE DEF k
    <3>2. u[k] = a[k]
      BY <1>2, <1>5, <3>1
    <3> QED
      BY <1>3, <1>4, <1>14, <2>2, <3>2, Zenon DEF u, k
  <2> QED
    BY <2>3, <2>4
<1> QED
  BY <1>13, <1>14

\* The first line of some more, and of one.
LEMMA FirstAppend ==
  ASSUME NEW F, NEW lines \in Seq(F), NEW l \in F, NEW category
  PROVE  First(Append(lines, l), category) =
           IF \E k \in DOMAIN lines : About(lines[k], category) THEN First(lines, category)
           ELSE IF About(l, category) THEN l ELSE <<>>
<1> DEFINE n == Len(lines)
           t == Append(lines, l)
           Those(ls) == {k \in DOMAIN ls : About(ls[k], category)}
<1>1. n \in Nat /\ DOMAIN lines = 1 .. n /\ DOMAIN t = 1 .. n + 1
  BY AppendProperties, LenProperties
<1>2. t[n + 1] = l /\ \A k \in 1 .. n : t[k] = lines[k]
  BY AppendProperties
<1>3. \A ls : First(ls, category) = IF Those(ls) = {} THEN <<>> ELSE ls[Highest(Those(ls))]
  BY Zenon DEF First
<1> HIDE DEF t, n
<1>4. \A k \in 1 .. n + 1 : k \in 1 .. n \/ k = n + 1
  BY <1>1
<1>5. n + 1 \in 1 .. n + 1 /\ \A k \in 1 .. n : k \in 1 .. n + 1 /\ ~(n + 1 <= k)
  BY <1>1
<1>6. Those(t) = Those(lines) \cup IF About(l, category) THEN {n + 1} ELSE {}
  BY <1>1, <1>2, <1>4, <1>5
<1>7. Those(lines) \in SUBSET (1 .. n) /\ 1 .. n \subseteq Nat /\ n + 1 \in Nat
  BY <1>1
<1>8. (\E k \in DOMAIN lines : About(lines[k], category)) <=> Those(lines) # {}
  OBVIOUS
<1> HIDE DEF Those
<1>9. CASE Those(lines) # {}
  <2> DEFINE h == Highest(Those(lines))
             g == Highest(Those(t))
  <2>1. h \in Those(lines) /\ \A e \in Those(lines) : h <= e
    BY <1>7, <1>9, HighestIs
  <2>2. Those(t) \in SUBSET Nat /\ Those(t) # {} /\ h \in Those(t)
    BY <1>6, <1>7, <2>1
  <2>3. g \in Those(t) /\ \A e \in Those(t) : g <= e
    BY <2>2, HighestIs
  <2> HIDE DEF h, g
  <2>4. h \in 1 .. n /\ g <= h
    BY <1>7, <2>1, <2>2, <2>3
  <2>5. g # n + 1
    BY <1>5, <2>4
  <2>6. g \in Those(lines) /\ h <= g
    BY <1>6, <2>1, <2>3, <2>5
  <2>7. g = h
    BY <1>7, <2>4, <2>6
  <2>8. t[g] = lines[h]
    BY <1>2, <2>4, <2>7
  <2> QED
    BY <1>3, <1>8, <1>9, <2>2, <2>8, Zenon DEF t, g, h
<1>10. CASE Those(lines) = {}
  <2>1. CASE About(l, category)
    <3>1. Those(t) = {n + 1}
      BY <1>6, <1>10, <2>1
    <3>2. Highest(Those(t)) \in Those(t)
      BY <1>7, <3>1, HighestIs
    <3>3. Highest(Those(t)) = n + 1
      BY <3>1, <3>2
    <3>4. Those(t) # {}
      BY <3>1
    <3> QED
      BY <1>2, <1>3, <1>8, <1>10, <2>1, <3>3, <3>4, Zenon DEF t
  <2>2. CASE ~About(l, category)
    <3>1. Those(t) = {}
      BY <1>6, <1>10, <2>2
    <3> QED
      BY <1>3, <1>8, <1>10, <2>2, <3>1, Zenon DEF t
  <2> QED
    BY <2>1, <2>2
<1> QED
  BY <1>9, <1>10
\* The least of some numbers and of one beyond them, or of one below them.
LEMMA HighestAdd ==
  ASSUME NEW i \in Nat, NEW S \in SUBSET (1 .. i)
  PROVE  Highest(S \cup {i + 1}) = IF S = {} THEN i + 1 ELSE Highest(S)
<1> DEFINE g == Highest(S \cup {i + 1})
<1>1. g \in S \cup {i + 1} /\ \A e \in S \cup {i + 1} : g <= e
  <2>1. S \cup {i + 1} \in SUBSET Nat
    OBVIOUS
  <2> QED
    BY <2>1, HighestIs
<1> HIDE DEF g
<1>2. CASE S = {}
  BY <1>1, <1>2 DEF g
<1>3. CASE S # {}
  <2>1. Highest(S) \in S /\ \A e \in S : Highest(S) <= e
    BY <1>3, HighestIs
  <2>2. Highest(S) \in 1 .. i
    BY <2>1
  <2>3. g <= Highest(S) /\ g # i + 1
    BY <1>1, <2>1, <2>2
  <2>4. g \in S /\ Highest(S) <= g
    BY <1>1, <2>1, <2>3
  <2>5. g = Highest(S)
    BY <2>2, <2>3, <2>4
  <2> QED
    BY <1>3, <2>5 DEF g
<1> QED
  BY <1>2, <1>3

LEMMA HighestBelow ==
  ASSUME NEW i \in Nat, NEW S \in SUBSET Nat, \A e \in S : i <= e
  PROVE  Highest(S \cup {i}) = i
<1> DEFINE g == Highest(S \cup {i})
<1>1. S \cup {i} \in SUBSET Nat /\ S \cup {i} # {} /\ i \in S \cup {i}
  OBVIOUS
<1>2. g \in S \cup {i} /\ \A e \in S \cup {i} : g <= e
  BY <1>1, HighestIs
<1> HIDE DEF g
<1>3. g <= i /\ i <= g /\ g \in Nat
  BY <1>1, <1>2
<1>4. g = i
  BY <1>3
<1> QED
  BY <1>4 DEF g

Says(lines, category) == \E k \in DOMAIN lines : About(lines[k], category)

\* Of the filter lines of the directories the first decides, because they are
\* applied from the last to the first (ProcessConfigOverrides).
LEMMA AddAllDecides ==
  ASSUME NEW X, NEW lines \in Seq(Seq(X)), filters \in Seq(X), NEW category
  PROVE  Filtered(AddAll(lines), category) =
           IF Says(lines, category) THEN Filtered(First(lines, category), category)
           ELSE Filtered(filters, category)
<1> DEFINE N == Len(lines)
           line(i) == lines[N + 1 - i]
           step == [i \in 1 .. N |-> [v \in Seq(X) |-> AddFilters(v, line(i))]]
           added[i \in 0 .. N] ==
             IF i = 0 THEN filters ELSE AddFilters(added[i - 1], lines[Len(lines) + 1 - i])
<1>1. N \in Nat /\ DOMAIN lines = 1 .. N /\ \A k \in 1 .. N : lines[k] \in Seq(X)
  BY LenProperties, ElementOfSeq
<1>2. ASSUME NEW i \in 1 .. N PROVE N + 1 - i \in 1 .. N /\ line(i) \in Seq(X)
  BY <1>1
<1>3. ASSUME NEW i \in 1 .. N, NEW v \in Seq(X) PROVE step[i][v] \in Seq(X)
  <2>1. v \o line(i) \in Seq(X)
    BY <1>2, ConcatProperties
  <2> HIDE DEF line
  <2> QED
    BY <2>1 DEF AddFilters
<1>4. PICK g : Recurs(g, step, filters, N, Seq(X))
  <2> HIDE DEF step, N
  <2> QED
    BY <1>1, <1>3, FiniteRecursion DEF Recurrence
<1>5. g = [i \in 0 .. N |-> IF i = 0 THEN filters
                            ELSE AddFilters(g[i - 1], lines[Len(lines) + 1 - i])]
  <2>1. g = [i \in 0 .. N |-> g[i]]
    BY <1>4 DEF Recurs
  <2>2. ASSUME NEW i \in 0 .. N
        PROVE  g[i] = IF i = 0 THEN filters ELSE AddFilters(g[i - 1], lines[Len(lines) + 1 - i])
    <3>1. CASE i = 0
      BY <1>4, <3>1 DEF Recurs
    <3>2. CASE i # 0
      <4>1. i \in 1 .. N /\ i - 1 \in 0 .. N
        BY <1>1, <3>2
      <4> HIDE DEF N
      <4> QED
        BY <1>4, <3>2, <4>1 DEF Recurs, N
    <3> QED
      BY <3>1, <3>2
  <2> QED
    BY <2>1, <2>2, Zenon
<1>6. added = [i \in 0 .. N |-> IF i = 0 THEN filters
                                ELSE AddFilters(added[i - 1], lines[Len(lines) + 1 - i])]
  BY <1>5, Zenon
<1>7. AddAll(lines) = added[N]
  BY Zenon DEF AddAll
<1> HIDE DEF added
<1> DEFINE Those(i) == {k \in N + 1 - i .. N : About(lines[k], category)}
           Fine(i) == /\ added[i] \in Seq(X)
                      /\ Filtered(added[i], category) =
                           IF Those(i) = {} THEN Filtered(filters, category)
                           ELSE Filtered(lines[Highest(Those(i))], category)
           T == {i \in Nat : i <= N => Fine(i)}
<1>8. 0 \in T
  <2>1. Those(0) = {}
    BY <1>1
  <2>2. added[0] = filters
    <3>1. 0 \in 0 .. N
      BY <1>1
    <3> QED
      BY <1>6, <3>1
  <2>3. Fine(0)
    <3> HIDE DEF Those
    <3> QED
      BY <2>1, <2>2
  <2> HIDE DEF Fine
  <2> QED
    BY <2>3
<1>9. ASSUME NEW i \in Nat, i \in T PROVE i + 1 \in T
  <2> SUFFICES ASSUME i + 1 <= N PROVE Fine(i + 1)
    <3> HIDE DEF Fine
    <3> QED
      OBVIOUS
  <2> DEFINE p == N + 1 - (i + 1)
  <2>1. /\ i <= N /\ i + 1 \in 1 .. N /\ i + 1 \in 0 .. N /\ i + 1 # 0 /\ (i + 1) - 1 = i
        /\ p \in Nat /\ p \in 1 .. N /\ N + 1 - i = p + 1
    BY <1>1
  <2>2. Fine(i)
    <3> HIDE DEF Fine
    <3> QED
      BY <1>9, <2>1
  <2>3. added[i + 1] = added[i] \o lines[p]
    BY <1>6, <2>1 DEF AddFilters
  <2>4. lines[p] \in Seq(X)
    BY <1>1, <2>1
  <2>5. added[i + 1] \in Seq(X)
    BY <2>2, <2>3, <2>4, ConcatProperties
  <2>6. Filtered(added[i + 1], category) =
          IF About(lines[p], category) THEN Filtered(lines[p], category)
          ELSE Filtered(added[i], category)
    BY <2>2, <2>3, <2>4, ConcatFiltered
  <2> HIDE DEF p
  <2>7. Those(i) = {k \in p + 1 .. N : About(lines[k], category)}
    BY <2>1
  <2>8. Those(i + 1) = {k \in p .. N : About(lines[k], category)}
    BY DEF p
  <2>9. \A k \in p .. N : k = p \/ k \in p + 1 .. N
    BY <1>1, <2>1
  <2>10. p \in p .. N /\ \A k \in p + 1 .. N : k \in p .. N /\ k \in Nat /\ p <= k
    BY <1>1, <2>1
  <2> HIDE DEF Those
  <2>11. CASE About(lines[p], category)
    <3>1. Those(i + 1) = Those(i) \cup {p}
      BY <2>7, <2>8, <2>9, <2>10, <2>11
    <3>2. Those(i) \in SUBSET Nat /\ \A e \in Those(i) : p <= e
      BY <2>7, <2>10
    <3>3. Highest(Those(i + 1)) = p
      BY <2>1, <3>1, <3>2, HighestBelow
    <3>4. Those(i + 1) # {}
      BY <3>1
    <3> QED
      BY <2>5, <2>6, <2>11, <3>3, <3>4
  <2>12. CASE ~About(lines[p], category)
    <3>1. Those(i + 1) = Those(i)
      BY <2>7, <2>8, <2>9, <2>10, <2>12
    <3> QED
      BY <2>2, <2>5, <2>6, <2>12, <3>1
  <2> QED
    BY <2>11, <2>12
<1>10. Fine(N)
  <2>1. Nat \subseteq T
    <3> HIDE DEF T
    <3> QED
      BY <1>8, <1>9, SetInduction
  <2> HIDE DEF Fine
  <2> QED
    BY <1>1, <2>1
<1>11. Those(N) = {k \in DOMAIN lines : About(lines[k], category)}
  <2>1. N + 1 - N = 1
    BY <1>1
  <2> QED
    BY <1>1, <2>1
<1> HIDE DEF Those
<1>12. Says(lines, category) <=> Those(N) # {}
  BY <1>11 DEF Says
<1>13. Those(N) # {} => First(lines, category) = lines[Highest(Those(N))]
  BY <1>11, Zenon DEF First
<1> QED
  BY <1>7, <1>10, <1>12, <1>13
\* What the options of a CPPLINT.cfg are.
OptionsTyped(os) ==
  /\ os \in Seq(Range(os))
  /\ \A o \in Range(os) : o.name \in Settings /\ (o.name = "filter" => o.val \in Filters)

\* The filter lines about a category up to the i-th option, and what the walk
\* knows after it, unless the file is excluded by then.
FilterLines(os, i, category) ==
  {k \in 1 .. i : os[k].name = "filter" /\ About(os[k].val, category)}
After(v, os, i, category) ==
  /\ v.filters \in Seq(Filters)
  /\ v.keep = (keep_looking /\ \A k \in 1 .. i : os[k].name # "noparent")
  /\ Says(v.filters, category) <=>
       (Says(cfg_filters, category) \/ FilterLines(os, i, category) # {})
  /\ First(v.filters, category) =
       IF Says(cfg_filters, category) THEN First(cfg_filters, category)
       ELSE IF FilterLines(os, i, category) = {} THEN <<>>
       ELSE os[Highest(FilterLines(os, i, category))].val

LEMMA SaysAppend ==
  ASSUME NEW F, NEW lines \in Seq(F), NEW l \in F, NEW category
  PROVE  Says(Append(lines, l), category) <=> Says(lines, category) \/ About(l, category)
<1> DEFINE n == Len(lines)
           t == Append(lines, l)
<1>1. n \in Nat /\ DOMAIN lines = 1 .. n /\ DOMAIN t = 1 .. n + 1
  BY AppendProperties, LenProperties
<1>2. t[n + 1] = l /\ \A k \in 1 .. n : t[k] = lines[k]
  BY AppendProperties
<1> HIDE DEF t, n
<1>3. \A k \in 1 .. n + 1 : k \in 1 .. n \/ k = n + 1
  BY <1>1
<1>4. n + 1 \in 1 .. n + 1 /\ \A k \in 1 .. n : k \in 1 .. n + 1
  BY <1>1
<1>5. Says(t, category) <=> Says(lines, category) \/ About(l, category)
  BY <1>1, <1>2, <1>3, <1>4 DEF Says
<1> QED
  BY <1>5 DEF t

\* One option: a filter line is appended, noparent ends the walk, and no other
\* option moves what the walk knows.
LEMMA SetOptionDoes ==
  ASSUME NEW os, OptionsTyped(os), NEW N \in Nat, DOMAIN os = 1 .. N, NEW i \in Nat,
         i + 1 \in 1 .. N, NEW v, ~v.excluded, NEW category, After(v, os, i, category),
         DOMAIN v = {"keep", "filters", "excluded", "length", "valid", "hpp"},
         v = [x \in DOMAIN v |-> v[x]]
  PROVE  After(SetOption(v, os[i + 1]), os, i + 1, category)
<1> DEFINE o == os[i + 1]
           w == SetOption(v, o)
<1>1. o \in Range(os)
  BY DEF Range
<1>2. o.name \in Settings /\ (o.name = "filter" => o.val \in Filters)
  BY <1>1 DEF OptionsTyped
<1>3. \A k \in 1 .. i + 1 : k \in 1 .. i \/ k = i + 1
  OBVIOUS
<1>4. i + 1 \in 1 .. i + 1 /\ \A k \in 1 .. i : k \in 1 .. i + 1
  OBVIOUS
<1>5. CASE o.name = "filter"
  <2>1. w.filters = Append(v.filters, o.val) /\ w.keep = v.keep
    BY <1>5 DEF SetOption
  <2>2. v.filters \in Seq(Filters) /\ o.val \in Filters
    BY <1>2, <1>5 DEF After
  <2>3. /\ w.filters \in Seq(Filters)
        /\ Says(w.filters, category) <=> (Says(v.filters, category) \/ About(o.val, category))
        /\ First(w.filters, category) =
             IF Says(v.filters, category) THEN First(v.filters, category)
             ELSE IF About(o.val, category) THEN o.val ELSE <<>>
    <3>1. Append(v.filters, o.val) \in Seq(Filters)
      BY <2>2, AppendProperties
    <3>2. First(Append(v.filters, o.val), category) =
             IF Says(v.filters, category) THEN First(v.filters, category)
             ELSE IF About(o.val, category) THEN o.val ELSE <<>>
      BY <2>2, FirstAppend DEF Says
    <3>3. Says(Append(v.filters, o.val), category)
            <=> Says(v.filters, category) \/ About(o.val, category)
      BY <2>2, SaysAppend
    <3> QED
      BY <2>1, <3>1, <3>2, <3>3
  <2>4. w.keep = (keep_looking /\ \A k \in 1 .. i + 1 : os[k].name # "noparent")
    <3>1. o.name # "noparent"
      BY <1>5
    <3>2. (\A k \in 1 .. i + 1 : os[k].name # "noparent")
            <=> (\A k \in 1 .. i : os[k].name # "noparent")
      BY <1>3, <1>4, <3>1
    <3> QED
      BY <2>1, <3>2 DEF After
  <2>5. FilterLines(os, i + 1, category) =
          FilterLines(os, i, category) \cup IF About(o.val, category) THEN {i + 1} ELSE {}
    BY <1>3, <1>4, <1>5 DEF FilterLines
  <2>6. FilterLines(os, i, category) \in SUBSET (1 .. i)
    BY DEF FilterLines
  <2>7. Highest(FilterLines(os, i, category) \cup {i + 1}) =
          IF FilterLines(os, i, category) = {} THEN i + 1 ELSE Highest(FilterLines(os, i, category))
    BY <2>6, HighestAdd
  <2>8. /\ Says(v.filters, category) <=>
             (Says(cfg_filters, category) \/ FilterLines(os, i, category) # {})
        /\ First(v.filters, category) =
             IF Says(cfg_filters, category) THEN First(cfg_filters, category)
             ELSE IF FilterLines(os, i, category) = {} THEN <<>>
             ELSE os[Highest(FilterLines(os, i, category))].val
    BY DEF After
  <2> HIDE DEF w
  <2>9. Says(w.filters, category) <=>
          (Says(cfg_filters, category) \/ FilterLines(os, i + 1, category) # {})
    BY <2>3, <2>5, <2>8
  <2>10. First(w.filters, category) =
          IF Says(cfg_filters, category) THEN First(cfg_filters, category)
          ELSE IF FilterLines(os, i + 1, category) = {} THEN <<>>
          ELSE os[Highest(FilterLines(os, i + 1, category))].val
    <3>1. CASE About(o.val, category)
      <4>1. FilterLines(os, i + 1, category) = FilterLines(os, i, category) \cup {i + 1}
        BY <2>5, <3>1
      <4>2. FilterLines(os, i + 1, category) # {}
        BY <4>1
      <4> QED
        BY <2>3, <2>7, <2>8, <3>1, <4>1, <4>2
    <3>2. CASE ~About(o.val, category)
      <4>1. FilterLines(os, i + 1, category) = FilterLines(os, i, category)
        BY <2>5, <3>2
      <4> QED
        BY <2>3, <2>8, <3>2, <4>1
    <3> QED
      BY <3>1, <3>2
  <2> QED
    BY <2>3, <2>4, <2>9, <2>10 DEF After, w
<1>6. CASE o.name # "filter"
  <2>1. FilterLines(os, i + 1, category) = FilterLines(os, i, category)
    BY <1>3, <1>4, <1>6 DEF FilterLines
  <2>2. w.filters = v.filters
    BY <1>2, <1>6 DEF SetOption, Settings
  <2>3. w.keep = (keep_looking /\ \A k \in 1 .. i + 1 : os[k].name # "noparent")
    <3>1. CASE o.name = "noparent"
      <4>1. w.keep = FALSE
        BY <3>1 DEF SetOption
      <4>2. ~\A k \in 1 .. i + 1 : os[k].name # "noparent"
        BY <1>4, <3>1
      <4> QED
        BY <4>1, <4>2
    <3>2. CASE o.name # "noparent"
      <4>1. w.keep = v.keep
        BY <1>2, <1>6, <3>2 DEF SetOption, Settings
      <4>2. (\A k \in 1 .. i + 1 : os[k].name # "noparent")
              <=> (\A k \in 1 .. i : os[k].name # "noparent")
        BY <1>3, <1>4, <3>2
      <4> HIDE DEF w
      <4> QED
        BY <4>1, <4>2 DEF After
    <3> QED
      BY <3>1, <3>2
  <2> HIDE DEF w
  <2> QED
    BY <2>1, <2>2, <2>3 DEF After, w
<1> QED
  BY <1>5, <1>6
\* All options of a CPPLINT.cfg, when they do not exclude the file.
LEMMA OptionsDo ==
  ASSUME NEW cfg, OptionsTyped(cfg.options), keep_looking \in BOOLEAN,
         cfg_filters \in Seq(Filters), ~Options(cfg).excluded, NEW category
  PROVE  After(Options(cfg), cfg.options, Len(cfg.options), category)
<1> DEFINE os == cfg.options
           N == Len(os)
           V == {o.val : o \in Range(os)}
           A == [keep : BOOLEAN, filters : Seq(Filters), excluded : BOOLEAN,
                 length : V \cup {line_length}, valid : V \cup {valid_extensions},
                 hpp : V \cup {hpp_headers}]
           start == [keep |-> keep_looking, filters |-> cfg_filters, excluded |-> FALSE,
                     length |-> line_length, valid |-> valid_extensions, hpp |-> hpp_headers]
           step == [i \in 1 .. N |-> [v \in A |-> SetOption(v, os[i])]]
           st[i \in 0 .. Len(cfg.options)] ==
             IF i = 0
             THEN [keep |-> keep_looking, filters |-> cfg_filters, excluded |-> FALSE,
                   length |-> line_length, valid |-> valid_extensions, hpp |-> hpp_headers]
             ELSE SetOption(st[i - 1], cfg.options[i])
<1>1. N \in Nat /\ DOMAIN os = 1 .. N /\ \A k \in 1 .. N : os[k] \in Range(os)
  BY LenProperties, ElementOfSeq DEF OptionsTyped
<1>2. start \in A
  OBVIOUS
<1>3. ASSUME NEW i \in 1 .. N, NEW v \in A PROVE SetOption(v, os[i]) \in A
  <2> DEFINE o == os[i]
  <2>1. o.name \in Settings /\ (o.name = "filter" => o.val \in Filters) /\ o.val \in V
    BY <1>1 DEF OptionsTyped
  <2>0. v \in A
    OBVIOUS
  <2> SUFFICES SetOption(v, o) \in A
    OBVIOUS
  <2> HIDE DEF o, V
  <2>2. CASE v.excluded
    <3>1. SetOption(v, o) = v
      BY <2>2 DEF SetOption
    <3> QED
      BY <2>0, <3>1
  <2>3. CASE ~v.excluded /\ o.name = "noparent"
    BY <2>3 DEF SetOption
  <2>4. CASE ~v.excluded /\ o.name = "filter"
    <3>1. Append(v.filters, o.val) \in Seq(Filters)
      BY <2>1, <2>4, AppendProperties
    <3>2. SetOption(v, o) = [v EXCEPT !.filters = Append(v.filters, o.val)]
      BY <2>4 DEF SetOption
    <3> QED
      BY <3>1, <3>2
  <2>5. CASE ~v.excluded /\ o.name = "exclude_files"
    <3>1. SetOption(v, o) = [v EXCEPT !.excluded = base_name \in o.val]
      BY <2>5 DEF SetOption
    <3>2. (base_name \in o.val) \in BOOLEAN
      OBVIOUS
    <3> QED
      BY <3>1, <3>2
  <2>6. CASE ~v.excluded /\ o.name \in {"linelength", "extensions", "headers", "invalid"}
    <3>1. SetOption(v, o) \in {[v EXCEPT !.length = o.val], [v EXCEPT !.valid = o.val],
                               [v EXCEPT !.hpp = o.val], v}
      BY <2>6 DEF SetOption
    <3> QED
      BY <2>1, <3>1
  <2>7. o.name \in {"noparent", "filter", "exclude_files", "linelength", "extensions", "headers",
                    "invalid"}
    BY <2>1 DEF Settings
  <2> HIDE DEF A, os
  <2> QED
    BY <2>2, <2>3, <2>4, <2>5, <2>6, <2>7
<1>4. PICK g : Recurs(g, step, start, N, A)
  <2>1. Recurrence(step, N, A)
    <3> HIDE DEF A
    <3> QED
      BY <1>3 DEF Recurrence
  <2> HIDE DEF step, N, A, start
  <2> QED
    BY <1>1, <1>2, <2>1, FiniteRecursion
<1> HIDE DEF A
<1>5. g = [i \in 0 .. N |-> IF i = 0 THEN start ELSE SetOption(g[i - 1], os[i])]
  <2>1. g = [i \in 0 .. N |-> g[i]]
    BY <1>4 DEF Recurs
  <2>2. ASSUME NEW i \in 0 .. N
        PROVE  g[i] = IF i = 0 THEN start ELSE SetOption(g[i - 1], os[i])
    <3>1. CASE i = 0
      BY <1>4, <3>1 DEF Recurs
    <3>2. CASE i # 0
      <4>1. i \in 1 .. N /\ i - 1 \in 0 .. N
        BY <1>1, <3>2
      <4>2. g[i] = step[i][g[i - 1]] /\ g[i - 1] \in A
        <5> HIDE DEF step, start, N
        <5> QED
          BY <1>4, <4>1 DEF Recurs
      <4>3. step[i][g[i - 1]] = SetOption(g[i - 1], os[i])
        BY <4>1, <4>2
      <4> HIDE DEF step, start
      <4> QED
        BY <3>2, <4>2, <4>3
    <3> QED
      BY <3>1, <3>2
  <2> QED
    BY <2>1, <2>2, Zenon
<1>6. st = [i \in 0 .. N |-> IF i = 0 THEN start ELSE SetOption(st[i - 1], os[i])]
  BY <1>5, Zenon
<1>7. Options(cfg) = st[N]
  BY Zenon DEF Options
<1> HIDE DEF st, start
<1>8. st[0] = start /\ \A i \in 1 .. N : st[i] = SetOption(st[i - 1], os[i])
  <2>1. 0 \in 0 .. N /\ \A i \in 1 .. N : i \in 0 .. N /\ i # 0
    BY <1>1
  <2> HIDE DEF N, os
  <2> QED
    BY <1>6, <2>1
<1> DEFINE Fine(i) == st[i] \in A /\ (st[i].excluded \/ After(st[i], os, i, category))
           T == {i \in Nat : i <= N => Fine(i)}
<1> HIDE DEF os, N
<1>9. 0 \in T
  <2>1. FilterLines(os, 0, category) = {} /\ \A k \in 1 .. 0 : FALSE
    BY DEF FilterLines
  <2>2. start.filters = cfg_filters /\ start.keep = keep_looking
    BY DEF start
  <2>3. Says(cfg_filters, category) \/ First(cfg_filters, category) = <<>>
    BY DEF Says, First
  <2>4. After(start, os, 0, category)
    <3>1. start.keep = (keep_looking /\ \A k \in 1 .. 0 : os[k].name # "noparent")
      BY <2>1, <2>2
    <3> QED
      BY <2>1, <2>2, <2>3, <3>1 DEF After
  <2> QED
    BY <1>2, <1>8, <2>4
<1>10. ASSUME NEW i \in Nat, i \in T PROVE i + 1 \in T
  <2> SUFFICES ASSUME i + 1 <= N PROVE Fine(i + 1)
    <3> HIDE DEF Fine
    <3> QED
      OBVIOUS
  <2>1. i <= N /\ i + 1 \in 1 .. N /\ (i + 1) - 1 = i
    BY <1>1
  <2>2. Fine(i)
    <3> HIDE DEF Fine
    <3> QED
      BY <1>10, <2>1
  <2>3. st[i + 1] = SetOption(st[i], os[i + 1])
    BY <1>8, <2>1
  <2>4. st[i + 1] \in A
    BY <1>3, <2>1, <2>2, <2>3
  <2>5. CASE st[i].excluded
    <3>1. st[i + 1] = st[i]
      BY <2>3, <2>5 DEF SetOption
    <3> QED
      BY <2>4, <2>5, <3>1
  <2>6. CASE ~st[i].excluded
    <3>1. /\ DOMAIN st[i] = {"keep", "filters", "excluded", "length", "valid", "hpp"}
          /\ st[i] = [x \in DOMAIN st[i] |-> st[i][x]]
      BY <2>2 DEF A
    <3>2. After(st[i], os, i, category)
      BY <2>2, <2>6
    <3>3. OptionsTyped(os)
      BY DEF os
    <3> HIDE DEF Fine
    <3>4. After(SetOption(st[i], os[i + 1]), os, i + 1, category)
      BY <1>1, <2>1, <2>6, <3>1, <3>2, <3>3, SetOptionDoes
    <3> QED
      BY <2>3, <2>4, <3>4 DEF Fine
  <2> QED
    BY <2>5, <2>6
<1>11. Fine(N)
  <2>1. Nat \subseteq T
    <3> HIDE DEF T
    <3> QED
      BY <1>9, <1>10, SetInduction
  <2> HIDE DEF Fine
  <2> QED
    BY <1>1, <2>1
<1> QED
  BY <1>7, <1>11 DEF os, N
------------------------------------------------------------------------------
\* The walk.

\* What the properties say of a file is about the source tree only.
LEMMA SameFile ==
  ASSUME world' = world, NEW f
  PROVE  /\ (world.files[f])' = world.files[f]
         /\ \A d : Stops(f, d)' <=> Stops(f, d)
         /\ \A l, category : Nearest(f, l, category)' = Nearest(f, l, category)
         /\ \A category : Off(f, category)' <=> Off(f, category)
<1>1. (world.files[f])' = world.files[f] /\ args' = args
  BY DEF args
<1>2. ASSUME NEW d PROVE Stops(f, d)' <=> Stops(f, d)
  BY DEF Stops, Has, Config
<1>3. Above(f)' = Above(f)
  BY <1>2 DEF Above, Has, Config, Stops
<1>4. ASSUME NEW category, NEW d PROVE Deciding(f, d, category)' = Deciding(f, d, category)
  BY DEF Deciding, Config
<1>5. ASSUME NEW category, NEW l PROVE Saying(f, l, category)' = Saying(f, l, category)
  BY <1>3, <1>4 DEF Saying, Deciding, Config
<1>6. ASSUME NEW category, NEW l PROVE Nearest(f, l, category)' = Nearest(f, l, category)
  BY <1>4, <1>5 DEF Nearest, Config
<1>7. ASSUME NEW category PROVE Off(f, category)' <=> Off(f, category)
  BY <1>1, <1>5, <1>6 DEF Off
<1> QED
  BY <1>1, <1>2, <1>6, <1>7

LEMMA SameWorld ==
  ASSUME world' = world, filenames' = filenames
  PROVE  /\ (Len(file.dir))' = Len(file.dir)
         /\ \A d : Stops(filename, d)' <=> Stops(filename, d)
         /\ \A category : Nearest(filename, level, category)' = Nearest(filename, level', category)
         /\ \A category : Off(filename, category)' <=> Off(filename, category)
<1>1. filename' = filename
  BY DEF filename
<1>2. (Len(file.dir))' = Len(file.dir)
  BY <1>1 DEF file
<1> QED
  BY <1>1, <1>2, SameFile

LEMMA SaysFirst ==
  ASSUME NEW F, NEW lines \in Seq(F), NEW category
  PROVE  Says(lines, category) <=> About(First(lines, category), category)
<1> DEFINE Those == {k \in DOMAIN lines : About(lines[k], category)}
<1>1. Says(lines, category) <=> Those # {}
  BY DEF Says
<1>2. First(lines, category) = IF Those = {} THEN <<>> ELSE lines[Highest(Those)]
  BY DEF First
<1>3. ~About(<<>>, category)
  BY DEF About
<1>4. Those \in SUBSET Nat
  BY LenProperties
<1>5. Those # {} => Highest(Those) \in Those
  <2> HIDE DEF Those
  <2> QED
    BY <1>4, HighestIs
<1> QED
  BY <1>1, <1>2, <1>3, <1>5

\* What the world says of the CPPLINT.cfg files.
LEMMA ConfigFacts ==
  ASSUME world \in Worlds, NEW f \in DOMAIN world.files, NEW d, Has(f, d)
  PROVE  /\ OptionsTyped(Config(f, d).options)
         /\ Len(Config(f, d).options) \in Nat
         /\ DOMAIN Config(f, d).options = 1 .. Len(Config(f, d).options)
<1> DEFINE os == Config(f, d).options
<1>1. OptionsTyped(os)
  BY WorldsAssumption DEF WorldsAssumption, OptionsTyped, Has, Config
<1> HIDE DEF os
<1>2. Len(os) \in Nat /\ DOMAIN os = 1 .. Len(os)
  BY <1>1, LenProperties DEF OptionsTyped
<1> QED
  BY <1>1, <1>2 DEF os

LEMMA DecidingIs ==
  ASSUME world \in Worlds, NEW f \in DOMAIN world.files, NEW d, Has(f, d), NEW category
  PROVE  /\ Deciding(f, d, category) =
              FilterLines(Config(f, d).options, Len(Config(f, d).options), category)
         /\ Deciding(f, d, category) \in SUBSET Nat
         /\ Deciding(f, d, category) # {} =>
              About(Config(f, d).options[Highest(Deciding(f, d, category))].val, category)
<1>1. Deciding(f, d, category) =
        FilterLines(Config(f, d).options, Len(Config(f, d).options), category)
  BY ConfigFacts DEF Deciding, FilterLines
<1>2. Deciding(f, d, category) \in SUBSET Nat
  BY <1>1 DEF FilterLines
<1>3. Deciding(f, d, category) # {} =>
        Highest(Deciding(f, d, category)) \in Deciding(f, d, category)
  BY <1>2, HighestIs
<1>4. \A k \in Deciding(f, d, category) : About(Config(f, d).options[k].val, category)
  BY DEF Deciding
<1> QED
  BY <1>1, <1>2, <1>3, <1>4

LEMMA SayingIs ==
  ASSUME world \in Worlds, NEW f \in DOMAIN world.files, NEW l, NEW category
  PROVE  /\ Saying(f, l, category) \in SUBSET (0 .. Len(world.files[f].dir))
         /\ Len(world.files[f].dir) \in Nat
         /\ Saying(f, l, category) # {} =>
              /\ Deepest(Saying(f, l, category)) \in Saying(f, l, category)
              /\ \A e \in Saying(f, l, category) : e <= Deepest(Saying(f, l, category))
         /\ Saying(f, l, category) # {} <=> About(Nearest(f, l, category), category)
<1>1. Len(world.files[f].dir) \in Nat
  BY WorldFacts, LenProperties
<1>2. Saying(f, l, category) \in SUBSET (0 .. Len(world.files[f].dir))
  BY DEF Saying, Above
<1>3. ASSUME Saying(f, l, category) # {}
      PROVE  /\ Deepest(Saying(f, l, category)) \in Saying(f, l, category)
             /\ \A e \in Saying(f, l, category) : e <= Deepest(Saying(f, l, category))
  BY <1>1, <1>2, <1>3, DeepestIs
<1>4. \A d \in Saying(f, l, category) : Has(f, d) /\ Deciding(f, d, category) # {}
  BY DEF Saying, Above
<1>5. ASSUME Saying(f, l, category) # {} PROVE About(Nearest(f, l, category), category)
  <2> DEFINE d == Deepest(Saying(f, l, category))
  <2>1. Has(f, d) /\ Deciding(f, d, category) # {}
    BY <1>3, <1>4, <1>5
  <2>2. Nearest(f, l, category) = Config(f, d).options[Highest(Deciding(f, d, category))].val
    BY <1>5 DEF Nearest
  <2> HIDE DEF d
  <2> QED
    BY <2>1, <2>2, DecidingIs
<1>6. ASSUME Saying(f, l, category) = {} PROVE ~About(Nearest(f, l, category), category)
  BY <1>6 DEF Nearest, About
<1> QED
  BY <1>1, <1>2, <1>3, <1>5, <1>6
\* What one more level adds.
LEMMA LevelBelow ==
  ASSUME world \in Worlds, NEW f \in DOMAIN world.files,
         NEW l \in 0 .. Len(world.files[f].dir), NEW category
  PROVE  /\ l \notin Above(f) => Nearest(f, l - 1, category) = Nearest(f, l, category)
         /\ l \in Above(f) =>
              Nearest(f, l - 1, category) =
                IF Saying(f, l, category) # {} THEN Nearest(f, l, category)
                ELSE IF Deciding(f, l, category) = {} THEN <<>>
                ELSE Config(f, l).options[Highest(Deciding(f, l, category))].val
<1> DEFINE S == Saying(f, l, category)
           S1 == Saying(f, l - 1, category)
           N == Len(world.files[f].dir)
<1>1. N \in Nat /\ S \in SUBSET (0 .. N) /\ S1 \in SUBSET (0 .. N)
  BY SayingIs
<1>2. Above(f) \in SUBSET (0 .. N)
  BY DEF Above
<1>3. ASSUME NEW d \in 0 .. N PROVE (d > l - 1) <=> (d > l \/ d = l)
  BY <1>1
<1>4. \A d \in S : d > l
  BY DEF Saying
<1>5. S1 = S \cup IF l \in Above(f) /\ Deciding(f, l, category) # {} THEN {l} ELSE {}
  <2>1. \A d : d \in S1 <=>
               (d \in S \/ (d = l /\ l \in Above(f) /\ Deciding(f, l, category) # {}))
    BY <1>2, <1>3 DEF Saying
  <2> HIDE DEF S, S1
  <2> QED
    BY <2>1
<1>6. ASSUME S1 = S PROVE Nearest(f, l - 1, category) = Nearest(f, l, category)
  BY <1>6 DEF Nearest
<1> HIDE DEF S, S1, N
<1>7. CASE ~(l \in Above(f) /\ Deciding(f, l, category) # {})
  <2>1. S1 = S
    BY <1>5, <1>7
  <2>2. S = {} => Nearest(f, l, category) = <<>>
    BY DEF Nearest, S
  <2> QED
    BY <1>6, <1>7, <2>1, <2>2 DEF S
<1>8. CASE l \in Above(f) /\ Deciding(f, l, category) # {}
  <2>1. S1 = S \cup {l}
    BY <1>5, <1>8
  <2>2. Deepest(S1) \in S1 /\ \A e \in S1 : e <= Deepest(S1)
    BY <1>1, <2>1, DeepestIs
  <2>3. Nearest(f, l - 1, category) =
          Config(f, Deepest(S1)).options[Highest(Deciding(f, Deepest(S1), category))].val
    BY <2>1, Zenon DEF Nearest, S1
  <2>4. CASE S = {}
    <3>1. Deepest(S1) = l
      BY <2>1, <2>2, <2>4
    <3> QED
      BY <1>8, <2>3, <2>4, <3>1, Zenon DEF S
  <2>5. CASE S # {}
    <3>1. Deepest(S) \in S /\ \A e \in S : e <= Deepest(S)
      BY <1>1, <2>5, DeepestIs
    <3>2. Nearest(f, l, category) =
            Config(f, Deepest(S)).options[Highest(Deciding(f, Deepest(S), category))].val
      BY <2>5, Zenon DEF Nearest, S
    <3>3. Deepest(S) <= Deepest(S1) /\ Deepest(S) > l
      BY <1>4, <2>1, <2>2, <3>1
    <3>4. Deepest(S1) \in 0 .. N /\ Deepest(S) \in 0 .. N
      BY <1>1, <2>2, <3>1
    <3>5. Deepest(S1) # l
      BY <1>1, <3>3, <3>4
    <3>6. Deepest(S1) \in S /\ Deepest(S1) <= Deepest(S)
      BY <2>1, <2>2, <3>1, <3>5
    <3>7. Deepest(S1) = Deepest(S)
      BY <1>1, <3>3, <3>4, <3>6
    <3> QED
      BY <1>8, <2>3, <2>5, <3>2, <3>7, Zenon DEF S
  <2> QED
    BY <2>4, <2>5
<1> QED
  BY <1>7, <1>8

\* The directories above the one where the walk is are all there are when it is
\* over, because it went to the root or because one of them stopped it.
LEMMA WalkIsOver ==
  ASSUME world \in Worlds, NEW f \in DOMAIN world.files,
         NEW l \in -1 .. Len(world.files[f].dir), NEW category,
         \/ l < 0
         \/ \E d \in (l + 1) .. Len(world.files[f].dir) : Stops(f, d)
  PROVE  /\ Saying(f, l, category) = Saying(f, -1, category)
         /\ Nearest(f, l, category) = Nearest(f, -1, category)
<1> DEFINE N == Len(world.files[f].dir)
<1>1. N \in Nat
  BY SayingIs
<1>2. ASSUME NEW d \in Above(f) PROVE d > l
  <2>1. d \in 0 .. N /\ \A e \in (d + 1) .. N : ~Stops(f, e)
    BY DEF Above
  <2>2. CASE l < 0
    BY <1>1, <2>1, <2>2
  <2>3. CASE \E e \in (l + 1) .. N : Stops(f, e)
    <3>1. PICK e \in (l + 1) .. N : Stops(f, e)
      BY <2>3
    <3>2. ~(e \in (d + 1) .. N)
      BY <2>1, <3>1
    <3> QED
      BY <1>1, <2>1, <3>1, <3>2
  <2> QED
    BY <2>2, <2>3
<1>3. \A d \in Above(f) : d > -1
  BY DEF Above
<1>4. Saying(f, l, category) = Saying(f, -1, category)
  BY <1>2, <1>3 DEF Saying
<1>5. Nearest(f, l, category) = Nearest(f, -1, category)
  BY <1>4 DEF Nearest
<1> QED
  BY <1>4, <1>5
\* The command line, then what the walk found, in the order in which they are
\* added, are what the nearest directory says.
LEMMA ApplyDecides ==
  ASSUME world \in Worlds, AtWork, BackupKept, WalkKept, ApplyFilters, NEW category \in Categories
  PROVE  Filtered(AddAll(cfg_filters), category) <=> Off(filename, category)
<1>1. pc = "config" /\ (level < 0 \/ ~keep_looking)
  BY DEF ApplyFilters
<1>2. /\ level \in -1 .. Len(file.dir) /\ cfg_filters \in Seq(Filters)
      /\ keep_looking = \A d \in (level + 1) .. Len(file.dir) : ~Stops(filename, d)
      /\ First(cfg_filters, category) = Nearest(filename, level, category)
      /\ filters = DefaultFilters \o args.filters
  BY <1>1 DEF WalkKept, BackupKept, Given
<1>3. filename \in DOMAIN world.files
  BY <1>1, FileAtWork
<1> DEFINE T == [sign : STRING, of : Seq(STRING)]
           X == T \cup {[sign |-> "-", of |-> <<"build", "include", "_alpha">>]}
<1>4. /\ DefaultFilters \in Seq(X) /\ args.filters \in Seq(X)
      /\ cfg_filters \in Seq(Seq(X))
  <2>1. DefaultFilters \in Seq(X)
    BY DEF DefaultFilters
  <2>2. args.filters \in Seq(T) /\ cfg_filters \in Seq(Seq(T))
    BY <1>2, WorldFacts DEF Filters
  <2>3. T \subseteq X
    OBVIOUS
  <2> HIDE DEF T, X
  <2>4. Seq(T) \subseteq Seq(X)
    BY <2>3, SeqMonotonic
  <2> QED
    BY <2>1, <2>2, <2>4, SeqMonotonic
<1> HIDE DEF X
<1>5. /\ filters \in Seq(X)
      /\ Filtered(filters, category) =
           IF About(args.filters, category) THEN Filtered(args.filters, category)
           ELSE Filtered(DefaultFilters, category)
  BY <1>2, <1>4, ConcatProperties, ConcatFiltered
<1>6. Filtered(AddAll(cfg_filters), category) =
        IF Says(cfg_filters, category) THEN Filtered(First(cfg_filters, category), category)
        ELSE Filtered(filters, category)
  BY <1>4, <1>5, AddAllDecides
<1>7. /\ Saying(filename, level, category) = Saying(filename, -1, category)
      /\ Nearest(filename, level, category) = Nearest(filename, -1, category)
  BY <1>1, <1>2, <1>3, WalkIsOver DEF file
<1>8. Says(cfg_filters, category) <=> Saying(filename, -1, category) # {}
  <2>1. Says(cfg_filters, category) <=> About(First(cfg_filters, category), category)
    BY <1>2, SaysFirst
  <2>2. Saying(filename, level, category) # {} <=> About(Nearest(filename, level, category), category)
    BY <1>3, SayingIs
  <2> QED
    BY <1>2, <1>7, <2>1, <2>2
<1> QED
  BY <1>2, <1>5, <1>6, <1>7, <1>8 DEF Off

\* What is left of WalkKept to show for a step within the walk.
LEMMA WalkStep ==
  ASSUME world \in Worlds, TypeOK, AtWork, BackupKept, WalkKept, [Next]_vars
  PROVE  WalkKept'
<1>1. CASE ParseArguments \/ EndOfFile \/ Exit
  <2>1. pc' \notin {"config", "open", "lint"}
    BY <1>1 DEF ParseArguments, Raise, EndOfFile, NextFile, Exit
  <2> QED
    BY <2>1 DEF WalkKept
<1>2. CASE ProcessFile
  <2>1. /\ pc = "next" /\ filenames # <<>> /\ pc' = "config" /\ level' = Len(file.dir)
        /\ keep_looking' = TRUE /\ cfg_filters' = <<>> /\ UNCHANGED <<world, filenames>>
    BY <1>2 DEF ProcessFile
  <2>2. filename \in DOMAIN world.files
    BY <2>1, HeadTailProperties DEF AtWork, filename
  <2>3. Len(file.dir) \in Nat
    BY <2>2, SayingIs DEF file
  <2>4. level' \in -1 .. Len(file.dir) /\ (level' + 1) .. Len(file.dir) = {}
    BY <2>1, <2>3
  <2>5. cfg_filters' \in Seq(Filters)
    BY <2>1, EmptySeq
  <2>6. ASSUME NEW category \in Categories
        PROVE  First(cfg_filters', category) = Nearest(filename, level', category)
    <3>1. First(cfg_filters', category) = <<>>
      BY <2>1 DEF First
    <3>2. Saying(filename, level', category) = {}
      <4>1. \A d \in 0 .. Len(file.dir) : ~(d > level')
        BY <2>1, <2>3
      <4> QED
        BY <4>1 DEF Saying, Above, file
    <3> QED
      BY <3>1, <3>2 DEF Nearest
  <2> QED
    BY <2>1, <2>4, <2>5, <2>6, SameWorld DEF WalkKept
<1>3. ASSUME SkipConfig \/ ReadConfig
      PROVE  /\ pc = "config" /\ keep_looking /\ level \in 0 .. Len(file.dir)
             /\ level' = level - 1 /\ world' = world
             /\ filename \in DOMAIN world.files /\ Len(file.dir) \in Nat
             /\ level' \in -1 .. Len(file.dir)
             /\ Path(filename) = SubSeq(file.dir, 1, level)
             /\ \A d \in (level + 1) .. Len(file.dir) : ~Stops(filename, d)
             /\ \A d : d \in (level' + 1) .. Len(file.dir)
                       <=> (d = level \/ d \in (level + 1) .. Len(file.dir))
  <2>1. pc = "config" /\ keep_looking /\ level >= 0 /\ level' = level - 1 /\ world' = world
    BY <1>3 DEF SkipConfig, ReadConfig
  <2>2. /\ level \in -1 .. Len(file.dir)
        /\ keep_looking = \A d \in (level + 1) .. Len(file.dir) : ~Stops(filename, d)
    BY <2>1 DEF WalkKept
  <2>3. filename \in DOMAIN world.files /\ Len(file.dir) \in Nat
    BY <2>1, FileAtWork
  <2>4. level \in 0 .. Len(file.dir) /\ level' + 1 = level /\ level' \in -1 .. Len(file.dir)
    BY <2>1, <2>2, <2>3
  <2>5. \A d : d \in level .. Len(file.dir) <=> (d = level \/ d \in (level + 1) .. Len(file.dir))
    BY <2>3, <2>4
  <2> QED
    BY <2>1, <2>2, <2>3, <2>4, <2>5 DEF Path, file
<1>4. CASE SkipConfig
  <2>1. /\ Has(filename, level) => ~Config(filename, level).readable
        /\ keep_looking' = ~Has(filename, level)
        /\ UNCHANGED <<pc, filenames, cfg_filters>>
    BY <1>3, <1>4 DEF SkipConfig, Has, Config, file, Path
  <2>2. ~Stops(filename, level) <=> ~Has(filename, level)
    BY <2>1 DEF Stops
  <2>3. keep_looking' = \A d \in (level' + 1) .. Len(file.dir) : ~Stops(filename, d)
    BY <1>3, <1>4, <2>1, <2>2
  <2>4. level \notin Above(filename)
    BY <2>1 DEF Above
  <2>5. cfg_filters' \in Seq(Filters)
    BY <1>3, <1>4, <2>1 DEF WalkKept
  <2>6. ASSUME NEW category \in Categories
        PROVE  First(cfg_filters', category) = Nearest(filename, level', category)
    <3>1. First(cfg_filters, category) = Nearest(filename, level, category)
      BY <1>3, <1>4 DEF WalkKept
    <3>2. Nearest(filename, level - 1, category) = Nearest(filename, level, category)
      BY <1>3, <1>4, <2>4, LevelBelow DEF file
    <3> QED
      BY <1>3, <1>4, <2>1, <3>1, <3>2
  <2>7. pc' = "config"
    BY <1>3, <1>4, <2>1
  <2> QED
    BY <1>3, <1>4, <2>1, <2>3, <2>5, <2>6, <2>7, SameWorld DEF WalkKept
<1>5. CASE ReadConfig
  <2> DEFINE cfg == Config(filename, level)
             st == Options(cfg)
  <2>1. /\ Has(filename, level) /\ cfg.readable
        /\ keep_looking' = st.keep /\ cfg_filters' = st.filters
        /\ IF st.excluded THEN pc' = "next" ELSE UNCHANGED <<pc, filenames>>
    BY <1>3, <1>5 DEF ReadConfig, NextFile, Has, Config, file, Path
  <2>2. CASE st.excluded
    BY <2>1, <2>2 DEF WalkKept
  <2>3. CASE ~st.excluded
    <3>1. /\ OptionsTyped(cfg.options) /\ Len(cfg.options) \in Nat
          /\ DOMAIN cfg.options = 1 .. Len(cfg.options)
      BY <1>3, <1>5, <2>1, ConfigFacts
    <3>2. /\ keep_looking = TRUE /\ cfg_filters \in Seq(Filters)
          /\ \A category \in Categories :
               First(cfg_filters, category) = Nearest(filename, level, category)
      BY <1>3, <1>5 DEF WalkKept
    <3>3. ASSUME NEW category PROVE After(st, cfg.options, Len(cfg.options), category)
      BY <2>3, <3>1, <3>2, OptionsDo
    <3>4. level \in Above(filename)
      BY <1>3, <1>5, <2>1 DEF Above, file
    <3>5. Stops(filename, level) <=>
            \E k \in 1 .. Len(cfg.options) : cfg.options[k].name = "noparent"
      BY <2>1, <3>1 DEF Stops
    <3>6. st.keep = (keep_looking /\
                       \A k \in 1 .. Len(cfg.options) : cfg.options[k].name # "noparent")
      BY <3>3 DEF After
    <3>7. keep_looking' = \A d \in (level' + 1) .. Len(file.dir) : ~Stops(filename, d)
      <4> HIDE DEF st, cfg
      <4> QED
        BY <1>3, <1>5, <2>1, <3>2, <3>5, <3>6
    <3>8. cfg_filters' \in Seq(Filters)
      BY <2>1, <3>3 DEF After
    <3>9. ASSUME NEW category \in Categories
          PROVE  First(cfg_filters', category) = Nearest(filename, level', category)
      <4> DEFINE D == Deciding(filename, level, category)
      <4>1. D = FilterLines(cfg.options, Len(cfg.options), category)
        BY <1>3, <1>5, <2>1, DecidingIs
      <4>2. First(st.filters, category) =
              IF Says(cfg_filters, category) THEN First(cfg_filters, category)
              ELSE IF D = {} THEN <<>> ELSE cfg.options[Highest(D)].val
        <5> HIDE DEF D, st, cfg
        <5> QED
          BY <3>3, <4>1 DEF After
      <4>3. Says(cfg_filters, category) <=> About(First(cfg_filters, category), category)
        BY <3>2, SaysFirst
      <4>4. Saying(filename, level, category) # {} <=>
              About(Nearest(filename, level, category), category)
        BY <1>3, <1>5, SayingIs
      <4>5. First(cfg_filters, category) = Nearest(filename, level, category)
        BY <3>2
      <4>6. Nearest(filename, level - 1, category) =
              IF Saying(filename, level, category) # {} THEN Nearest(filename, level, category)
              ELSE IF D = {} THEN <<>> ELSE cfg.options[Highest(D)].val
        BY <1>3, <1>5, <3>4, LevelBelow DEF file
      <4> HIDE DEF D, cfg, st
      <4>7. First(st.filters, category) = Nearest(filename, level - 1, category)
        BY <4>2, <4>3, <4>4, <4>5, <4>6
      <4> QED
        BY <1>3, <1>5, <2>1, <4>7
    <3>10. pc' = "config" /\ UNCHANGED filenames
      BY <1>3, <1>5, <2>1, <2>3
    <3> QED
      BY <1>3, <1>5, <3>7, <3>8, <3>9, <3>10, SameWorld DEF WalkKept
  <2> QED
    BY <2>2, <2>3
<1>6. CASE ApplyFilters
  <2>1. /\ filters' = AddAll(cfg_filters) /\ pc' \in {"open", "raised"}
        /\ UNCHANGED <<world, filenames>>
    BY <1>6 DEF ApplyFilters, Raise
  <2>2. ASSUME NEW category \in Categories
        PROVE  Filtered(filters', category) <=> Off(filename, category)
    BY <1>6, <2>1, ApplyDecides
  <2> QED
    BY <2>1, <2>2, SameWorld DEF WalkKept
<1>7. CASE OpenFile \/ ProcessLine
  <2>1. /\ pc \in {"open", "lint"}
        /\ \/ pc' = "next"
           \/ pc' = "lint" /\ UNCHANGED <<world, filenames, filters>>
    BY <1>7 DEF OpenFile, ProcessLine, NextFile
  <2>2. CASE pc' = "next"
    BY <2>2 DEF WalkKept
  <2>3. CASE pc' = "lint" /\ UNCHANGED <<world, filenames, filters>>
    BY <2>1, <2>3, SameWorld DEF WalkKept
  <2> QED
    BY <2>1, <2>2, <2>3
<1>8. CASE UNCHANGED vars
  <2>1. UNCHANGED <<world, pc, filenames, filters, level, keep_looking, cfg_filters>>
    BY <1>8 DEF vars, walk
  <2> QED
    BY <2>1, SameWorld DEF WalkKept
<1> QED
  BY <1>1, <1>2, <1>4, <1>5, <1>6, <1>7, <1>8 DEF Next
------------------------------------------------------------------------------
\* What is silenced.

\* ProcessGlobalSuppressions, and the comments of the lines that were read.
LEMMA SuppressionsStep ==
  ASSUME world \in Worlds, TypeOK, AtWork, SuppressionsKept, [Next]_vars
  PROVE  SuppressionsKept'
<1>1. CASE OpenFile
  <2>1. CASE pc' = "next"
    BY <2>1 DEF SuppressionsKept
  <2>2. CASE pc' # "next"
    <3>1. /\ linenum' = 1 /\ suppressions' = {}
          /\ suppressed_categories' =
               (IF "c" \in file.marks THEN {<<"readability", "casting">>} ELSE {})
                 \cup (IF "kernel" \in file.marks THEN {<<"whitespace", "tab">>} ELSE {})
          /\ UNCHANGED <<world, filenames>>
      BY <1>1, <2>2 DEF OpenFile, NextFile, ProcessGlobalSuppressions
    <3>2. 1 .. linenum' - 1 = {}
      BY <3>1
    <3>3. file' = file
      BY <3>1 DEF file, filename
    <3> QED
      BY <3>1, <3>2, <3>3 DEF SuppressionsKept
  <2> QED
    BY <2>1, <2>2
<1>2. CASE ProcessLine
  <2>1. /\ pc = "lint" /\ linenum' = linenum + 1
        /\ UNCHANGED <<world, filenames, suppressed_categories>>
    BY <1>2 DEF ProcessLine
  <2>2. linenum \in Nat \ {0}
    BY <2>1 DEF AtWork
  <2>3. suppressions' = Supp(filename, linenum - 1) \cup
          UNION {ParseNolintSuppressions(c, linenum) : c \in file.lines[linenum].comments}
    BY <1>2, <2>1, LineIsReported DEF SuppressionsKept, Supp, file
  <2>4. \A m : m \in 1 .. linenum <=> (m = linenum \/ m \in 1 .. linenum - 1)
    BY <2>2
  <2>5. suppressions' = Supp(filename, linenum)
    BY <2>3, <2>4 DEF Supp, file
  <2>6. file' = file /\ filename' = filename /\ linenum' - 1 = linenum
    BY <2>1, <2>2 DEF file, filename
  <2> QED
    BY <2>1, <2>5, <2>6 DEF SuppressionsKept, Supp, file
<1>3. CASE UNCHANGED vars
  <2>1. UNCHANGED <<world, pc, filenames, linenum, suppressions, suppressed_categories>>
    BY <1>3 DEF vars, nolint
  <2>2. file' = file
    BY <2>1 DEF file, filename
  <2> QED
    BY <2>1, <2>2 DEF SuppressionsKept
<1>4. ASSUME ParseArguments \/ ProcessFile \/ SkipConfig \/ ReadConfig \/ ApplyFilters
             \/ EndOfFile \/ Exit
      PROVE  pc' # "lint"
  BY <1>4 DEF ParseArguments, ProcessFile, SkipConfig, ReadConfig, ApplyFilters, EndOfFile, Exit,
              NextFile, Raise
<1>5. CASE pc' # "lint"
  BY <1>5 DEF SuppressionsKept
<1> QED
  BY <1>1, <1>2, <1>3, <1>4, <1>5 DEF Next

\* A comment of one of the first N lines is about this one.
Commented(name, N, x, line) ==
  \E m \in 1 .. N : \E c \in world.files[name].lines[m].comments :
    c.of = x /\ line = m + (IF c.next THEN 1 ELSE 0)

LEMMA SuppIs ==
  ASSUME NEW name, NEW N, NEW x \in Categories \cup {All}, NEW line
  PROVE  <<x, line>> \in Supp(name, N) <=> Commented(name, N, x, line)
<1> DEFINE lines == world.files[name].lines
<1>1. <<x, line>> \in Supp(name, N) <=>
        \E m \in 1 .. N : \E c \in lines[m].comments : <<x, line>> \in ParseNolintSuppressions(c, m)
  BY DEF Supp
<1>2. ASSUME NEW c, NEW m
      PROVE  <<x, line>> \in ParseNolintSuppressions(c, m) <=>
               c.of = x /\ line = m + (IF c.next THEN 1 ELSE 0)
  BY DEF ParseNolintSuppressions
<1> HIDE DEF lines
<1>3. <<x, line>> \in Supp(name, N) <=>
        \E m \in 1 .. N : \E c \in lines[m].comments :
           c.of = x /\ line = m + (IF c.next THEN 1 ELSE 0)
  BY <1>1, <1>2
<1> QED
  BY <1>3 DEF lines, Commented

\* The comments that were read are all that may silence an error of a line: its
\* own, and those of the line before it.
LEMMA SilencedIs ==
  ASSUME world \in Worlds, NEW name \in DOMAIN world.files, NEW N \in Nat,
         N <= Len(world.files[name].lines),
         NEW e \in ErrorType, e.line <= N \/ N = Len(world.files[name].lines),
         suppressed_categories =
           (IF "c" \in world.files[name].marks THEN {<<"readability", "casting">>} ELSE {})
             \cup (IF "kernel" \in world.files[name].marks THEN {<<"whitespace", "tab">>} ELSE {})
  PROVE  IsErrorSuppressedByNolint(Supp(name, N), e.category, e.line)
           <=> Silenced(world.files[name], e)
<1> DEFINE f == world.files[name]
<1>1. /\ f.lines \in Seq(LineType) /\ Len(f.lines) \in Nat /\ DOMAIN f.lines = 1 .. Len(f.lines)
      /\ \A m \in 1 .. Len(f.lines) : f.lines[m] \in LineType
  BY WorldFacts, LenProperties, ElementOfSeq
<1>2. \A m \in 1 .. Len(f.lines) : \A c \in f.lines[m].comments : c.next \in BOOLEAN
  BY <1>1 DEF LineType, Comments
<1>3. e.line \in Nat /\ e.category \in Categories
  BY DEF ErrorType
<1>4. ASSUME NEW x \in Categories \cup {All}
      PROVE  <<x, e.line>> \in Supp(name, N) <=>
               \E m \in 1 .. N : \E c \in f.lines[m].comments :
                 c.of = x /\ e.line = m + (IF c.next THEN 1 ELSE 0)
  <2>1. <<x, e.line>> \in Supp(name, N) <=> Commented(name, N, x, e.line)
    BY SuppIs
  <2> QED
    BY <2>1, Zenon DEF Commented
<1> HIDE DEF f
<1>5. ASSUME NEW m \in 1 .. N, NEW c \in f.lines[m].comments,
             e.line = m + (IF c.next THEN 1 ELSE 0)
      PROVE  /\ m \in {e.line, e.line - 1} \cap DOMAIN f.lines
             /\ c.next = (m # e.line)
  <2>1. m \in 1 .. Len(f.lines) /\ m \in Nat
    BY <1>1 DEF f
  <2>2. c.next \in BOOLEAN
    BY <1>2, <2>1
  <2>3. CASE c.next = TRUE
    <3>1. e.line = m + 1
      BY <1>5, <2>3
    <3>2. m # e.line /\ m = e.line - 1
      BY <1>3, <2>1, <3>1
    <3>3. (m # e.line) = TRUE
      BY <3>2
    <3> QED
      BY <1>1, <2>1, <2>3, <3>2, <3>3 DEF f
  <2>4. CASE c.next = FALSE
    <3>1. e.line = m + 0
      BY <1>5, <2>4
    <3>2. m = e.line
      BY <1>3, <2>1, <3>1
    <3>3. (m # e.line) = FALSE
      BY <3>2
    <3> QED
      BY <1>1, <2>1, <2>4, <3>2, <3>3 DEF f
  <2> QED
    BY <2>2, <2>3, <2>4
<1>6. ASSUME NEW m \in {e.line, e.line - 1} \cap DOMAIN f.lines, NEW c \in f.lines[m].comments,
             c.next = (m # e.line)
      PROVE  m \in 1 .. N /\ e.line = m + (IF c.next THEN 1 ELSE 0)
  <2>1. m \in 1 .. Len(f.lines) /\ m \in Nat /\ m <= e.line
    BY <1>1, <1>3
  <2>2. m \in 1 .. N
    BY <1>1, <1>3, <2>1 DEF f
  <2>3. CASE m = e.line
    <3>1. c.next = FALSE
      BY <1>6, <2>3
    <3>2. e.line = m + 0
      BY <2>1, <2>3
    <3> QED
      BY <2>2, <3>1, <3>2
  <2>4. CASE m # e.line
    <3>1. c.next = TRUE
      BY <1>6, <2>4
    <3>2. e.line = m + 1
      BY <1>3, <2>1, <2>4
    <3> QED
      BY <2>2, <3>1, <3>2
  <2> QED
    BY <2>3, <2>4
<1>7. (<<e.category, e.line>> \in Supp(name, N) \/ <<All, e.line>> \in Supp(name, N)) <=>
        \E m \in {e.line, e.line - 1} \cap DOMAIN f.lines : \E c \in f.lines[m].comments :
          c.next = (m # e.line) /\ c.of \in {All, e.category}
  <2>1. <<e.category, e.line>> \in Supp(name, N) <=>
          \E m \in 1 .. N : \E c \in f.lines[m].comments :
            c.of = e.category /\ e.line = m + (IF c.next THEN 1 ELSE 0)
    BY <1>3, <1>4
  <2>2. <<All, e.line>> \in Supp(name, N) <=>
          \E m \in 1 .. N : \E c \in f.lines[m].comments :
            c.of = All /\ e.line = m + (IF c.next THEN 1 ELSE 0)
    BY <1>4
  <2> QED
    BY <1>5, <1>6, <2>1, <2>2
<1>8. e.category \in suppressed_categories <=>
        \/ "c" \in f.marks /\ e.category = <<"readability", "casting">>
        \/ "kernel" \in f.marks /\ e.category = <<"whitespace", "tab">>
  BY DEF f
<1>9. IsErrorSuppressedByNolint(Supp(name, N), e.category, e.line) <=> Silenced(f, e)
  BY <1>7, <1>8 DEF IsErrorSuppressedByNolint, Silenced
<1> QED
  BY <1>9 DEF f
------------------------------------------------------------------------------
\* What is printed.

\* What Error asks is what the property asks.
LEMMA DeservedIs ==
  ASSUME world \in Worlds, AtWork, WalkKept, SuppressionsKept, pc = "lint", NEW N \in Nat,
         N <= Len(file.lines), NEW e \in ErrorType, e.line <= N \/ N = Len(file.lines)
  PROVE  ShouldPrintError(Supp(filename, N), e) <=>
           /\ e.confidence >= args.verbose
           /\ ~Silenced(file, e)
           /\ ~Off(filename, e.category)
<1>1. filename \in DOMAIN world.files /\ e.category \in Categories
  BY FileAtWork DEF ErrorType
<1>2. IsErrorSuppressedByNolint(Supp(filename, N), e.category, e.line) <=> Silenced(file, e)
  BY <1>1, SilencedIs DEF SuppressionsKept, file
<1>3. Filtered(filters, e.category) <=> Off(filename, e.category)
  BY <1>1 DEF WalkKept
<1>4. verbose_level = args.verbose
  BY DEF AtWork
<1> QED
  BY <1>2, <1>3, <1>4 DEF ShouldPrintError

\* Nothing moves in what a file deserves.
LEMMA SameDeserved ==
  ASSUME world' = world, NEW name
  PROVE  /\ (Deserved(name, Found(name)))' = Deserved(name, Found(name))
         /\ \A n : (Deserved(name, FoundIn(name, n)))' = Deserved(name, FoundIn(name, n))
<1>1. args' = args
  BY DEF args
<1>2. \A n : FoundIn(name, n)' = FoundIn(name, n)
  BY DEF FoundIn
<1>3. Found(name)' = Found(name)
  BY <1>2 DEF Found, FoundIn
<1> QED
  BY <1>1, <1>2, <1>3, SameFile DEF Deserved

\* What is printed of the file at work, and of others, when errors of it are
\* reported, those that are found and those about its length, and those that
\* should be are shown.
Reported(found, others) ==
  /\ \A e \in found : e.file = filename /\ e.category # LengthError.category
  /\ \A e \in others : e.file = filename /\ e.category = LengthError.category
Judged(found, supp) ==
  \A e \in found : ShouldPrintError(supp, e) <=>
                     /\ e.confidence >= args.verbose
                     /\ ~Silenced(file, e)
                     /\ ~Off(filename, e.category)
Shows(reported, supp) ==
  Range(shown') = Range(shown) \cup {e \in reported : ShouldPrintError(supp, e)}
PrintedMore(found) ==
  \A name : Printed(name)' =
    Printed(name) \cup IF name = filename THEN Deserved(filename, found) ELSE {}

LEMMA PrintedStep ==
  ASSUME NEW found, NEW others, NEW supp, Reported(found, others), Judged(found, supp),
         Shows(found \cup others, supp)
  PROVE  PrintedMore(found)
<1> USE DEF Reported, Judged, Shows, PrintedMore
<1>1. Deserved(filename, found) = {e \in found : ShouldPrintError(supp, e)}
  BY DEF Deserved, file
<1> DEFINE new == {e \in found \cup others : ShouldPrintError(supp, e)}
<1>2. LengthError' = LengthError
  BY DEF LengthError
<1>3. ASSUME NEW name
      PROVE  {e \in new : e.file = name /\ e.category # LengthError.category} =
               IF name = filename THEN Deserved(filename, found) ELSE {}
  BY <1>1
<1> HIDE DEF new
<1>4. ASSUME NEW name
      PROVE  Printed(name)' = Printed(name) \cup
               {e \in new : e.file = name /\ e.category # LengthError.category}
  BY <1>2 DEF Printed, new
<1> QED
  BY <1>3, <1>4

\* Error's sequence, as a set.
LEMMA ShownIs ==
  ASSUME NEW supp, NEW reports \in Seq(ErrorType), AtWork, CountsKept,
         shown' = Errors(supp, reports).shown
  PROVE  Shows(Range(reports), supp)
<1>1. Range(Errors(supp, reports).shown) = Range(shown) \cup Passing(supp, reports)
  BY ErrorsCount DEF AtWork, CountsKept
<1>2. Passing(supp, reports) = {e \in Range(reports) : ShouldPrintError(supp, e)}
  BY DEF Range, Passing
<1> QED
  BY <1>1, <1>2 DEF Shows

LEMMA LinePrints ==
  ASSUME world \in Worlds, AtWork, WalkKept, SuppressionsKept, CountsKept, ProcessLine
  PROVE  PrintedMore(FoundIn(filename, linenum))
<1> DEFINE n == linenum
           line == file.lines[n]
           found == FoundIn(filename, n)
           others == {At(filename, r, n) : r \in IF line.width > line_length THEN {LengthError} ELSE {}}
           es == ErrorsOf(filename, n)
<1>1. pc = "lint" /\ n <= Len(file.lines) /\ n \in 1 .. Len(file.lines) + 1
  BY DEF ProcessLine, AtWork
<1>2. /\ filename \in DOMAIN world.files /\ Len(file.lines) \in Nat
      /\ n \in Nat \ {0} /\ n - 1 \in Nat /\ line \in LineType
  BY <1>1, FileAtWork, ElementOfSeq
<1>3. es \in Seq(ErrorType) /\ Range(es) = {At(filename, r, n) : r \in Range(ReportsOf(filename, n))}
  BY <1>2, ErrorsTyped DEF file
<1>4. /\ Range(ReportsOf(filename, n)) =
           Range(line.reports) \cup (IF Unknown(line.comments) THEN {NolintError} ELSE {})
             \cup (IF line.width > line_length THEN {LengthError} ELSE {})
      /\ \A r \in Range(line.reports) : r \in ReportType /\ r.category # LengthError.category
  BY <1>2, ReportsTyped DEF file
<1>5. Range(es) = found \cup others
  BY <1>3, <1>4 DEF FoundIn, file
<1>6. \A e \in found : e.file = filename /\ e.line = n /\ e.category # LengthError.category
  BY <1>4, NamedErrors DEF FoundIn, At, file
<1>7. \A e \in others : e.file = filename /\ e.category = LengthError.category
  BY DEF At
<1>8. \A e \in Range(es) : e \in ErrorType
  BY <1>3, LenProperties, ElementOfSeq DEF Range
<1>9. suppressions' = Supp(filename, n)
  <2>1. suppressions' = Supp(filename, n - 1) \cup
          UNION {ParseNolintSuppressions(c, n) : c \in file.lines[n].comments}
    BY <1>1, LineIsReported DEF SuppressionsKept, Supp, file
  <2>2. \A m : m \in 1 .. n <=> (m = n \/ m \in 1 .. n - 1)
    BY <1>2
  <2> QED
    BY <2>1, <2>2 DEF Supp, file
<1>10. ASSUME NEW e \in found
       PROVE  ShouldPrintError(Supp(filename, n), e) <=>
                /\ e.confidence >= args.verbose
                /\ ~Silenced(file, e)
                /\ ~Off(filename, e.category)
  <2>1. e \in ErrorType /\ e.line <= n
    BY <1>2, <1>5, <1>6, <1>8
  <2> QED
    BY <1>1, <1>2, <2>1, DeservedIs
<1>11. shown' = Errors(Supp(filename, n), es).shown
  BY <1>9, LineIsReported
<1> HIDE DEF n, line, found, others, es
<1>12. Shows(found \cup others, Supp(filename, n))
  BY <1>3, <1>5, <1>11, ShownIs
<1>13. Reported(found, others)
  BY <1>6, <1>7 DEF Reported
<1>14. Judged(found, Supp(filename, n))
  BY <1>10 DEF Judged
<1>15. PrintedMore(found)
  BY <1>12, <1>13, <1>14, PrintedStep
<1> QED
  BY <1>15 DEF found, n

LEMMA EndPrints ==
  ASSUME world \in Worlds, AtWork, WalkKept, SuppressionsKept, CountsKept, EndOfFile
  PROVE  PrintedMore({At(filename, NewlineError, n) : n \in Range(Mixed(file))})
<1> DEFINE N == Len(file.lines)
           found == {At(filename, NewlineError, n) : n \in Range(Mixed(file))}
           es == MixedErrors(filename)
<1>1. pc = "lint" /\ linenum > N /\ linenum \in 1 .. N + 1
  BY DEF EndOfFile, AtWork
<1>2. filename \in DOMAIN world.files /\ N \in Nat
  BY <1>1, FileAtWork
<1>3. es \in Seq(ErrorType) /\ Range(es) = found
  BY <1>2, MixedTyped DEF file
<1>4. \A e \in found : e \in ErrorType
  <2> HIDE DEF es, found
  <2> QED
    BY <1>3, LenProperties, ElementOfSeq DEF Range
<1>5. \A e \in found : e.file = filename /\ e.category # LengthError.category
  BY NamedErrors DEF At
<1>6. linenum - 1 = N
  BY <1>1, <1>2
<1>7. suppressions = Supp(filename, N)
  BY <1>1, <1>6 DEF SuppressionsKept, Supp, file
<1>8. Judged(found, Supp(filename, N))
  <2> SUFFICES ASSUME NEW e \in found
               PROVE  ShouldPrintError(Supp(filename, N), e) <=>
                        /\ e.confidence >= args.verbose
                        /\ ~Silenced(file, e)
                        /\ ~Off(filename, e.category)
    BY DEF Judged
  <2>1. e \in ErrorType
    BY <1>4
  <2>2. N <= Len(file.lines)
    BY <1>2
  <2> QED
    BY <1>1, <1>2, <2>1, <2>2, DeservedIs
<1>9. shown' = Errors(Supp(filename, N), es).shown
  BY <1>7, EndIsReported
<1> HIDE DEF N, found, es
<1>10. Shows(found \cup {}, Supp(filename, N))
  <2>1. found \cup {} = found
    OBVIOUS
  <2> QED
    BY <1>3, <1>9, <2>1, ShownIs
<1>11. Reported(found, {})
  BY <1>5 DEF Reported
<1>12. PrintedMore(found)
  BY <1>8, <1>10, <1>11, PrintedStep
<1> QED
  BY <1>12 DEF found
\* What a file deserves of a line it deserves of the file.
LEMMA FoundInFile ==
  ASSUME NEW name
  PROVE  /\ \A n \in DOMAIN world.files[name].lines :
              Deserved(name, FoundIn(name, n)) \subseteq Deserved(name, Found(name))
         /\ Deserved(name, {At(name, NewlineError, n) : n \in Range(Mixed(world.files[name]))})
              \subseteq Deserved(name, Found(name))
<1> DEFINE mixed == {At(name, NewlineError, n) : n \in Range(Mixed(world.files[name]))}
           lines == UNION {FoundIn(name, n) : n \in DOMAIN world.files[name].lines}
<1>1. \A n \in DOMAIN world.files[name].lines : FoundIn(name, n) \subseteq Found(name)
  BY DEF Found
<1>2. mixed \subseteq Found(name)
  <2>1. Found(name) = lines \cup mixed
    BY Zenon DEF Found
  <2> HIDE DEF mixed, lines
  <2> QED
    BY <2>1
<1>3. \A S, U : S \subseteq U => Deserved(name, S) \subseteq Deserved(name, U)
  BY DEF Deserved
<1> QED
  BY <1>1, <1>2, <1>3

LEMMA ErrorsStep ==
  ASSUME world \in Worlds, TypeOK, AtWork, WalkKept, SuppressionsKept, CountsKept, ErrorsKept,
         [Next]_vars
  PROVE  ErrorsKept'
<1> world' = world
  BY WorldStays
<1>1. CASE ProcessLine
  <2>1. /\ pc = "lint" /\ linenum <= Len(file.lines) /\ linenum' = linenum + 1
        /\ UNCHANGED <<pc, filenames, linted>>
    BY <1>1 DEF ProcessLine
  <2>2. /\ linenum \in 1 .. Len(file.lines) /\ DOMAIN file.lines = 1 .. Len(file.lines)
        /\ linenum \in Nat
    BY <2>1, FileAtWork DEF AtWork
  <2>3. PrintedMore(FoundIn(filename, linenum))
    BY <1>1, LinePrints
  <2>4. \A name : Printed(name)' = Printed(name) \cup
          IF name = filename THEN Deserved(filename, FoundIn(filename, linenum)) ELSE {}
    BY <2>3 DEF PrintedMore
  <2>5. Deserved(filename, FoundIn(filename, linenum)) \subseteq Deserved(filename, Found(filename))
    BY <2>2, FoundInFile DEF file
  <2>6. ASSUME NEW name \in DOMAIN world.files
        PROVE  Printed(name)' \subseteq Deserved(name, Found(name))'
    <3>1. Printed(name) \subseteq Deserved(name, Found(name))
      BY DEF ErrorsKept
    <3> QED
      BY <2>4, <2>5, <3>1, SameDeserved
  <2>7. ASSUME NEW name \in linted
        PROVE  Deserved(name, Found(name))' \subseteq Printed(name)'
    <3>1. Deserved(name, Found(name)) \subseteq Printed(name)
      BY DEF ErrorsKept
    <3> QED
      BY <2>4, <3>1, SameDeserved
  <2>8. filename' = filename
    BY <2>1 DEF filename
  <2>9. ASSUME NEW n \in 1 .. linenum' - 1
        PROVE  Deserved(filename, FoundIn(filename, n)) \subseteq Printed(filename)'
    <3>1. n = linenum \/ n \in 1 .. linenum - 1
      BY <2>1, <2>2
    <3>2. n \in 1 .. linenum - 1 =>
            Deserved(filename, FoundIn(filename, n)) \subseteq Printed(filename)
      BY <2>1 DEF ErrorsKept
    <3>3. Printed(filename)' =
            Printed(filename) \cup Deserved(filename, FoundIn(filename, linenum))
      BY <2>4, <2>8
    <3> QED
      BY <3>1, <3>2, <3>3
  <2>10. \A n : (Deserved(filename, FoundIn(filename, n)))' = Deserved(filename, FoundIn(filename, n))
    BY <2>8, SameDeserved
  <2> QED
    BY <2>1, <2>6, <2>7, <2>9, <2>10 DEF ErrorsKept
<1>2. CASE EndOfFile
  <2> DEFINE found == {At(filename, NewlineError, n) : n \in Range(Mixed(file))}
  <2>1. /\ pc = "lint" /\ linenum > Len(file.lines) /\ pc' = "next"
        /\ linted' = linted \cup {filename}
    BY <1>2 DEF EndOfFile, NextFile
  <2>2. /\ linenum - 1 = Len(file.lines) /\ DOMAIN file.lines = 1 .. Len(file.lines)
    BY <2>1, FileAtWork DEF AtWork
  <2>3. PrintedMore(found)
    BY <1>2, EndPrints
  <2>4. \A name : Printed(name)' = Printed(name) \cup
          IF name = filename THEN Deserved(filename, found) ELSE {}
    BY <2>3 DEF PrintedMore
  <2>5. Deserved(filename, found) \subseteq Deserved(filename, Found(filename))
    BY FoundInFile DEF file
  <2>6. \A n \in DOMAIN file.lines :
          Deserved(filename, FoundIn(filename, n)) \subseteq Printed(filename)
    BY <2>1, <2>2 DEF ErrorsKept
  <2>7. \A e \in Deserved(filename, Found(filename)) :
          \/ e \in Deserved(filename, found)
          \/ \E n \in DOMAIN file.lines : e \in Deserved(filename, FoundIn(filename, n))
    <3> DEFINE lines == UNION {FoundIn(filename, n) : n \in DOMAIN file.lines}
    <3>1. Found(filename) = lines \cup found
      BY Zenon DEF Found, file
    <3>2. \A e \in lines : \E n \in DOMAIN file.lines : e \in FoundIn(filename, n)
      OBVIOUS
    <3> HIDE DEF lines, found
    <3> QED
      BY <3>1, <3>2 DEF Deserved
  <2> HIDE DEF found
  <2>8. ASSUME NEW name \in DOMAIN world.files
        PROVE  Printed(name)' \subseteq Deserved(name, Found(name))'
    <3>1. Printed(name) \subseteq Deserved(name, Found(name))
      BY DEF ErrorsKept
    <3> QED
      BY <2>4, <2>5, <3>1, SameDeserved
  <2>9. ASSUME NEW name \in linted \cup {filename}
        PROVE  Deserved(name, Found(name))' \subseteq Printed(name)'
    <3>1. Deserved(name, Found(name)) \subseteq Printed(name)'
      <4>1. CASE name = filename
        BY <2>4, <2>6, <2>7, <4>1
      <4>2. CASE name \in linted
        <5>1. Deserved(name, Found(name)) \subseteq Printed(name)
          BY <4>2 DEF ErrorsKept
        <5> QED
          BY <2>4, <5>1
      <4> QED
        BY <4>1, <4>2
    <3> QED
      BY <3>1, SameDeserved
  <2> QED
    BY <2>1, <2>8, <2>9 DEF ErrorsKept
<1>3. ASSUME UNCHANGED <<shown, linted>>,
             pc' = "lint" => 1 .. linenum' - 1 = {} \/ UNCHANGED <<pc, filenames, linenum>>
      PROVE  ErrorsKept'
  <2>1. \A name : Printed(name)' = Printed(name)
    BY <1>3 DEF Printed, LengthError
  <2>2. \A name \in DOMAIN world.files : Printed(name)' \subseteq Deserved(name, Found(name))'
    BY <2>1, SameDeserved DEF ErrorsKept
  <2>3. \A name \in linted : Deserved(name, Found(name))' \subseteq Printed(name)'
    BY <2>1, SameDeserved DEF ErrorsKept
  <2>4. ASSUME pc' = "lint", NEW n \in 1 .. linenum' - 1
        PROVE  (Deserved(filename, FoundIn(filename, n)))' \subseteq Printed(filename)'
    <3>1. UNCHANGED <<pc, filenames, linenum>>
      BY <1>3, <2>4
    <3>2. filename' = filename
      BY <3>1 DEF filename
    <3>3. Deserved(filename, FoundIn(filename, n)) \subseteq Printed(filename)
      BY <2>4, <3>1 DEF ErrorsKept
    <3> QED
      BY <2>1, <3>2, <3>3, SameDeserved
  <2> QED
    BY <1>3, <2>2, <2>3, <2>4 DEF ErrorsKept
<1>4. CASE OpenFile
  <2>1. /\ UNCHANGED <<shown, linted>>
        /\ pc' = "next" \/ linenum' = 1
    BY <1>4 DEF OpenFile, NextFile, counts
  <2>2. linenum' = 1 => 1 .. linenum' - 1 = {}
    OBVIOUS
  <2> QED
    BY <1>3, <2>1, <2>2
<1>5. CASE ParseArguments \/ ProcessFile \/ SkipConfig \/ ReadConfig \/ ApplyFilters \/ Exit
  <2>1. UNCHANGED <<shown, linted>> /\ pc' # "lint"
    BY <1>5 DEF ParseArguments, ProcessFile, SkipConfig, ReadConfig, ApplyFilters, Exit,
                NextFile, Raise, counts
  <2> QED
    BY <1>3, <2>1
<1>6. CASE UNCHANGED vars
  <2>1. UNCHANGED <<shown, linted, pc, filenames, linenum>>
    BY <1>6 DEF vars, counts
  <2> QED
    BY <1>3, <2>1
<1> QED
  BY <1>1, <1>2, <1>4, <1>5, <1>6 DEF Next

------------------------------------------------------------------------------
\* The theorems.

LEMMA InitLintInv == Init => world \in Worlds /\ LintInv
<1> SUFFICES ASSUME Init PROVE world \in Worlds /\ LintInv
  OBVIOUS
<1>1. /\ world \in Worlds /\ pc = "args" /\ exit_status = 0
      /\ shown = <<>> /\ linted = {} /\ error_count = 0 /\ errors_by_category = <<>>
      /\ filenames = <<>>
  BY DEF Init
<1>2. TypeOK /\ BackupKept /\ WalkKept /\ SuppressionsKept
  BY <1>1 DEF TypeOK, BackupKept, FiltersRestored, WalkKept, SuppressionsKept
<1>3. AtWork
  BY <1>1, EmptySeq DEF AtWork
<1>4. ErrorsKept
  BY <1>1 DEF ErrorsKept, Printed, Range
<1>5. CountsKept
  <2>1. Len(shown) = 0
    BY <1>1
  <2> QED
    BY <1>1, <2>1, NothingCounted DEF CountsKept
<1> QED
  BY <1>1, <1>2, <1>3, <1>4, <1>5 DEF LintInv

LEMMA NextLintInv == world \in Worlds /\ LintInv /\ [Next]_vars => (world \in Worlds /\ LintInv)'
<1> SUFFICES ASSUME world \in Worlds, LintInv, [Next]_vars
             PROVE  (world \in Worlds /\ LintInv)'
  OBVIOUS
<1>1. TypeOK /\ AtWork /\ BackupKept /\ WalkKept /\ SuppressionsKept /\ ErrorsKept /\ CountsKept
  BY DEF LintInv
<1>2. TypeOK' /\ BackupKept'
  BY <1>1, BackupStep
<1>3. AtWork' /\ CountsKept'
  BY <1>1, AtWorkStep, CountsStep
<1>4. WalkKept'
  BY <1>1, WalkStep
<1>5. SuppressionsKept'
  BY <1>1, SuppressionsStep
<1>6. ErrorsKept'
  BY <1>1, ErrorsStep
<1>7. (world \in Worlds)'
  BY WorldStays
<1> QED
  BY <1>2, <1>3, <1>4, <1>5, <1>6, <1>7 DEF LintInv

\* The inductive invariant of cpplint's driver, for every source tree and
\* command line: while a file is at work the backup holds the filters of the
\* command line, the walk knows what the directories say, the suppressions are
\* those of the lines that were read, and what is printed and counted agree.
THEOREM LintInvariant == Spec => []LintInv
<1>1. Init => world \in Worlds /\ LintInv
  BY InitLintInv
<1>2. world \in Worlds /\ LintInv /\ [Next]_vars => (world \in Worlds /\ LintInv)'
  BY NextLintInv
<1> QED
  BY <1>1, <1>2, PTL DEF Spec

\* No file is linted under the filters another one's CPPLINT.cfg added, and the
\* next one starts with those of the command line.
THEOREM FiltersAreRestored == Spec => []FiltersRestored
<1>1. LintInv => FiltersRestored
  BY DEF LintInv, BackupKept
<1> QED
  BY <1>1, LintInvariant, PTL

\* What is printed of a file that was linted is what its checks find, less what
\* its own comments silence, what is not confident enough and what the nearest
\* CPPLINT.cfg turns off, whatever was linted before it.
THEOREM NearestDecides == Spec => []NearestConfigDecides
<1>1. LintInv => NearestConfigDecides
  <2> SUFFICES ASSUME LintInv, NEW name \in linted
               PROVE  Printed(name) = Deserved(name, Found(name))
    BY DEF NearestConfigDecides
  <2>1. name \in DOMAIN world.files
    BY DEF LintInv, AtWork
  <2> QED
    BY <2>1 DEF LintInv, ErrorsKept
<1> QED
  BY <1>1, LintInvariant, PTL

\* The total, the counts of the categories and the exit status are about the
\* errors that were printed (Error, IncrementErrorCount, main).
THEOREM CountsAreOfThePrinted == Spec => []CountsAgree
<1>1. LintInv => CountsAgree
  <2> SUFFICES ASSUME LintInv PROVE CountsAgree
    OBVIOUS
  <2>1. CountsKept
    BY DEF LintInv
  <2>2. ASSUME Tallied,
               NEW key \in {Counted(e.category) : e \in Range(shown)} \cup DOMAIN errors_by_category
        PROVE  /\ key \in DOMAIN errors_by_category
               /\ errors_by_category[key] =
                    Cardinality({k \in DOMAIN shown : Counted(shown[k].category) = key})
    <3>1. errors_by_category =
            [c \in {Counted(shown[k].category) : k \in DOMAIN shown} |->
               Cardinality({k \in DOMAIN shown : Counted(shown[k].category) = c})]
      BY <2>1, <2>2 DEF CountsKept, CountsOf
    <3>2. {Counted(e.category) : e \in Range(shown)} = {Counted(shown[k].category) : k \in DOMAIN shown}
      BY DEF Range
    <3> QED
      BY <2>2, <3>1, <3>2
  <2> QED
    BY <2>1, <2>2 DEF CountsAgree, CountsKept, Tallied
<1> QED
  BY <1>1, LintInvariant, PTL
==============================================================================
