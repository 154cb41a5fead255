-------------------------- MODULE ClangTidyProofs --------------------------
(***************************************************************************)
(* Proofs about ClangTidy, for every number of threads and of entries.     *)
(***************************************************************************)
EXTENDS ClangTidy, FiniteSetTheorems, TLAPS

\* The threads with a task are finitely many, and one more or one less counts.
LEMMA BusyFinite == IsFiniteSet(Busy) /\ Cardinality(Busy) \in Nat
<1>1. Busy \subseteq Workers
  BY DEF Busy
<1> QED
  BY <1>1, TidyAssumption, FS_Subset, FS_CardinalityType

LEMMA MaxTaskType == MaxTask \in Nat
BY TidyAssumption, FS_CardinalityType DEF MaxTask

LEMMA BusyMore ==
  ASSUME NEW w \in Workers, at[w] = "get", at' = [at EXCEPT ![w] = "prepare"],
         at \in [Workers -> {"get", "prepare", "tidy", "print", "dead"}]
  PROVE  Busy' = Busy \cup {w} /\ Cardinality(Busy') = Cardinality(Busy) + 1
<1>1. Busy' = Busy \cup {w} /\ w \notin Busy
  BY DEF Busy
<1> QED
  BY <1>1, BusyFinite, FS_AddElement

LEMMA BusyLess ==
  ASSUME NEW w \in Workers, at[w] # "get", at' = [at EXCEPT ![w] = "get"],
         at \in [Workers -> {"get", "prepare", "tidy", "print", "dead"}]
  PROVE  /\ Busy' = Busy \ {w}
         /\ Cardinality(Busy') = Cardinality(Busy) - 1
         /\ Cardinality(Busy) > 0
<1>1. Busy' = Busy \ {w} /\ w \in Busy
  BY DEF Busy
<1>2. Cardinality(Busy') = Cardinality(Busy) - 1
  BY <1>1, BusyFinite, FS_RemoveElement
<1>3. IsFiniteSet(Busy') /\ Cardinality(Busy') \in Nat
  BY <1>1, BusyFinite, FS_Subset, FS_CardinalityType
<1> QED
  BY <1>1, <1>2, <1>3, BusyFinite

LEMMA BusySame ==
  ASSUME NEW w \in Workers, at[w] # "get", NEW s, s # "get", at' = [at EXCEPT ![w] = s],
         at \in [Workers -> {"get", "prepare", "tidy", "print", "dead"}]
  PROVE  Busy' = Busy
BY DEF Busy

------------------------------------------------------------------------------
LEMMA InitTidyInv == Init => TidyInv
<1> SUFFICES ASSUME Init PROVE TidyInv
  OBVIOUS
<1>1. Busy = {} /\ Cardinality(Busy) = 0
  BY FS_EmptySet DEF Init, Busy
<1>2. TypeOK
  <2>1. queue \in Seq(Index) /\ Len(queue) <= MaxTask
    BY MaxTaskType DEF Init
  <2>2. i \in 1 .. (Entries + 1)
    BY TidyAssumption DEF Init
  <2>3. name \in [Workers -> Index \cup {0}]
    BY DEF Init
  <2> QED
    BY <2>1, <2>2, <2>3 DEF Init, TypeOK
<1>3. TasksCounted
  BY <1>1 DEF Init, TasksCounted
<1>4. EntriesKept /\ FailuresListed /\ StatusTellsFailures
  BY DEF Init, EntriesKept, FailuresListed, StatusTellsFailures
<1> QED
  BY <1>1, <1>2, <1>3, <1>4 DEF TidyInv, Init

\* main's own steps, which leave the threads alone.
LEMMA MainTidyInv == TidyInv /\ (Main \/ KeyboardInterrupt \/ RmtreeFails) => TidyInv'
<1> SUFFICES ASSUME TidyInv, Main \/ KeyboardInterrupt \/ RmtreeFails PROVE TidyInv'
  OBVIOUS
<1> USE DEF TidyInv
<1> DEFINE Quiet == UNCHANGED <<world, i, tasks, threads>>
<1>1. ASSUME Quiet
      PROVE  /\ Busy' = Busy /\ TasksCounted' /\ EntriesKept' /\ FailuresListed'
             /\ \A e \in failed_files' : kind'[e] = "failing"
             /\ \A w \in Busy' : name'[w] \in Index
             /\ \A w \in Workers : at'[w] = "print" /\ kind'[name'[w]] = "failing"
                                     => name'[w] \in failed_files'
             /\ \A k \in DOMAIN queue' : Matches(queue[k])'
  BY <1>1 DEF world, tasks, threads, Busy, TasksCounted, EntriesKept, FailuresListed, Matches
<1>2. CASE SetupFails \/ Setup \/ KeyboardInterrupt \/ RmtreeFails \/ kill
  <2>1. Quiet
    BY <1>2 DEF SetupFails, Setup, KeyboardInterrupt, RmtreeFails, kill, tasks, world
  <2>2. TypeOK'
    BY <1>2, <2>1 DEF TypeOK, SetupFails, Setup, KeyboardInterrupt, RmtreeFails, kill, Removed,
                      world, tasks, threads
  <2>3. StatusTellsFailures' /\ (pc' \in {"setup", "fill", "killing"} => return_code' = 0 /\ ~caught')
    BY <1>2 DEF SetupFails, Setup, KeyboardInterrupt, RmtreeFails, kill, StatusTellsFailures
  <2> QED
    BY <1>1, <2>1, <2>2, <2>3
<1>3. CASE merge_replacement_files \/ apply_fixes \/ exit
  <2>1. Quiet
    BY <1>3 DEF merge_replacement_files, apply_fixes, exit
  <2>2. TypeOK'
    BY <1>3, <2>1 DEF TypeOK, merge_replacement_files, apply_fixes, exit, Removed,
                      world, tasks, threads
  <2>3. StatusTellsFailures' /\ pc' \notin {"setup", "fill", "killing"}
    BY <1>3 DEF merge_replacement_files, apply_fixes, exit, StatusTellsFailures, world, tasks
  <2> QED
    BY <1>1, <2>1, <2>2, <2>3
<1>4. CASE join
  <2>1. Quiet
    BY <1>4 DEF join
  <2>2. TypeOK'
    BY <1>4, <2>1 DEF TypeOK, join, world, tasks, threads
  <2>3. Len(queue) = 0 /\ Busy = {}
    <3>1. Len(queue) \in Nat /\ Cardinality(Busy) \in Nat
      BY BusyFinite DEF TypeOK
    <3>2. Len(queue) = 0 /\ Cardinality(Busy) = 0
      BY <1>4, <3>1 DEF join, TasksCounted
    <3> QED
      BY <3>2, BusyFinite, FS_EmptySet
  <2>4. \A e \in Index : e \in finished
    BY <1>4, <2>3, TidyAssumption DEF join, EntriesKept, TypeOK, Index
  <2>5. failed_files # {} <=> \E e \in Index : kind[e] = "failing"
    BY <2>4 DEF FailuresListed, TypeOK
  <2>6. StatusTellsFailures' /\ pc' = "export"
    BY <1>4, <2>4, <2>5 DEF join, StatusTellsFailures, world, tasks, TypeOK
  <2> QED
    BY <1>1, <2>1, <2>2, <2>6
<1>5. CASE FillQueue
  <2>1. i \in Index /\ Len(queue) \in Nat /\ queue \in Seq(Index)
    BY <1>5, TidyAssumption DEF FillQueue, TypeOK, Index
  <2>2. queue' \in Seq(Index) /\ Len(queue') = Len(queue) + 1 /\ queue'[Len(queue) + 1] = i
        /\ \A k \in DOMAIN queue : queue'[k] = queue[k]
        /\ DOMAIN queue' = 1 .. (Len(queue) + 1) /\ DOMAIN queue = 1 .. Len(queue)
    BY <1>5, <2>1 DEF FillQueue
  <2>4. TypeOK'
    BY <1>5, <2>1, <2>2, MaxTaskType, TidyAssumption DEF FillQueue, TypeOK, Index, world, threads, MaxTask
  <2>5. Busy' = Busy /\ TasksCounted'
    BY <1>5, <2>2, BusyFinite, <2>1 DEF FillQueue, Busy, TasksCounted, threads, TypeOK
  <2>6. EntriesKept'
    <3> SUFFICES ASSUME NEW e \in 1 .. i
                 PROVE  \/ \E k \in DOMAIN queue' : queue'[k] = e
                        \/ \E w \in Busy' : name'[w] = e
                        \/ e \in finished'
      BY <1>5, <2>1 DEF FillQueue, EntriesKept, Index
    <3>1. CASE e = i
      BY <3>1, <2>2, <2>1
    <3>2. CASE e # i
      <4>1. e \in 1 .. (i - 1)
        BY <3>2, <2>1 DEF Index
      <4>2. CASE \E k \in DOMAIN queue : queue[k] = e
        BY <4>2, <2>2, <2>1
      <4>3. CASE (\E w \in Busy : name[w] = e) \/ e \in finished
        BY <4>3, <2>5, <1>5 DEF FillQueue, threads
      <4> QED
        BY <4>1, <4>2, <4>3 DEF EntriesKept
    <3> QED
      BY <3>1, <3>2
  <2>7. \A k \in DOMAIN queue' : Matches(queue[k])'
    BY <1>5, <2>1, <2>2 DEF FillQueue, Matches, world
  <2>8. FailuresListed' /\ StatusTellsFailures'
    BY <1>5 DEF FillQueue, FailuresListed, StatusTellsFailures, world
  <2> QED
    BY <1>5, <2>4, <2>5, <2>6, <2>7, <2>8 DEF FillQueue, world, threads
<1> QED
  BY <1>2, <1>3, <1>4, <1>5 DEF Main

------------------------------------------------------------------------------
\* The threads' steps, which leave main alone.

LEMMA GetTidyInv == ASSUME TidyInv, NEW w \in Workers, Get(w) PROVE TidyInv'
<1> USE DEF TidyInv, Get
<1>1. /\ queue \in Seq(Index) /\ Len(queue) \in Nat /\ Len(queue) > 0 /\ Head(queue) = queue[1]
      /\ queue' \in Seq(Index) /\ Len(queue') = Len(queue) - 1
      /\ DOMAIN queue = 1 .. Len(queue) /\ DOMAIN queue' = 1 .. Len(queue')
      /\ \A k \in DOMAIN queue' : queue'[k] = queue[k + 1]
  BY DEF TypeOK
<1>2. Busy' = Busy \cup {w} /\ Cardinality(Busy') = Cardinality(Busy) + 1 /\ w \notin Busy
  BY BusyMore DEF TypeOK, Busy
<1>3. queue[1] \in Index /\ name'[w] = queue[1] /\ \A v \in Workers \ {w} : name'[v] = name[v]
  BY <1>1 DEF TypeOK
<1>4. TypeOK'
  BY <1>1, <1>3, MaxTaskType DEF TypeOK, world, main, MaxTask
<1>5. TasksCounted'
  BY <1>1, <1>2, BusyFinite DEF TasksCounted
<1>6. EntriesKept'
  <2> SUFFICES ASSUME NEW e \in 1 .. (i - 1)
               PROVE  \/ \E k \in DOMAIN queue' : queue'[k] = e
                      \/ \E v \in Busy' : name'[v] = e
                      \/ e \in finished'
    BY DEF EntriesKept, main
  <2>1. CASE \E k \in DOMAIN queue : queue[k] = e
    <3>1. PICK k \in DOMAIN queue : queue[k] = e
      BY <2>1
    <3>2. CASE k = 1
      BY <3>1, <3>2, <1>2, <1>3
    <3>3. CASE k # 1
      <4>1. k - 1 \in DOMAIN queue' /\ queue'[k - 1] = e
        BY <3>1, <3>3, <1>1
      <4> QED
        BY <4>1
    <3> QED
      BY <3>2, <3>3
  <2>2. CASE \E v \in Busy : name[v] = e
    BY <2>2, <1>2, <1>3 DEF Busy
  <2>3. CASE e \in finished
    BY <2>3
  <2> QED
    BY <2>1, <2>2, <2>3 DEF EntriesKept
<1>7. \A v \in Busy' : name'[v] \in Index
  BY <1>2, <1>3 DEF Busy
<1>8. \A v \in Workers : at'[v] = "print" /\ kind'[name'[v]] = "failing" => name'[v] \in failed_files'
  BY <1>3 DEF TypeOK, world
<1>9. \A k \in DOMAIN queue' : Matches(queue[k])'
  BY <1>1 DEF Matches, world
<1>10. FailuresListed' /\ StatusTellsFailures'
  BY DEF FailuresListed, StatusTellsFailures, world, main
<1> QED
  BY <1>4, <1>5, <1>6, <1>7, <1>8, <1>9, <1>10 DEF world, main

\* A task is done: by Prepare, of an entry that is skipped, or by PrintOutput.
LEMMA DoneTidyInv ==
  ASSUME TidyInv, NEW w \in Workers, at[w] # "get", task_done(w),
         kind[name[w]] = "failing" => name[w] \in failed_files,
         UNCHANGED <<world, main, queue, failed_files, name>>
  PROVE  TidyInv'
<1> USE DEF TidyInv, task_done
<1>1. /\ Busy' = Busy \ {w} /\ Cardinality(Busy') = Cardinality(Busy) - 1
      /\ Cardinality(Busy) > 0 /\ w \in Busy
  BY BusyLess DEF TypeOK, Busy
<1>2. name[w] \in Index
  BY <1>1
<1>3. TypeOK'
  BY <1>1, <1>2, BusyFinite DEF TypeOK, TasksCounted, world, main
<1>4. TasksCounted'
  BY <1>1, BusyFinite DEF TasksCounted, TypeOK
<1>5. EntriesKept'
  BY <1>1 DEF EntriesKept, main
<1>6. FailuresListed'
  BY DEF FailuresListed, world
<1>7. StatusTellsFailures'
  BY DEF StatusTellsFailures, world, main
<1>8. \A v \in Workers : at'[v] = "print" => at[v] = "print"
  BY DEF TypeOK
<1> QED
  BY <1>1, <1>3, <1>4, <1>5, <1>6, <1>7, <1>8 DEF world, main, Matches

\* A thread goes on with its task, or dies with it.
LEMMA KeepsTidyInv ==
  ASSUME TidyInv, NEW w \in Workers, at[w] # "get",
         NEW s \in {"tidy", "print", "dead"}, at' = [at EXCEPT ![w] = s],
         failed_files' = IF kind[name[w]] = "failing" /\ s = "print"
                         THEN failed_files \cup {name[w]} ELSE failed_files,
         UNCHANGED <<world, main, queue, unfinished, finished, name>>
  PROVE  TidyInv'
<1> USE DEF TidyInv
<1>1. Busy' = Busy /\ w \in Busy /\ name[w] \in Index
  BY BusySame DEF Busy, TypeOK
<1>2. TypeOK'
  BY <1>1 DEF TypeOK, world, main
<1>3. TasksCounted' /\ EntriesKept'
  BY <1>1 DEF TasksCounted, EntriesKept, main
<1>4. FailuresListed' /\ StatusTellsFailures'
  BY DEF FailuresListed, StatusTellsFailures, world, main
<1>5. \A v \in Workers : at'[v] = "print" /\ kind'[name'[v]] = "failing" => name'[v] \in failed_files'
  BY DEF TypeOK, world
<1> QED
  BY <1>1, <1>2, <1>3, <1>4, <1>5 DEF world, main, Matches

LEMMA ThreadTidyInv == ASSUME TidyInv, NEW w \in Workers, run_tidy(w) PROVE TidyInv'
<1>1. CASE Get(w)
  BY <1>1, GetTidyInv
<1>2. CASE Prepare(w)
  <2>1. CASE at' = [at EXCEPT ![w] = "dead"] /\ UNCHANGED <<unfinished, finished>>
    BY <1>2, <2>1, KeepsTidyInv DEF Prepare, tasks
  <2>2. CASE kind[name[w]] = "skipped" /\ task_done(w)
    BY <1>2, <2>2, DoneTidyInv DEF Prepare
  <2>3. CASE at' = [at EXCEPT ![w] = "tidy"] /\ UNCHANGED <<unfinished, finished>>
    BY <1>2, <2>3, KeepsTidyInv DEF Prepare
  <2> QED
    BY <1>2, <2>1, <2>2, <2>3 DEF Prepare, Dies
<1>3. CASE Tidy(w)
  BY <1>3, KeepsTidyInv DEF Tidy, Dies
<1>4. CASE PrintOutput(w)
  <2>1. CASE kind[name[w]] = "garbled"
    BY <1>4, <2>1, KeepsTidyInv DEF PrintOutput, Dies
  <2>2. CASE kind[name[w]] # "garbled"
    BY <1>4, <2>2, DoneTidyInv DEF PrintOutput, TidyInv
  <2> QED
    BY <2>1, <2>2
<1> QED
  BY <1>1, <1>2, <1>3, <1>4 DEF run_tidy

------------------------------------------------------------------------------
\* For any number of threads and entries, Queue's count of unfinished tasks is
\* the work there is, and no entry or failure is lost between main and run_tidy.
THEOREM TidyInvariant == Spec => []TidyInv
<1>1. Init => TidyInv
  BY InitTidyInv
<1>2. TidyInv /\ [Next]_vars => TidyInv'
  <2> SUFFICES ASSUME TidyInv, [Next]_vars PROVE TidyInv'
    OBVIOUS
  <2>1. CASE Main \/ KeyboardInterrupt \/ RmtreeFails
    BY <2>1, MainTidyInv
  <2>2. CASE \E w \in Workers : run_tidy(w)
    BY <2>2, ThreadTidyInv
  <2>3. CASE UNCHANGED vars
    BY <2>3 DEF vars, world, main, tasks, threads, TidyInv, TypeOK, TasksCounted, Busy, EntriesKept,
                FailuresListed, StatusTellsFailures, Matches
  <2> QED
    BY <2>1, <2>2, <2>3 DEF Next
<1> QED
  BY <1>1, <1>2, PTL DEF Spec

\* The exit status of run_clang_tidy.py tells whether clang-tidy failed on an
\* entry, in whatever order the threads took and finished them.
THEOREM ExitStatus == Spec => []StatusTellsFailures
<1>1. TidyInv => StatusTellsFailures
  BY DEF TidyInv
<1> QED
  BY <1>1, TidyInvariant, PTL
==============================================================================
