----------------------------- MODULE ClangTidy -----------------------------
(***************************************************************************)
(* build_support/run_clang_tidy.py, the "make check-clang-tidy" of netier: *)
(* the main thread hands the entries of the compilation database to daemon *)
(* threads over a bounded queue.Queue, waits for Queue.join, and tells by  *)
(* its exit status whether clang-tidy failed on one of them.               *)
(*                                                                         *)
(* An entry is its index in the database, where a file may occur twice.    *)
(***************************************************************************)
EXTENDS Integers, Sequences, FiniteSets

CONSTANTS
  Workers,  \* the threads, -j of them, or one per processor
  Entries   \* how many entries the database has

ASSUME TidyAssumption ==
  /\ IsFiniteSet(Workers) /\ Workers # {}
  /\ Entries \in Nat

\* What becomes of an entry: should_skip leaves it out; clang-tidy finds
\* nothing, or fails; it can not be started, or prints what is not UTF-8; its
\* name does not match the regular expression of the command line.
Kinds == {"skipped", "clean", "failing", "noexec", "garbled", "unmatched"}

VARIABLES
  \* the command line and the world
  kind,         \* of every entry
  fix, export,  \* -fix and -export-fixes were given
  \* main
  pc,           \* where it is
  i,            \* the entry it puts next
  return_code,
  tmpdir,       \* "none", "there" or "removed"
  \* shared by the threads
  queue,        \* task_queue: the entries in it, ...
  unfinished,   \* ... and how many task_done calls it waits for
  failed_files,
  \* run_tidy
  at,           \* where each thread is
  name,         \* the entry it took last
  \* history
  finished,     \* the entries task_done was called for
  caught        \* exporting or applying the fixes raised an exception

world  == <<kind, fix, export>>
main   == <<pc, i, return_code, tmpdir, caught>>
tasks  == <<queue, unfinished, failed_files, finished>>
threads == <<at, name>>
vars   == <<world, main, tasks, threads>>

Index == 1 .. Entries
MaxTask == Cardinality(Workers)
Busy == {w \in Workers : at[w] # "get"}  \* a thread that died keeps its task
Matches(e) == kind[e] # "unmatched"

Init ==
  /\ kind \in [Index -> Kinds] /\ fix \in BOOLEAN /\ export \in BOOLEAN
  /\ pc = "setup" /\ i = 1 /\ return_code = 0 /\ tmpdir = "none" /\ caught = FALSE
  /\ queue = <<>> /\ unfinished = 0 /\ failed_files = {} /\ finished = {}
  /\ at = [w \in Workers |-> "get"]
  /\ name = [w \in Workers |-> 0]

------------------------------------------------------------------------------
\* main, up to the threads.

\* No compilation database, or a clang-tidy that can not list its checks.
SetupFails ==
  /\ pc = "setup"
  /\ pc' = "unable" /\ return_code' = 1
  /\ UNCHANGED <<world, i, tmpdir, caught, tasks, threads>>

\* clang-apply-replacements is tried before the temporary directory is made.
Setup ==
  /\ pc = "setup"
  /\ IF fix \/ export
     THEN \/ pc' = "fill" /\ tmpdir' = "there" /\ UNCHANGED return_code
          \/ pc' = "unable" /\ return_code' = 1 /\ UNCHANGED tmpdir
     ELSE pc' = "fill" /\ UNCHANGED <<return_code, tmpdir>>
  /\ UNCHANGED <<world, i, caught, tasks, threads>>

\* Queue.put blocks while the queue is full: a timeout of 300 seconds starts
\* it again, and changes nothing.  The loop around it ends when the entry is
\* in the queue, and an entry that does not match never gets there.
FillQueue ==
  /\ pc = "fill" /\ i <= Entries
  /\ Matches(i) /\ Len(queue) < MaxTask
  /\ queue' = Append(queue, i)
  /\ unfinished' = unfinished + 1
  /\ i' = i + 1
  /\ UNCHANGED <<world, pc, return_code, tmpdir, caught, failed_files, finished, threads>>

\* Mutant of join: an empty queue is taken for finished work.
join_Empty ==
  /\ pc = "fill" /\ i > Entries
  /\ queue = <<>>
  /\ return_code' = IF failed_files # {} THEN 1 ELSE return_code
  /\ pc' = "export"
  /\ UNCHANGED <<world, i, tmpdir, caught, tasks, threads>>

\* Queue.join, and what failed becomes the exit status.
join ==
  /\ pc = "fill" /\ i > Entries
  /\ unfinished = 0
  /\ return_code' = IF failed_files # {} THEN 1 ELSE return_code
  /\ pc' = "export"
  /\ UNCHANGED <<world, i, tmpdir, caught, tasks, threads>>

------------------------------------------------------------------------------
\* run_tidy.

\* Queue.get and Queue.task_done.
Get(w) ==
  /\ at[w] = "get" /\ queue # <<>>
  /\ name' = [name EXCEPT ![w] = Head(queue)]
  /\ queue' = Tail(queue)
  /\ at' = [at EXCEPT ![w] = "prepare"]
  /\ UNCHANGED <<world, main, unfinished, failed_files, finished>>

task_done(w) ==
  /\ unfinished' = unfinished - 1
  /\ finished' = finished \cup {name[w]}
  /\ at' = [at EXCEPT ![w] = "get"]

Dies(w) ==
  /\ at' = [at EXCEPT ![w] = "dead"]
  /\ UNCHANGED <<unfinished, finished>>

\* Mutant of Prepare: a skipped entry is not counted.
Prepare_Uncounted(w) ==
  /\ at[w] = "prepare"
  /\ at' = [at EXCEPT ![w] = CASE tmpdir = "removed" -> "dead"
                               [] kind[name[w]] = "skipped" -> "get"
                               [] OTHER -> "tidy"]
  /\ UNCHANGED <<world, main, tasks, name>>

\* get_tidy_invocation makes a file in the temporary directory, whatever
\* should_skip says afterwards.
Prepare(w) ==
  /\ at[w] = "prepare"
  /\ \/ tmpdir = "removed" /\ Dies(w)
     \/ /\ tmpdir # "removed" /\ kind[name[w]] = "skipped"
        /\ task_done(w)
     \/ /\ tmpdir # "removed" /\ kind[name[w]] # "skipped"
        /\ at' = [at EXCEPT ![w] = "tidy"]
        /\ UNCHANGED <<unfinished, finished>>
  /\ UNCHANGED <<world, main, queue, failed_files, name>>

\* clang-tidy runs; an exception ends the thread, and nothing else.
Tidy(w) ==
  /\ at[w] = "tidy"
  /\ IF kind[name[w]] = "noexec" THEN Dies(w) /\ UNCHANGED failed_files
     ELSE /\ failed_files' = IF kind[name[w]] = "failing"
                             THEN failed_files \cup {name[w]} ELSE failed_files
          /\ at' = [at EXCEPT ![w] = "print"]
          /\ UNCHANGED <<unfinished, finished>>
  /\ UNCHANGED <<world, main, queue, name>>

\* Mutant of PrintOutput: a thread that fails counts its task too, and again.
PrintOutput_Twice(w) ==
  /\ at[w] = "print"
  /\ unfinished' = unfinished - (IF kind[name[w]] = "failing" THEN 2 ELSE 1)
  /\ finished' = finished \cup {name[w]}
  /\ at' = [at EXCEPT ![w] = "get"]
  /\ UNCHANGED <<world, main, queue, failed_files, name>>

\* The output is decoded and printed under the lock, which an exception frees.
PrintOutput(w) ==
  /\ at[w] = "print"
  /\ IF kind[name[w]] = "garbled" THEN Dies(w) ELSE task_done(w)
  /\ UNCHANGED <<world, main, queue, failed_files, name>>

------------------------------------------------------------------------------
\* main, after join.

\* merge_replacement_files needs yaml, which is not imported, as soon as there
\* is a replacement file; the bare except takes that and Ctrl-C alike.
merge_replacement_files ==
  /\ pc = "export" /\ pc' = "fix"
  /\ \/ /\ export /\ finished # {}
        /\ return_code' = 1 /\ caught' = TRUE
     \/ /\ ~export \/ finished = {}
        /\ UNCHANGED <<return_code, caught>>
  /\ UNCHANGED <<world, i, tmpdir, tasks, threads>>

\* The exit status of clang-apply-replacements is not looked at.
apply_fixes ==
  /\ pc = "fix" /\ pc' = "cleanup"
  /\ \/ fix /\ return_code' = 1 /\ caught' = TRUE
     \/ UNCHANGED <<return_code, caught>>
  /\ UNCHANGED <<world, i, tmpdir, tasks, threads>>

Removed == IF tmpdir = "there" THEN "removed" ELSE tmpdir

exit ==
  /\ pc = "cleanup" /\ pc' = "exited"
  /\ tmpdir' = Removed
  /\ UNCHANGED <<world, i, return_code, caught, tasks, threads>>

\* Ctrl-C while main fills the queue or joins it: the temporary directory goes
\* first, under the threads that still use it ...
KeyboardInterrupt ==
  /\ pc = "fill" /\ pc' = "killing"
  /\ tmpdir' = Removed
  /\ UNCHANGED <<world, i, return_code, caught, tasks, threads>>

\* ... or a thread makes a file in it meanwhile: rmtree raises out of main.
RmtreeFails ==
  /\ pc = "fill" /\ tmpdir = "there" /\ \E w \in Workers : at[w] \in {"prepare", "tidy"}
  /\ pc' = "raised" /\ return_code' = 1
  /\ UNCHANGED <<world, i, tmpdir, caught, tasks, threads>>

\* os.kill(0, 9)
kill ==
  /\ pc = "killing" /\ pc' = "killed"
  /\ UNCHANGED <<world, i, return_code, tmpdir, caught, tasks, threads>>

------------------------------------------------------------------------------
Ended == pc \in {"unable", "exited", "raised", "killed"}

\* The threads start with the queue, and end with main: they are daemons.
run_tidy(w) ==
  /\ pc # "setup" /\ ~Ended
  /\ Get(w) \/ Prepare(w) \/ Tidy(w) \/ PrintOutput(w)

Main ==
  \/ SetupFails \/ Setup \/ FillQueue \/ join
  \/ merge_replacement_files \/ apply_fixes \/ exit \/ kill

Next ==
  \/ Main
  \/ \E w \in Workers : run_tidy(w)
  \/ KeyboardInterrupt \/ RmtreeFails

Spec == Init /\ [][Next]_vars

\* Every thread runs, and every clang-tidy comes to an end.
FairSpec == Spec /\ WF_vars(Main) /\ \A w \in Workers : WF_vars(run_tidy(w))

------------------------------------------------------------------------------
\* Properties.

TypeOK ==
  /\ kind \in [Index -> Kinds] /\ fix \in BOOLEAN /\ export \in BOOLEAN
  /\ pc \in {"setup", "fill", "export", "fix", "cleanup", "killing",
            "unable", "exited", "raised", "killed"}
  /\ i \in 1 .. (Entries + 1)
  /\ return_code \in {0, 1} /\ caught \in BOOLEAN
  /\ tmpdir \in {"none", "there", "removed"}
  /\ queue \in Seq(Index) /\ Len(queue) <= MaxTask
  /\ unfinished \in Nat
  /\ failed_files \subseteq Index /\ finished \subseteq Index
  /\ at \in [Workers -> {"get", "prepare", "tidy", "print", "dead"}]
  /\ name \in [Workers -> Index \cup {0}]

\* Queue's own count is the work there is: what waits in the queue and what the
\* threads hold, those included that died of an exception.
TasksCounted == unfinished = Len(queue) + Cardinality(Busy)

\* An entry that was put is in the queue, with a thread, or finished: none is
\* dropped between the two.
EntriesKept ==
  \A e \in 1 .. (i - 1) :
    \/ \E k \in DOMAIN queue : queue[k] = e
    \/ \E w \in Busy : name[w] = e
    \/ e \in finished

\* What failed is in the list before its task is done.
FailuresListed == {e \in finished : kind[e] = "failing"} \subseteq failed_files

\* The exit status: when the script ends by itself after its threads ran, it is
\* 1 if and only if clang-tidy failed on an entry, or the fixes could not be
\* exported or applied, whatever the order in which the threads finished.
StatusTellsFailures ==
  pc \in {"export", "fix", "cleanup", "exited"} =>
    /\ return_code = 1 <=> caught \/ \E e \in Index : kind[e] = "failing"
    /\ \A e \in Index : e \in finished

\* The inductive invariant.
TidyInv ==
  /\ TypeOK
  /\ TasksCounted
  /\ EntriesKept
  /\ FailuresListed
  /\ \A e \in failed_files : kind[e] = "failing"
  /\ \A w \in Busy : name[w] \in Index
  /\ \A w \in Workers : at[w] = "print" /\ kind[name[w]] = "failing" => name[w] \in failed_files
  /\ pc \in {"setup", "fill", "killing"} => return_code = 0 /\ ~caught
  /\ \A k \in DOMAIN queue : Matches(queue[k])
  /\ StatusTellsFailures

\* The script ends: the queue is filled past its bound and drained, and no
\* order of puts and gets leaves main and the threads waiting for each other.
\* An entry that does not match, or one that kills its thread, is what it takes
\* to keep it from ending.
Terminates ==
  (\A e \in Index : kind[e] \in {"skipped", "clean", "failing"}) => <>Ended
==============================================================================
