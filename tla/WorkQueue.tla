------------------------------ MODULE WorkQueue ------------------------------
(***************************************************************************)
(* What ThreadPool promises: jobs start in the order they were handed in,  *)
(* at most Width run at a time, each runs once, and no job waits for ever  *)
(* while fewer than Width run.                                             *)
(***************************************************************************)
EXTENDS Naturals, Sequences, FiniteSets

CONSTANTS Jobs, Width
VARIABLES queue, running, finished

vars == <<queue, running, finished>>

Init == queue = <<>> /\ running = {} /\ finished = {}

Submit(j) ==
  /\ j \notin running \cup finished
  /\ \A i \in DOMAIN queue : queue[i] # j
  /\ queue' = Append(queue, j)
  /\ UNCHANGED <<running, finished>>

Start ==
  /\ queue # <<>>
  /\ Cardinality(running) < Width
  /\ running' = running \cup {Head(queue)}
  /\ queue' = Tail(queue)
  /\ UNCHANGED finished

Finish(j) ==
  /\ j \in running
  /\ running' = running \ {j}
  /\ finished' = finished \cup {j}
  /\ UNCHANGED queue

Next == Start \/ \E j \in Jobs : Submit(j) \/ Finish(j)

SafeSpec == Init /\ [][Next]_vars
Spec == SafeSpec /\ WF_vars(Start)
==============================================================================
