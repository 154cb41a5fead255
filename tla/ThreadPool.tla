----------------------------- MODULE ThreadPool -----------------------------
(***************************************************************************)
(* The ThreadPool of netier: a queue of jobs under one mutex and one       *)
(* condition variable, worker threads, asyncRunJob and the destructor.     *)
(* What is done under the mutex touches nothing that is touched without    *)
(* it, so each critical section is one step; waiting, notify_one,          *)
(* notify_all and join are steps of their own.                             *)
(*                                                                         *)
(* asyncRunJob is called by the thread that owns the pool, and by jobs.    *)
(***************************************************************************)
EXTENDS Naturals, Sequences, FiniteSets

CONSTANTS
  Workers,  \* the pool's threads
  Jobs,     \* what asyncRunJob is called with
  Endless,  \* the jobs that never return, such as Reactor::loop
  NoJob

ASSUME PoolAssumption ==
  /\ IsFiniteSet(Workers)
  /\ Endless \subseteq Jobs
  /\ NoJob \notin Jobs

VARIABLES
  jobs,     \* __jobs
  stop,     \* __stop
  pc,       \* each worker: "ready" to lock the mutex, "waiting" on __qchange,
            \* "running" its task, about to "notify" in a call its task makes,
            \* or "exited"
  task,     \* each worker's task
  owner,    \* the owner: "idle", about to "notify", "stopped" (about to
            \* notify_all), in "join", or done with the destructor ("gone")
  verdict,  \* asyncRunJob of each job: "new", "accepted", or "rejected" by throw
  finished  \* the jobs that returned

vars == <<jobs, stop, pc, task, owner, verdict, finished>>

TypeOK ==
  /\ jobs \in Seq(Jobs)
  /\ stop \in BOOLEAN
  /\ pc \in [Workers -> {"ready", "waiting", "running", "notify", "exited"}]
  /\ task \in [Workers -> Jobs \cup {NoJob}]
  /\ owner \in {"idle", "notify", "stopped", "join", "gone"}
  /\ verdict \in [Jobs -> {"new", "accepted", "rejected"}]
  /\ finished \subseteq Jobs

Init ==
  /\ jobs = <<>>
  /\ stop = FALSE
  /\ pc = [w \in Workers |-> "ready"]
  /\ task = [w \in Workers |-> NoJob]
  /\ owner = "idle"
  /\ verdict = [j \in Jobs |-> "new"]
  /\ finished = {}

Waiting == {w \in Workers : pc[w] = "waiting"}

------------------------------------------------------------------------------
\* Mutant of Enqueue: __stop is not tested, a stopped pool accepts jobs.
Enqueue_Unchecked(j) ==
  /\ verdict[j] = "new"
  /\ jobs' = Append(jobs, j)
  /\ verdict' = [verdict EXCEPT ![j] = "accepted"]

\* The critical section of asyncRunJob: the job is in the queue when the
\* exception is thrown.
Enqueue(j) ==
  /\ verdict[j] = "new"
  /\ jobs' = Append(jobs, j)
  /\ verdict' = [verdict EXCEPT ![j] = IF stop THEN "rejected" ELSE "accepted"]

\* Mutant of OwnerSubmits: no notify_one.
OwnerSubmits_Silent(j) ==
  /\ owner = "idle"
  /\ Enqueue(j)
  /\ UNCHANGED <<stop, pc, task, owner, finished>>

OwnerSubmits(j) ==
  /\ owner = "idle"
  /\ Enqueue(j)
  /\ owner' = "notify"
  /\ UNCHANGED <<stop, pc, task, finished>>

JobSubmits(w, j) ==
  /\ pc[w] = "running"
  /\ Enqueue(j)
  /\ pc' = [pc EXCEPT ![w] = IF stop THEN "running" ELSE "notify"]
  /\ UNCHANGED <<stop, task, owner, finished>>

\* __qchange.notify_one(): one waiting thread wakes up, if there is one.
Woken(states) ==
  IF \E v \in Workers : states[v] = "waiting"
  THEN {[states EXCEPT ![v] = "ready"] : v \in {u \in Workers : states[u] = "waiting"}}
  ELSE {states}

OwnerNotifies ==
  /\ owner = "notify"
  /\ pc' \in Woken(pc)
  /\ owner' = "idle"
  /\ UNCHANGED <<jobs, stop, task, verdict, finished>>

JobNotifies(w) ==
  /\ pc[w] = "notify"
  /\ pc' \in Woken([pc EXCEPT ![w] = "running"])
  /\ UNCHANGED <<jobs, stop, task, owner, verdict, finished>>

------------------------------------------------------------------------------
\* Mutants of Take: a worker that sees __stop returns, whatever is queued; the
\* job is popped after it ran; the newest job is taken.
Take_QuitsEarly(w) ==
  /\ pc[w] = "ready"
  /\ \/ /\ stop \/ jobs = <<>>
        /\ pc' = [pc EXCEPT ![w] = IF stop THEN "exited" ELSE "waiting"]
        /\ UNCHANGED <<jobs, task>>
     \/ /\ ~stop /\ jobs # <<>>
        /\ task' = [task EXCEPT ![w] = Head(jobs)]
        /\ jobs' = Tail(jobs)
        /\ pc' = [pc EXCEPT ![w] = "running"]
  /\ UNCHANGED <<stop, owner, verdict, finished>>

Take_KeepsFront(w) ==
  /\ pc[w] = "ready"
  /\ jobs # <<>>
  /\ task' = [task EXCEPT ![w] = Head(jobs)]
  /\ pc' = [pc EXCEPT ![w] = "running"]
  /\ UNCHANGED <<jobs, stop, owner, verdict, finished>>

Take_Newest(w) ==
  /\ pc[w] = "ready"
  /\ \/ /\ jobs = <<>>
        /\ pc' = [pc EXCEPT ![w] = IF stop THEN "exited" ELSE "waiting"]
        /\ UNCHANGED <<jobs, task>>
     \/ /\ jobs # <<>>
        /\ task' = [task EXCEPT ![w] = jobs[Len(jobs)]]
        /\ jobs' = SubSeq(jobs, 1, Len(jobs) - 1)
        /\ pc' = [pc EXCEPT ![w] = "running"]
  /\ UNCHANGED <<stop, owner, verdict, finished>>

\* The critical section of a worker's loop, after lock() or a return of wait().
Take(w) ==
  /\ pc[w] = "ready"
  /\ \/ /\ jobs = <<>>
        /\ pc' = [pc EXCEPT ![w] = IF stop THEN "exited" ELSE "waiting"]
        /\ UNCHANGED <<jobs, task>>
     \/ /\ jobs # <<>>
        /\ task' = [task EXCEPT ![w] = Head(jobs)]
        /\ jobs' = Tail(jobs)
        /\ pc' = [pc EXCEPT ![w] = "running"]
  /\ UNCHANGED <<stop, owner, verdict, finished>>

\* wait() may return for no reason.
SpuriousWakeup(w) ==
  /\ pc[w] = "waiting"
  /\ pc' = [pc EXCEPT ![w] = "ready"]
  /\ UNCHANGED <<jobs, stop, task, owner, verdict, finished>>

TaskReturns(w) ==
  /\ pc[w] = "running"
  /\ task[w] \notin Endless
  /\ finished' = finished \cup {task[w]}
  /\ task' = [task EXCEPT ![w] = NoJob]
  /\ pc' = [pc EXCEPT ![w] = "ready"]
  /\ UNCHANGED <<jobs, stop, owner, verdict>>

------------------------------------------------------------------------------
\* ~ThreadPool.
SetStop ==
  /\ owner = "idle"
  /\ stop' = TRUE
  /\ owner' = "stopped"
  /\ UNCHANGED <<jobs, pc, task, verdict, finished>>

\* Mutant of NotifyAll: notify_one.
NotifyAll_One ==
  /\ owner = "stopped"
  /\ pc' \in Woken(pc)
  /\ owner' = "join"
  /\ UNCHANGED <<jobs, stop, task, verdict, finished>>

NotifyAll ==
  /\ owner = "stopped"
  /\ pc' = [w \in Workers |-> IF pc[w] = "waiting" THEN "ready" ELSE pc[w]]
  /\ owner' = "join"
  /\ UNCHANGED <<jobs, stop, task, verdict, finished>>

Join ==
  /\ owner = "join"
  /\ \A w \in Workers : pc[w] = "exited"
  /\ owner' = "gone"
  /\ UNCHANGED <<jobs, stop, pc, task, verdict, finished>>

------------------------------------------------------------------------------
\* A worker's own progress; what its task submits is the task's choice.
WorkerStep(w) == Take(w) \/ TaskReturns(w) \/ JobNotifies(w)
OwnerStep == OwnerNotifies \/ NotifyAll \/ Join

Next ==
  \/ OwnerStep \/ SetStop
  \/ \E j \in Jobs : OwnerSubmits(j)
  \/ \E w \in Workers :
       WorkerStep(w) \/ SpuriousWakeup(w) \/ \E j \in Jobs : JobSubmits(w, j)

\* Threads are scheduled and the jobs outside Endless return; nobody has to
\* submit a job or to destroy the pool.
Fairness ==
  /\ WF_vars(OwnerStep)
  /\ \A w \in Workers : WF_vars(WorkerStep(w))

Spec == Init /\ [][Next]_vars
FairSpec == Spec /\ Fairness

------------------------------------------------------------------------------
\* Properties.

Queued == {jobs[i] : i \in DOMAIN jobs}
Running == {task[w] : w \in Workers} \ {NoJob}

\* A job that was handed in is in one place: queued once, run by one worker,
\* or finished; a worker has a task exactly while it runs one.
JobsConserved ==
  /\ \A i, k \in DOMAIN jobs : jobs[i] = jobs[k] => i = k
  /\ \A w, v \in Workers : task[w] = task[v] /\ task[w] # NoJob => w = v
  /\ Queued \cap Running = {} /\ Queued \cap finished = {} /\ Running \cap finished = {}
  /\ Queued \cup Running \cup finished = {j \in Jobs : verdict[j] # "new"}
  /\ \A w \in Workers : task[w] # NoJob <=> pc[w] \in {"running", "notify"}

\* No wake-up is lost: while workers sleep, every queued job has a worker on
\* its way to it or a notify_one still to come; after notify_all nobody sleeps.
NoLostWakeup ==
  /\ owner \in {"join", "gone"} => Waiting = {}
  /\ ~stop /\ Waiting # {} =>
       Len(jobs) <= Cardinality({w \in Workers : pc[w] \in {"ready", "notify"}})
                    + (IF owner = "notify" THEN 1 ELSE 0)

\* The destructor lets the queue run dry: nothing accepted is forgotten, and
\* no worker outlives the pool.
DestructorDrains ==
  owner = "gone" =>
    /\ \A j \in Jobs : verdict[j] = "accepted" => j \in finished
    /\ \A w \in Workers : pc[w] = "exited"

\* The parts of the inductive invariant that the three predicates above rest
\* on besides each other: only the destructor stops the pool, workers leave a
\* stopped pool only, and what is queued after the first one left was refused.
StopSound == stop <=> owner \in {"stopped", "join", "gone"}

Drained ==
  /\ \A w \in Workers : pc[w] = "exited" =>
       stop /\ \A j \in Queued : verdict[j] = "rejected"
  /\ owner = "gone" => \A w \in Workers : pc[w] = "exited"

\* Nothing is refused before the pool is stopped and nothing accepted after it,
\* so that what was refused stands behind what was accepted.
Accepted(j) == verdict[j] = "accepted"
RefusedLast ==
  /\ ~stop => \A j \in Jobs : verdict[j] # "rejected"
  /\ \A i, k \in DOMAIN jobs : i < k /\ Accepted(jobs[k]) => Accepted(jobs[i])

\* The inductive invariant: jobs are kept, wake-ups are enough, and what the
\* stopped pool refuses stays behind what it accepted.
PoolInv == TypeOK /\ JobsConserved /\ NoLostWakeup /\ StopSound /\ Drained /\ RefusedLast

\* The destructor returns, unless it waits for a job that never does.
DestructorReturns ==
  (owner = "stopped") ~> (owner = "gone" \/ Running \cap Endless # {})

\* A job that was accepted starts, unless jobs that never return hold all the
\* threads: Server::serve, which makes one for each reactor, gets every
\* Reactor::loop running.
AcceptedStarts ==
  \A j \in Jobs :
    (verdict[j] = "accepted") ~>
      (j \in Running \cup finished \/ Cardinality(Running \cap Endless) = Cardinality(Workers))

\* For the jobs it accepts, which stand in front, the pool is a work-conserving
\* queue.
AcceptedJobs == [i \in {k \in DOMAIN jobs : Accepted(jobs[k])} |-> jobs[i]]
AcceptedRunning == {j \in Running : Accepted(j)}
AcceptedFinished == {j \in finished : Accepted(j)}
Q == INSTANCE WorkQueue
       WITH queue <- AcceptedJobs, running <- AcceptedRunning, finished <- AcceptedFinished,
            Width <- Cardinality(Workers)
ImplementsWorkQueue == Q!Spec
==============================================================================
