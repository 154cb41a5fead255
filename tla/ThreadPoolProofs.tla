-------------------------- MODULE ThreadPoolProofs --------------------------
(***************************************************************************)
(* Proofs about module ThreadPool, for any finite set of workers and any   *)
(* set of jobs: types, the conservation of jobs, the absence of lost       *)
(* wake-ups, and what the destructor leaves behind.                        *)
(***************************************************************************)
EXTENDS ThreadPool, Recursion

PCs == {"ready", "waiting", "running", "notify", "exited"}

USE PoolAssumption

\* notify_one moves at most one worker, from "waiting" to "ready".
LEMMA WokenMoves ==
  ASSUME NEW states \in [Workers -> PCs], NEW p \in Woken(states)
  PROVE  /\ p \in [Workers -> PCs]
         /\ \/ p = states /\ \A v \in Workers : states[v] # "waiting"
            \/ \E v \in Workers : states[v] = "waiting" /\ p = [states EXCEPT ![v] = "ready"]
  BY DEF Woken, PCs

Elements(s) == {s[i] : i \in DOMAIN s}

\* What is queued are the elements of jobs.
LEMMA QueuedElements == Queued = Elements(jobs) /\ Queued' = Elements(jobs')
  BY DEF Queued, Elements

\* What Append does to the jobs in the queue.
LEMMA QueuedAppend ==
  ASSUME NEW s \in Seq(Jobs), NEW j \in Jobs
  PROVE  /\ Append(s, j) \in Seq(Jobs)
         /\ Elements(Append(s, j)) = Elements(s) \cup {j}
         /\ Len(Append(s, j)) = Len(s) + 1
  <1> DEFINE q == Append(s, j)
  <1>1. q \in Seq(Jobs) /\ Len(q) = Len(s) + 1 /\ DOMAIN q = 1 .. (Len(s) + 1)
        /\ DOMAIN s = 1 .. Len(s)
    OBVIOUS
  <1>2. /\ \A i \in DOMAIN s : q[i] = s[i]
        /\ q[Len(s) + 1] = j
    OBVIOUS
  <1>3. Len(s) \in Nat
    OBVIOUS
  <1>4. \A i \in DOMAIN q : i \in DOMAIN s \/ i = Len(s) + 1
    BY <1>1, <1>3
  <1>5. DOMAIN s \subseteq DOMAIN q /\ Len(s) + 1 \in DOMAIN q
    BY <1>1, <1>3
  <1> HIDE DEF q
  <1>6. {q[i] : i \in DOMAIN q} = {s[i] : i \in DOMAIN s} \cup {j}
    BY <1>2, <1>4, <1>5
  <1> QED
    BY <1>1, <1>6 DEF q, Elements

\* What Tail does to the jobs in the queue, if none is in it twice.
LEMMA QueuedTail ==
  ASSUME NEW s \in Seq(Jobs), s # <<>>,
         \A i, k \in DOMAIN s : s[i] = s[k] => i = k
  PROVE  /\ Tail(s) \in Seq(Jobs)
         /\ Head(s) \in Jobs
         /\ Elements(Tail(s)) = Elements(s) \ {Head(s)}
         /\ Head(s) \in Elements(s)
         /\ Len(s) = Len(Tail(s)) + 1
         /\ \A i, k \in DOMAIN Tail(s) : Tail(s)[i] = Tail(s)[k] => i = k
  <1> DEFINE q == Tail(s)
  <1>1. /\ q \in Seq(Jobs) /\ Len(s) \in Nat /\ Len(s) > 0
        /\ Len(q) = Len(s) - 1
        /\ DOMAIN q = 1 .. (Len(s) - 1) /\ DOMAIN s = 1 .. Len(s)
        /\ Head(s) = s[1] /\ s[1] \in Jobs
    OBVIOUS
  <1>2. \A i \in DOMAIN q : q[i] = s[i + 1] /\ i + 1 \in DOMAIN s /\ i + 1 # 1
    BY <1>1
  <1>3. \A i \in DOMAIN s : i = 1 \/ (i - 1 \in DOMAIN q /\ q[i - 1] = s[i])
    BY <1>1
  <1>4. \A i \in DOMAIN s : s[i] = s[1] => i = 1
    BY <1>1
  <1>5. \A i, k \in DOMAIN q : q[i] = q[k] => i = k
    <2> TAKE i, k \in DOMAIN q
    <2>1. i \in Int /\ k \in Int
      BY <1>1
    <2>2. q[i] = q[k] => i + 1 = k + 1
      BY <1>2
    <2> QED
      BY <2>1, <2>2
  <1> HIDE DEF q
  <1>6. {q[i] : i \in DOMAIN q} = {s[i] : i \in DOMAIN s} \ {s[1]}
    <2>1. ASSUME NEW x \in {q[i] : i \in DOMAIN q}
          PROVE  x \in {s[i] : i \in DOMAIN s} \ {s[1]}
      BY <1>2, <1>4
    <2>2. ASSUME NEW x \in {s[i] : i \in DOMAIN s} \ {s[1]}
          PROVE  x \in {q[i] : i \in DOMAIN q}
      BY <1>3
    <2> QED
      BY <2>1, <2>2
  <1>7. 1 \in DOMAIN s
    BY <1>1
  <1>8. Len(s) = Len(q) + 1
    BY <1>1
  <1> QED
    BY <1>1, <1>5, <1>6, <1>7, <1>8 DEF q, Elements

------------------------------------------------------------------------------
\* Types.

\* A step keeps the types, as a worker that runs has a task.
LEMMA TypeInductive ==
  ASSUME TypeOK, [Next]_vars,
         \A w \in Workers : pc[w] = "running" => task[w] # NoJob
  PROVE  TypeOK'
  <1> USE DEF TypeOK
  <1>1. ASSUME NEW j \in Jobs, OwnerSubmits(j) PROVE TypeOK'
    BY <1>1 DEF OwnerSubmits, Enqueue
  <1>2. ASSUME NEW w \in Workers, NEW j \in Jobs, JobSubmits(w, j) PROVE TypeOK'
    BY <1>2 DEF JobSubmits, Enqueue
  <1>3. CASE OwnerNotifies
    BY <1>3, WokenMoves DEF OwnerNotifies, PCs
  <1>4. ASSUME NEW w \in Workers, JobNotifies(w) PROVE TypeOK'
    <2>1. [pc EXCEPT ![w] = "running"] \in [Workers -> PCs]
      BY DEF PCs
    <2>2. pc' \in [Workers -> PCs]
      BY <1>4, <2>1, WokenMoves DEF JobNotifies
    <2> QED
      BY <1>4, <2>2 DEF JobNotifies, PCs
  <1>5. ASSUME NEW w \in Workers, Take(w) PROVE TypeOK'
    <2>1. CASE jobs = <<>>
      BY <1>5, <2>1 DEF Take
    <2>2. CASE jobs # <<>>
      <3>1. Head(jobs) \in Jobs /\ Tail(jobs) \in Seq(Jobs)
        BY <2>2
      <3>2. /\ task' = [task EXCEPT ![w] = Head(jobs)] /\ jobs' = Tail(jobs)
            /\ pc' = [pc EXCEPT ![w] = "running"]
            /\ UNCHANGED <<stop, owner, verdict, finished>>
        BY <1>5, <2>2 DEF Take
      <3> QED
        BY <3>1, <3>2
    <2> QED
      BY <2>1, <2>2
  <1>6. ASSUME NEW w \in Workers, SpuriousWakeup(w) PROVE TypeOK'
    BY <1>6 DEF SpuriousWakeup
  <1>7. ASSUME NEW w \in Workers, TaskReturns(w) PROVE TypeOK'
    BY <1>7 DEF TaskReturns
  <1>8. CASE SetStop
    BY <1>8 DEF SetStop
  <1>9. CASE NotifyAll
    BY <1>9 DEF NotifyAll
  <1>10. CASE Join
    BY <1>10 DEF Join
  <1>11. CASE UNCHANGED vars
    BY <1>11 DEF vars
  <1> QED
    BY <1>1, <1>2, <1>3, <1>4, <1>5, <1>6, <1>7, <1>8, <1>9, <1>10, <1>11
    DEF Next, WorkerStep, OwnerStep

------------------------------------------------------------------------------
\* The conservation of jobs.

Busy == {"running", "notify"}

\* Steps that move workers between states in which they have no task, or
\* between states in which they have one, disturb nothing.
LEMMA QuietConserves ==
  ASSUME JobsConserved, UNCHANGED <<jobs, task, verdict, finished>>,
         \A v \in Workers : pc'[v] \in Busy <=> pc[v] \in Busy
  PROVE  JobsConserved'
  BY DEF JobsConserved, Queued, Running, Busy

\* A submission puts a new job into the queue and into no other place.
LEMMA EnqueueConserves ==
  ASSUME TypeOK, JobsConserved, NEW j \in Jobs, Enqueue(j), UNCHANGED <<task, finished>>,
         \A v \in Workers : pc'[v] \in Busy <=> pc[v] \in Busy
  PROVE  JobsConserved'
  <1>1. /\ jobs' \in Seq(Jobs) /\ Queued' = Queued \cup {j} /\ Len(jobs') = Len(jobs) + 1
    BY QueuedAppend, QueuedElements DEF TypeOK, Enqueue
  <1>2. j \notin Queued /\ j \notin Running /\ j \notin finished
    BY DEF Enqueue, JobsConserved
  <1>3. \A i, k \in DOMAIN jobs' : jobs'[i] = jobs'[k] => i = k
    <2>1. /\ DOMAIN jobs' = 1 .. (Len(jobs) + 1) /\ DOMAIN jobs = 1 .. Len(jobs) /\ Len(jobs) \in Nat
          /\ \A i \in DOMAIN jobs : jobs'[i] = jobs[i]
          /\ jobs'[Len(jobs) + 1] = j
      BY DEF TypeOK, Enqueue
    <2>2. \A i \in DOMAIN jobs : jobs[i] # j
      BY <1>2 DEF Queued
    <2>3. \A i \in DOMAIN jobs' : i \in DOMAIN jobs \/ i = Len(jobs) + 1
      BY <2>1
    <2>4. \A i, k \in DOMAIN jobs : jobs[i] = jobs[k] => i = k
      BY DEF JobsConserved
    <2> QED
      BY <2>1, <2>2, <2>3, <2>4
  <1>4. verdict' \in [Jobs -> {"new", "accepted", "rejected"}]
        /\ {k \in Jobs : verdict'[k] # "new"} = {k \in Jobs : verdict[k] # "new"} \cup {j}
    BY DEF TypeOK, Enqueue
  <1>5. Running' = Running
    BY DEF Running
  <1>6. /\ \A w, v \in Workers : task'[w] = task'[v] /\ task'[w] # NoJob => w = v
        /\ \A w \in Workers : task'[w] # NoJob <=> pc'[w] \in Busy
    BY DEF JobsConserved, Busy
  <1>7. /\ Queued' \cap Running' = {} /\ Queued' \cap finished' = {} /\ Running' \cap finished' = {}
        /\ Queued' \cup Running' \cup finished' = {k \in Jobs : verdict'[k] # "new"}
    BY <1>1, <1>2, <1>4, <1>5 DEF JobsConserved
  <1> QED
    BY <1>3, <1>6, <1>7 DEF JobsConserved, Busy

\* A worker that takes the first job is the only one to have it.
LEMMA TakeConserves ==
  ASSUME TypeOK, JobsConserved, NEW w \in Workers, Take(w)
  PROVE  JobsConserved'
  <1>1. CASE jobs = <<>>
    <2>1. \A v \in Workers : pc'[v] \in Busy <=> pc[v] \in Busy
      BY <1>1 DEF Take, TypeOK, Busy
    <2>2. UNCHANGED <<jobs, task, verdict, finished>>
      BY <1>1 DEF Take
    <2> QED
      BY <2>1, <2>2, QuietConserves
  <1>2. CASE jobs # <<>>
    <2> DEFINE j == Head(jobs)
    <2>1. /\ pc[w] = "ready" /\ pc' = [pc EXCEPT ![w] = "running"]
          /\ task' = [task EXCEPT ![w] = j] /\ jobs' = Tail(jobs)
          /\ UNCHANGED <<verdict, finished>>
      BY <1>2 DEF Take
    <2>2. /\ j \in Jobs /\ j \in Queued /\ Queued' = Queued \ {j}
          /\ \A i, k \in DOMAIN jobs' : jobs'[i] = jobs'[k] => i = k
      <3>1. jobs \in Seq(Jobs) /\ \A i, k \in DOMAIN jobs : jobs[i] = jobs[k] => i = k
        BY DEF TypeOK, JobsConserved
      <3> QED
        BY <1>2, <2>1, <3>1, QueuedTail, QueuedElements
    <2>3. task[w] = NoJob /\ j # NoJob /\ j \notin Running
      BY <2>1, <2>2 DEF JobsConserved
    <2> HIDE DEF j
    <2>4. /\ \A v \in Workers : task'[v] = IF v = w THEN j ELSE task[v]
          /\ \A v \in Workers : pc'[v] = IF v = w THEN "running" ELSE pc[v]
      BY <2>1 DEF TypeOK
    <2>5. Running' = Running \cup {j}
      BY <2>3, <2>4 DEF Running
    <2>6. \A u, v \in Workers : task'[u] = task'[v] /\ task'[u] # NoJob => u = v
      BY <2>3, <2>4 DEF JobsConserved, Running
    <2>7. \A v \in Workers : task'[v] # NoJob <=> pc'[v] \in {"running", "notify"}
      BY <2>3, <2>4 DEF JobsConserved
    <2>8. /\ Queued' \cap Running' = {} /\ Queued' \cap finished' = {} /\ Running' \cap finished' = {}
          /\ Queued' \cup Running' \cup finished' = {k \in Jobs : verdict'[k] # "new"}
      BY <2>1, <2>2, <2>5 DEF JobsConserved
    <2> QED
      BY <2>2, <2>6, <2>7, <2>8 DEF JobsConserved
  <1> QED
    BY <1>1, <1>2

\* A job that returns goes from its worker to the finished ones.
LEMMA ReturnConserves ==
  ASSUME TypeOK, JobsConserved, NEW w \in Workers, TaskReturns(w)
  PROVE  JobsConserved'
  <1>1. /\ pc[w] = "running" /\ pc' = [pc EXCEPT ![w] = "ready"]
        /\ task' = [task EXCEPT ![w] = NoJob] /\ finished' = finished \cup {task[w]}
        /\ UNCHANGED <<jobs, verdict>>
    BY DEF TaskReturns
  <1>2. /\ \A v \in Workers : task'[v] = IF v = w THEN NoJob ELSE task[v]
        /\ \A v \in Workers : pc'[v] = IF v = w THEN "ready" ELSE pc[v]
    BY <1>1 DEF TypeOK
  <1>3. task[w] # NoJob /\ \A v \in Workers : v # w => task[v] # task[w]
    BY <1>1 DEF JobsConserved
  <1>4. Running' = Running \ {task[w]} /\ task[w] \in Running
    BY <1>2, <1>3 DEF Running
  <1>5. Queued' = Queued
    BY <1>1 DEF Queued
  <1>6. /\ \A i, k \in DOMAIN jobs' : jobs'[i] = jobs'[k] => i = k
        /\ \A u, v \in Workers : task'[u] = task'[v] /\ task'[u] # NoJob => u = v
        /\ \A v \in Workers : task'[v] # NoJob <=> pc'[v] \in {"running", "notify"}
    BY <1>1, <1>2 DEF JobsConserved
  <1>7. /\ Queued' \cap Running' = {} /\ Queued' \cap finished' = {} /\ Running' \cap finished' = {}
        /\ Queued' \cup Running' \cup finished' = {k \in Jobs : verdict'[k] # "new"}
    BY <1>1, <1>4, <1>5 DEF JobsConserved
  <1> QED
    BY <1>6, <1>7 DEF JobsConserved

LEMMA ConservedInductive ==
  ASSUME TypeOK, JobsConserved, [Next]_vars
  PROVE  JobsConserved'
  <1>1. ASSUME NEW j \in Jobs, OwnerSubmits(j) PROVE JobsConserved'
    BY <1>1, EnqueueConserves DEF OwnerSubmits
  <1>2. ASSUME NEW w \in Workers, NEW j \in Jobs, JobSubmits(w, j) PROVE JobsConserved'
    <2>1. \A v \in Workers : pc'[v] \in Busy <=> pc[v] \in Busy
      BY <1>2 DEF JobSubmits, TypeOK, Busy
    <2> QED
      BY <1>2, <2>1, EnqueueConserves DEF JobSubmits
  <1>3. CASE OwnerNotifies
    <2>1. pc \in [Workers -> PCs] /\ pc' \in Woken(pc)
      BY <1>3 DEF OwnerNotifies, TypeOK, PCs
    <2>2. \A v \in Workers : pc'[v] \in Busy <=> pc[v] \in Busy
      BY <2>1, WokenMoves DEF Busy
    <2> QED
      BY <1>3, <2>2, QuietConserves DEF OwnerNotifies
  <1>4. ASSUME NEW w \in Workers, JobNotifies(w) PROVE JobsConserved'
    <2> DEFINE mid == [pc EXCEPT ![w] = "running"]
    <2>1. mid \in [Workers -> PCs] /\ pc' \in Woken(mid)
          /\ \A v \in Workers : mid[v] \in Busy <=> pc[v] \in Busy
      BY <1>4 DEF JobNotifies, TypeOK, PCs, Busy
    <2> HIDE DEF mid
    <2>2. \A v \in Workers : pc'[v] \in Busy <=> mid[v] \in Busy
      BY <2>1, WokenMoves DEF Busy
    <2> QED
      BY <1>4, <2>1, <2>2, QuietConserves DEF JobNotifies
  <1>5. ASSUME NEW w \in Workers, Take(w) PROVE JobsConserved'
    BY <1>5, TakeConserves
  <1>6. ASSUME NEW w \in Workers, SpuriousWakeup(w) PROVE JobsConserved'
    BY <1>6, QuietConserves DEF SpuriousWakeup, TypeOK, Busy
  <1>7. ASSUME NEW w \in Workers, TaskReturns(w) PROVE JobsConserved'
    BY <1>7, ReturnConserves
  <1>8. CASE SetStop
    BY <1>8, QuietConserves DEF SetStop
  <1>9. CASE NotifyAll
    BY <1>9, QuietConserves DEF NotifyAll, TypeOK, Busy
  <1>10. CASE Join
    BY <1>10, QuietConserves DEF Join
  <1>11. CASE UNCHANGED vars
    BY <1>11, QuietConserves DEF vars
  <1> QED
    BY <1>1, <1>2, <1>3, <1>4, <1>5, <1>6, <1>7, <1>8, <1>9, <1>10, <1>11
    DEF Next, WorkerStep, OwnerStep

------------------------------------------------------------------------------
\* Wake-ups.

\* The workers that will look at the queue without another wake-up, or that
\* are about to wake up one.
OnTheWay == {w \in Workers : pc[w] \in {"ready", "notify"}}
Owed == IF owner = "notify" THEN 1 ELSE 0
Enough == ~stop /\ Waiting # {} => Len(jobs) <= Cardinality(OnTheWay) + Owed

LEMMA Wakeups ==
  /\ NoLostWakeup <=> (owner \in {"join", "gone"} => Waiting = {}) /\ Enough
  /\ NoLostWakeup' <=> (owner' \in {"join", "gone"} => Waiting' = {}) /\ Enough'
  BY DEF NoLostWakeup, Enough, OnTheWay, Owed

\* OnTheWay is finite, before and after a step, and a worker that joins or
\* leaves it makes a difference of one.
LEMMA Counting ==
  /\ Cardinality(OnTheWay) \in Nat /\ Cardinality(OnTheWay') \in Nat
  /\ \A w \in Workers :
       /\ w \notin OnTheWay /\ OnTheWay' = OnTheWay \cup {w}
            => Cardinality(OnTheWay') = Cardinality(OnTheWay) + 1
       /\ w \in OnTheWay /\ OnTheWay' = OnTheWay \ {w}
            => Cardinality(OnTheWay') = Cardinality(OnTheWay) - 1
  <1>1. IsFiniteSet(Workers)
    OBVIOUS
  <1>2. OnTheWay \in SUBSET Workers /\ OnTheWay' \in SUBSET Workers
    BY DEF OnTheWay
  <1>3. IsFiniteSet(OnTheWay) /\ IsFiniteSet(OnTheWay')
    BY <1>1, <1>2, FS_Subset
  <1>4. Cardinality(OnTheWay) \in Nat /\ Cardinality(OnTheWay') \in Nat
    BY <1>3, FS_CardinalityType
  <1> HIDE DEF OnTheWay
  <1> QED
    BY <1>3, <1>4, FS_AddElement, FS_RemoveElement

\* A step that keeps the length of the queue, the owner and __stop, and by
\* which workers only join those on the way, loses no wake-up.
LEMMA JoinersWake ==
  ASSUME TypeOK, NoLostWakeup, UNCHANGED <<jobs, stop, owner>>,
         Waiting' \subseteq Waiting,
         OnTheWay' = OnTheWay \/ \E w \in Workers : w \notin OnTheWay /\ OnTheWay' = OnTheWay \cup {w}
  PROVE  NoLostWakeup'
  <1>1. Cardinality(OnTheWay') >= Cardinality(OnTheWay)
    BY Counting
  <1>2. Len(jobs) \in Nat /\ Owed \in Nat /\ Owed' = Owed
    BY DEF TypeOK, Owed
  <1>3. Enough'
    BY <1>1, <1>2, Wakeups, Counting DEF Enough
  <1> QED
    BY <1>3, Wakeups

LEMMA WakeupInductive ==
  ASSUME TypeOK, JobsConserved, NoLostWakeup, StopSound, [Next]_vars
  PROVE  NoLostWakeup'
  <1>0. Len(jobs) \in Nat /\ Owed \in {0, 1} /\ Owed' \in {0, 1}
    BY DEF TypeOK, Owed
  <1>1. ASSUME NEW j \in Jobs, OwnerSubmits(j) PROVE NoLostWakeup'
    <2>1. Len(jobs') = Len(jobs) + 1
      BY <1>1, QueuedAppend DEF OwnerSubmits, Enqueue, TypeOK
    <2>2. Owed = 0 /\ Owed' = 1 /\ OnTheWay' = OnTheWay /\ Waiting' = Waiting
          /\ owner' = "notify" /\ stop' = stop
      BY <1>1 DEF OwnerSubmits, Owed, OnTheWay, Waiting
    <2> QED
      BY <1>0, <2>1, <2>2, Wakeups, Counting DEF Enough
  <1>2. ASSUME NEW w \in Workers, NEW j \in Jobs, JobSubmits(w, j) PROVE NoLostWakeup'
    <2>1. Len(jobs') = Len(jobs) + 1 /\ Owed' = Owed /\ owner' = owner /\ stop' = stop
      BY <1>2, QueuedAppend DEF JobSubmits, Enqueue, TypeOK, Owed
    <2>2. pc[w] = "running" /\ pc' = [pc EXCEPT ![w] = IF stop THEN "running" ELSE "notify"]
      BY <1>2 DEF JobSubmits
    <2>3. Waiting' = Waiting
      BY <2>2 DEF Waiting, TypeOK
    <2>4. ~stop => w \notin OnTheWay /\ OnTheWay' = OnTheWay \cup {w}
      BY <2>2 DEF OnTheWay, TypeOK
    <2>5. ~stop => Cardinality(OnTheWay') = Cardinality(OnTheWay) + 1
      BY <2>4, Counting
    <2> QED
      BY <1>0, <2>1, <2>3, <2>5, Wakeups, Counting DEF Enough
  <1>3. CASE OwnerNotifies
    <2>1. /\ owner = "notify" /\ owner' = "idle" /\ Owed = 1 /\ Owed' = 0
          /\ jobs' = jobs /\ stop' = stop
          /\ pc \in [Workers -> PCs] /\ pc' \in Woken(pc)
      BY <1>3 DEF OwnerNotifies, Owed, TypeOK, PCs
    <2>2. CASE pc' = pc /\ \A v \in Workers : pc[v] # "waiting"
      <3>1. Waiting' = {}
        BY <2>2 DEF Waiting
      <3> QED
        BY <3>1, Wakeups DEF Enough
    <2>3. ASSUME NEW v \in Workers, pc[v] = "waiting", pc' = [pc EXCEPT ![v] = "ready"]
          PROVE  NoLostWakeup'
      <3>1. v \notin OnTheWay /\ OnTheWay' = OnTheWay \cup {v} /\ v \in Waiting
        BY <2>1, <2>3 DEF OnTheWay, Waiting
      <3>2. Cardinality(OnTheWay') = Cardinality(OnTheWay) + 1
        BY <3>1, Counting
      <3> QED
        BY <1>0, <2>1, <3>1, <3>2, Wakeups, Counting DEF Enough
    <2> QED
      BY <2>1, <2>2, <2>3, WokenMoves
  <1>4. ASSUME NEW w \in Workers, JobNotifies(w) PROVE NoLostWakeup'
    <2> DEFINE mid == [pc EXCEPT ![w] = "running"]
    <2>1. /\ pc[w] = "notify" /\ pc' \in Woken(mid) /\ mid \in [Workers -> PCs]
          /\ jobs' = jobs /\ stop' = stop /\ owner' = owner /\ Owed' = Owed
          /\ \A v \in Workers : mid[v] = IF v = w THEN "running" ELSE pc[v]
      BY <1>4 DEF JobNotifies, TypeOK, PCs, Owed
    <2> HIDE DEF mid
    <2>2. CASE pc' = mid /\ \A v \in Workers : mid[v] # "waiting"
      <3>1. Waiting' = {}
        BY <2>2 DEF Waiting
      <3> QED
        BY <3>1, Wakeups DEF Enough
    <2>3. ASSUME NEW v \in Workers, mid[v] = "waiting", pc' = [mid EXCEPT ![v] = "ready"]
          PROVE  NoLostWakeup'
      <3>1. v # w /\ pc[v] = "waiting" /\ \A u \in Workers :
              pc'[u] = IF u = v THEN "ready" ELSE IF u = w THEN "running" ELSE pc[u]
        BY <2>1, <2>3
      <3>2. Waiting' \subseteq Waiting /\ v \in Waiting
        BY <3>1 DEF Waiting
      <3>3. w \in OnTheWay /\ v \notin OnTheWay /\ OnTheWay' = (OnTheWay \ {w}) \cup {v}
        BY <2>1, <3>1 DEF OnTheWay
      <3>4. Cardinality(OnTheWay') = Cardinality(OnTheWay)
        <4>1. IsFiniteSet(OnTheWay)
          BY FS_Subset DEF OnTheWay
        <4>2. IsFiniteSet(OnTheWay \ {w}) /\ Cardinality(OnTheWay \ {w}) = Cardinality(OnTheWay) - 1
          BY <3>3, <4>1, FS_RemoveElement
        <4>3. Cardinality((OnTheWay \ {w}) \cup {v}) = Cardinality(OnTheWay \ {w}) + 1
          BY <3>3, <4>2, FS_AddElement
        <4> QED
          BY <3>3, <4>2, <4>3, Counting
      <3> QED
        BY <1>0, <2>1, <3>2, <3>4, Wakeups, Counting DEF Enough
    <2> QED
      BY <2>1, <2>2, <2>3, WokenMoves
  <1>5. ASSUME NEW w \in Workers, Take(w) PROVE NoLostWakeup'
    <2>1. pc[w] = "ready" /\ w \in OnTheWay /\ owner' = owner /\ stop' = stop /\ Owed' = Owed
      BY <1>5 DEF Take, OnTheWay, Owed
    <2>2. CASE jobs = <<>>
      <3>1. jobs' = jobs /\ Len(jobs) = 0 /\ pc' = [pc EXCEPT ![w] = IF stop THEN "exited" ELSE "waiting"]
        BY <1>5, <2>2 DEF Take
      <3>2. owner \in {"join", "gone"} => stop
        BY DEF StopSound
      <3>3. stop => Waiting' \subseteq Waiting
        BY <3>1 DEF Waiting, TypeOK
      <3> QED
        BY <1>0, <2>1, <3>1, <3>2, <3>3, Wakeups, Counting DEF Enough
    <2>3. CASE jobs # <<>>
      <3>1. /\ jobs' = Tail(jobs) /\ pc' = [pc EXCEPT ![w] = "running"]
            /\ Len(jobs') = Len(jobs) - 1
        BY <1>5, <2>3 DEF Take, TypeOK
      <3>2. Waiting' = Waiting /\ OnTheWay' = OnTheWay \ {w}
        BY <2>1, <3>1 DEF Waiting, OnTheWay, TypeOK
      <3>3. Cardinality(OnTheWay') = Cardinality(OnTheWay) - 1
        BY <2>1, <3>2, Counting
      <3> QED
        BY <1>0, <2>1, <3>1, <3>2, <3>3, Wakeups, Counting DEF Enough
    <2> QED
      BY <2>2, <2>3
  <1>6. ASSUME NEW w \in Workers, SpuriousWakeup(w) PROVE NoLostWakeup'
    <2>1. /\ pc[w] = "waiting" /\ pc' = [pc EXCEPT ![w] = "ready"]
          /\ UNCHANGED <<jobs, stop, owner>>
      BY <1>6 DEF SpuriousWakeup
    <2>2. Waiting' \subseteq Waiting /\ w \notin OnTheWay /\ OnTheWay' = OnTheWay \cup {w}
      BY <2>1 DEF Waiting, OnTheWay, TypeOK
    <2> QED
      BY <2>1, <2>2, JoinersWake
  <1>7. ASSUME NEW w \in Workers, TaskReturns(w) PROVE NoLostWakeup'
    <2>1. /\ pc[w] = "running" /\ pc' = [pc EXCEPT ![w] = "ready"]
          /\ UNCHANGED <<jobs, stop, owner>>
      BY <1>7 DEF TaskReturns
    <2>2. Waiting' \subseteq Waiting /\ w \notin OnTheWay /\ OnTheWay' = OnTheWay \cup {w}
      BY <2>1 DEF Waiting, OnTheWay, TypeOK
    <2> QED
      BY <2>1, <2>2, JoinersWake
  <1>8. CASE SetStop
    BY <1>8, Wakeups DEF SetStop, Enough
  <1>9. CASE NotifyAll
    <2>1. Waiting' = {}
      BY <1>9 DEF NotifyAll, Waiting, TypeOK
    <2> QED
      BY <2>1, Wakeups DEF Enough
  <1>10. CASE Join
    <2>1. Waiting' = Waiting /\ owner = "join"
      BY <1>10 DEF Join, Waiting
    <2> QED
      BY <2>1, Wakeups DEF Enough
  <1>11. CASE UNCHANGED vars
    BY <1>11, JoinersWake DEF vars, Waiting, OnTheWay
  <1> QED
    BY <1>1, <1>2, <1>3, <1>4, <1>5, <1>6, <1>7, <1>8, <1>9, <1>10, <1>11
    DEF Next, WorkerStep, OwnerStep

------------------------------------------------------------------------------
\* The destructor.

LEMMA StopInductive == ASSUME TypeOK, StopSound, [Next]_vars PROVE StopSound'
  BY DEF TypeOK, StopSound, Next, vars, OwnerStep, WorkerStep, OwnerSubmits, JobSubmits,
         OwnerNotifies, JobNotifies, Take, SpuriousWakeup, TaskReturns, SetStop, NotifyAll, Join

\* A step that submits nothing, lets no worker leave and ends nothing keeps
\* what is known of a drained queue.
LEMMA QuietDrained ==
  ASSUME TypeOK, Drained, UNCHANGED <<verdict, owner>>, stop => stop',
         Queued' \subseteq Queued,
         \A v \in Workers : pc'[v] = "exited" <=> pc[v] = "exited"
  PROVE  Drained'
  BY DEF Drained

LEMMA DrainedInductive ==
  ASSUME TypeOK, JobsConserved, StopSound, Drained, [Next]_vars
  PROVE  Drained'
  <1>1. ASSUME NEW j \in Jobs, OwnerSubmits(j) PROVE Drained'
    <2>1. ~stop /\ pc' = pc /\ owner' = "notify"
      BY <1>1 DEF OwnerSubmits, StopSound
    <2> QED
      BY <2>1 DEF Drained
  <1>2. ASSUME NEW w \in Workers, NEW j \in Jobs, JobSubmits(w, j) PROVE Drained'
    <2>1. /\ pc[w] = "running" /\ owner' = owner /\ stop' = stop
          /\ \A v \in Workers : pc'[v] = "exited" <=> pc[v] = "exited"
      BY <1>2 DEF JobSubmits, TypeOK
    <2>2. Queued' = Queued \cup {j}
      BY <1>2, QueuedAppend, QueuedElements DEF JobSubmits, Enqueue, TypeOK
    <2>3. verdict' = [verdict EXCEPT ![j] = IF stop THEN "rejected" ELSE "accepted"]
          /\ verdict \in [Jobs -> {"new", "accepted", "rejected"}]
      BY <1>2 DEF JobSubmits, Enqueue, TypeOK
    <2>4. Queued \subseteq Jobs
      BY DEF Queued, TypeOK
    <2>5. stop => verdict'[j] = "rejected" /\ \A k \in Jobs : k # j => verdict'[k] = verdict[k]
      BY <2>3
    <2> QED
      BY <2>1, <2>2, <2>4, <2>5 DEF Drained
  <1>3. CASE OwnerNotifies
    <2>1. /\ owner' = "idle" /\ UNCHANGED <<jobs, verdict, stop>>
          /\ pc \in [Workers -> PCs] /\ pc' \in Woken(pc)
      BY <1>3 DEF OwnerNotifies, TypeOK, PCs
    <2>2. \A v \in Workers : pc'[v] = "exited" <=> pc[v] = "exited"
      BY <2>1, WokenMoves
    <2> QED
      BY <2>1, <2>2 DEF Drained, Queued
  <1>4. ASSUME NEW w \in Workers, JobNotifies(w) PROVE Drained'
    <2> DEFINE mid == [pc EXCEPT ![w] = "running"]
    <2>1. mid \in [Workers -> PCs] /\ pc' \in Woken(mid)
          /\ UNCHANGED <<jobs, verdict, stop, owner>>
          /\ \A v \in Workers : mid[v] = "exited" <=> pc[v] = "exited"
      BY <1>4 DEF JobNotifies, TypeOK, PCs
    <2> HIDE DEF mid
    <2>2. \A v \in Workers : pc'[v] = "exited" <=> mid[v] = "exited"
      BY <2>1, WokenMoves
    <2> QED
      BY <2>1, <2>2, QuietDrained DEF Queued
  <1>5. ASSUME NEW w \in Workers, Take(w) PROVE Drained'
    <2>1. pc[w] = "ready" /\ UNCHANGED <<stop, owner, verdict>>
      BY <1>5 DEF Take
    <2>2. CASE jobs = <<>>
      <3>1. jobs' = jobs /\ Queued' = {}
            /\ pc' = [pc EXCEPT ![w] = IF stop THEN "exited" ELSE "waiting"]
        BY <1>5, <2>2 DEF Take, Queued
      <3> QED
        BY <2>1, <3>1 DEF Drained, TypeOK
    <2>3. CASE jobs # <<>>
      <3>1. /\ jobs' = Tail(jobs)
            /\ \A v \in Workers : pc'[v] = "exited" <=> pc[v] = "exited"
        BY <1>5, <2>3 DEF Take, TypeOK
      <3>2. jobs \in Seq(Jobs) /\ \A i, k \in DOMAIN jobs : jobs[i] = jobs[k] => i = k
        BY DEF TypeOK, JobsConserved
      <3>3. Queued' \subseteq Queued
        BY <2>3, <3>1, <3>2, QueuedTail, QueuedElements
      <3> QED
        BY <2>1, <3>1, <3>3, QuietDrained
    <2> QED
      BY <2>2, <2>3
  <1>6. ASSUME NEW w \in Workers, SpuriousWakeup(w) PROVE Drained'
    BY <1>6, QuietDrained DEF SpuriousWakeup, TypeOK, Queued
  <1>7. ASSUME NEW w \in Workers, TaskReturns(w) PROVE Drained'
    BY <1>7, QuietDrained DEF TaskReturns, TypeOK, Queued
  <1>8. CASE SetStop
    BY <1>8 DEF SetStop, Drained, Queued
  <1>9. CASE NotifyAll
    <2>1. /\ owner' = "join" /\ UNCHANGED <<jobs, verdict, stop>>
          /\ \A v \in Workers : pc'[v] = "exited" <=> pc[v] = "exited"
      BY <1>9 DEF NotifyAll, TypeOK
    <2> QED
      BY <2>1 DEF Drained, Queued
  <1>10. CASE Join
    BY <1>10 DEF Join, Drained, Queued
  <1>11. CASE UNCHANGED vars
    BY <1>11, QuietDrained DEF vars, Queued
  <1> QED
    BY <1>1, <1>2, <1>3, <1>4, <1>5, <1>6, <1>7, <1>8, <1>9, <1>10, <1>11
    DEF Next, WorkerStep, OwnerStep

------------------------------------------------------------------------------
\* What was refused stands behind what was accepted.

\* A job that is accepted when the step is over.
Taken(j) == verdict'[j] = "accepted"

\* A step that submits nothing and leaves the queue alone.
LEMMA QuietRefused ==
  ASSUME RefusedLast, UNCHANGED <<jobs, verdict>>, stop => stop'
  PROVE  RefusedLast'
  BY DEF RefusedLast, Accepted

\* A submission puts an accepted job behind accepted ones, or a refused one
\* behind all the others.
LEMMA EnqueueRefused ==
  ASSUME TypeOK, JobsConserved, RefusedLast, NEW j \in Jobs, Enqueue(j), UNCHANGED stop
  PROVE  RefusedLast'
  <1>1. /\ DOMAIN jobs' = 1 .. (Len(jobs) + 1) /\ DOMAIN jobs = 1 .. Len(jobs) /\ Len(jobs) \in Nat
        /\ \A i \in DOMAIN jobs : jobs'[i] = jobs[i] /\ jobs[i] \in Jobs
        /\ jobs'[Len(jobs) + 1] = j
    BY DEF TypeOK, Enqueue
  <1>2. \A i \in DOMAIN jobs : jobs[i] # j
    BY DEF Enqueue, JobsConserved, Queued
  <1>3. /\ verdict'[j] = IF stop THEN "rejected" ELSE "accepted"
        /\ \A k \in Jobs : k # j => verdict'[k] = verdict[k]
    BY DEF TypeOK, Enqueue
  <1>4. \A i \in DOMAIN jobs : Taken(jobs'[i]) <=> Accepted(jobs[i])
    BY <1>1, <1>2, <1>3 DEF Accepted, Taken
  <1>5. ~stop => \A i \in DOMAIN jobs : Accepted(jobs[i])
    <2>1. ASSUME ~stop, NEW i \in DOMAIN jobs PROVE verdict[jobs[i]] = "accepted"
      <3>1. jobs[i] \in Queued /\ jobs[i] \in Jobs
        BY <1>1 DEF Queued
      <3>2. verdict[jobs[i]] # "new" /\ verdict[jobs[i]] # "rejected"
        BY <2>1, <3>1 DEF JobsConserved, RefusedLast
      <3> QED
        BY <3>1, <3>2 DEF TypeOK
    <2> QED
      BY <2>1 DEF Accepted, Taken
  <1>6. Taken(j) <=> ~stop
    BY <1>3 DEF Taken
  <1>7. \A i, k \in DOMAIN jobs' : i < k /\ Taken(jobs'[k]) => Taken(jobs'[i])
    <2> SUFFICES ASSUME NEW i \in DOMAIN jobs', NEW k \in DOMAIN jobs', i < k, Taken(jobs'[k])
                 PROVE  Taken(jobs'[i])
      OBVIOUS
    <2>1. i \in DOMAIN jobs
      BY <1>1
    <2>2. CASE k \in DOMAIN jobs
      BY <1>4, <2>1, <2>2 DEF RefusedLast
    <2>3. CASE k = Len(jobs) + 1
      BY <1>1, <1>4, <1>5, <1>6, <2>1, <2>3
    <2> QED
      BY <1>1, <2>2, <2>3
  <1>8. ~stop' => \A k \in Jobs : verdict'[k] # "rejected"
    BY <1>3 DEF RefusedLast
  <1> QED
    BY <1>7, <1>8 DEF RefusedLast, Accepted, Taken

LEMMA RefusedInductive ==
  ASSUME TypeOK, JobsConserved, RefusedLast, [Next]_vars
  PROVE  RefusedLast'
  <1>1. ASSUME NEW j \in Jobs, OwnerSubmits(j) PROVE RefusedLast'
    BY <1>1, EnqueueRefused DEF OwnerSubmits
  <1>2. ASSUME NEW w \in Workers, NEW j \in Jobs, JobSubmits(w, j) PROVE RefusedLast'
    BY <1>2, EnqueueRefused DEF JobSubmits
  <1>3. ASSUME NEW w \in Workers, Take(w) PROVE RefusedLast'
    <2>1. UNCHANGED <<stop, verdict>>
      BY <1>3 DEF Take
    <2>2. CASE jobs = <<>>
      BY <1>3, <2>1, <2>2, QuietRefused DEF Take
    <2>3. CASE jobs # <<>>
      <3>1. jobs' = Tail(jobs)
        BY <1>3, <2>3 DEF Take
      <3>2. /\ \A i \in DOMAIN jobs' : i \in Int /\ jobs'[i] = jobs[i + 1] /\ i + 1 \in DOMAIN jobs
        BY <2>3, <3>1 DEF TypeOK
      <3>3. \A i, k \in DOMAIN jobs' : i < k => i + 1 < k + 1
        BY <3>2
      <3>4. \A i \in DOMAIN jobs' : Taken(jobs'[i]) <=> Accepted(jobs[i + 1])
        BY <2>1, <3>2 DEF Accepted, Taken
      <3> QED
        BY <2>1, <3>2, <3>3, <3>4 DEF RefusedLast, Accepted, Taken
    <2> QED
      BY <2>2, <2>3
  <1>4. CASE \/ OwnerStep \/ SetStop \/ UNCHANGED vars
             \/ \E w \in Workers : TaskReturns(w) \/ JobNotifies(w) \/ SpuriousWakeup(w)
    <2>1. UNCHANGED <<jobs, verdict>> /\ (stop' = stop \/ stop')
      <3>1. CASE SetStop
        BY <3>1 DEF SetStop
      <3>2. CASE OwnerStep
        BY <3>2 DEF OwnerStep, OwnerNotifies, NotifyAll, Join
      <3>3. ASSUME NEW w \in Workers, TaskReturns(w) \/ JobNotifies(w) \/ SpuriousWakeup(w)
            PROVE  UNCHANGED <<jobs, verdict, stop>>
        BY <3>3 DEF TaskReturns, JobNotifies, SpuriousWakeup
      <3> QED
        BY <1>4, <3>1, <3>2, <3>3 DEF vars
    <2> QED
      BY <2>1, QuietRefused
  <1> QED
    BY <1>1, <1>2, <1>3, <1>4 DEF Next, WorkerStep

------------------------------------------------------------------------------
\* The theorems.

LEMMA InitInv == Init => PoolInv
  <1> SUFFICES ASSUME Init PROVE PoolInv
    OBVIOUS
  <1>1. TypeOK
    <2>1. <<>> \in Seq(Jobs)
      OBVIOUS
    <2>2. /\ jobs = <<>> /\ stop = FALSE /\ owner = "idle" /\ finished = {}
          /\ pc = [w \in Workers |-> "ready"] /\ task = [w \in Workers |-> NoJob]
          /\ verdict = [j \in Jobs |-> "new"]
      BY DEF Init
    <2> QED
      BY <2>1, <2>2 DEF TypeOK
  <1>2. Queued = {} /\ Running = {} /\ Waiting = {}
    BY DEF Init, Queued, Running, Waiting
  <1>3. JobsConserved
    BY <1>2 DEF Init, JobsConserved
  <1>4. NoLostWakeup /\ StopSound /\ Drained /\ RefusedLast
    BY <1>2 DEF Init, NoLostWakeup, StopSound, Drained, RefusedLast
  <1> QED
    BY <1>1, <1>3, <1>4 DEF PoolInv

LEMMA InvInductive == PoolInv /\ [Next]_vars => PoolInv'
  <1> SUFFICES ASSUME PoolInv, [Next]_vars PROVE PoolInv'
    OBVIOUS
  <1>1. TypeOK'
    BY TypeInductive DEF PoolInv, JobsConserved
  <1>2. JobsConserved' /\ NoLostWakeup' /\ StopSound' /\ Drained' /\ RefusedLast'
    BY ConservedInductive, WakeupInductive, StopInductive, DrainedInductive, RefusedInductive
    DEF PoolInv
  <1> QED
    BY <1>1, <1>2 DEF PoolInv

\* The types and the inductive invariant of the pool, whatever jobs submit and
\* whenever it is destroyed.
THEOREM PoolInvariance == Spec => []PoolInv
  BY InitInv, InvInductive, PTL DEF Spec

\* Every variable of the pool keeps its type.
THEOREM PoolTypes == Spec => []TypeOK
  <1>1. PoolInv => TypeOK
    BY DEF PoolInv
  <1> QED
    BY <1>1, PoolInvariance, PTL

\* asyncRunJob and the workers lose no job and run none twice.
THEOREM JobsAreConserved == Spec => []JobsConserved
  <1>1. PoolInv => JobsConserved
    BY DEF PoolInv
  <1> QED
    BY <1>1, PoolInvariance, PTL

\* __qchange: while workers sleep there is somebody on the way for every job.
THEOREM WakeupsAreKept == Spec => []NoLostWakeup
  <1>1. PoolInv => NoLostWakeup
    BY DEF PoolInv
  <1> QED
    BY <1>1, PoolInvariance, PTL

\* ~ThreadPool: a pool that has workers is empty of accepted jobs when its
\* destructor returns.
THEOREM DestructorLeavesNothing ==
  ASSUME Workers # {}
  PROVE  Spec => []DestructorDrains
  <1>1. PoolInv => DestructorDrains
    <2> SUFFICES ASSUME PoolInv, owner = "gone"
                 PROVE  /\ \A j \in Jobs : verdict[j] = "accepted" => j \in finished
                        /\ \A w \in Workers : pc[w] = "exited"
      BY DEF DestructorDrains
    <2>1. \A w \in Workers : pc[w] = "exited"
      BY DEF PoolInv, Drained
    <2>2. \A j \in Queued : verdict[j] = "rejected"
      BY <2>1 DEF PoolInv, Drained
    <2>3. Running = {}
      BY <2>1 DEF PoolInv, JobsConserved, Running
    <2>4. \A j \in Jobs : verdict[j] = "accepted" => j \in Queued \cup Running \cup finished
      BY DEF PoolInv, JobsConserved
    <2> QED
      BY <2>1, <2>2, <2>3, <2>4
  <1> QED
    BY <1>1, PoolInvariance, PTL

------------------------------------------------------------------------------
\* The queue of the accepted jobs.

\* The accepted jobs are the first n of the queue.
LEMMA AcceptedFirst ==
  ASSUME TypeOK, RefusedLast
  PROVE  \E n \in 0 .. Len(jobs) :
           /\ \A i \in DOMAIN jobs : Accepted(jobs[i]) <=> i <= n
           /\ AcceptedJobs = [i \in 1 .. n |-> jobs[i]]
<1> DEFINE R == {k \in DOMAIN jobs : ~Accepted(jobs[k])}
<1>1. DOMAIN jobs = 1 .. Len(jobs) /\ Len(jobs) \in Nat
  BY DEF TypeOK
<1>2. SUFFICES \E n \in 0 .. Len(jobs) : \A i \in DOMAIN jobs : Accepted(jobs[i]) <=> i <= n
  <2>1. ASSUME NEW n \in 0 .. Len(jobs), \A i \in DOMAIN jobs : Accepted(jobs[i]) <=> i <= n
        PROVE  AcceptedJobs = [i \in 1 .. n |-> jobs[i]]
    <3>1. {k \in DOMAIN jobs : Accepted(jobs[k])} = 1 .. n
      BY <1>1, <2>1
    <3> QED
      BY <3>1 DEF AcceptedJobs
  <2> QED
    BY <2>1
<1>3. CASE R = {}
  <2>1. \A i \in DOMAIN jobs : Accepted(jobs[i]) /\ i <= Len(jobs)
    BY <1>1, <1>3
  <2>2. Len(jobs) \in 0 .. Len(jobs)
    BY <1>1
  <2> QED
    BY <2>1, <2>2
<1>4. CASE R # {}
  <2>1. R \in SUBSET Nat
    BY <1>1
  <2>2. PICK l \in R : \A k \in R : l <= k
    BY <1>4, <2>1, LeastNumber
  <2>3. l \in 1 .. Len(jobs) /\ ~Accepted(jobs[l])
    BY <1>1
  <2>4. \A i \in DOMAIN jobs : i < l => Accepted(jobs[i])
    BY <1>1, <2>2, <2>3
  <2>5. \A i \in DOMAIN jobs : l < i => ~Accepted(jobs[i])
    BY <1>1, <2>3 DEF RefusedLast
  <2>6. \A i \in DOMAIN jobs : Accepted(jobs[i]) <=> i <= l - 1
    BY <1>1, <2>3, <2>4, <2>5
  <2>7. l - 1 \in 0 .. Len(jobs)
    BY <1>1, <2>3
  <2> QED
    BY <2>6, <2>7
<1> QED
  BY <1>3, <1>4

\* What a step that submits no job leaves of what was accepted.
LEMMA QuietQueue ==
  ASSUME UNCHANGED <<jobs, task, verdict, finished>>
  PROVE  UNCHANGED Q!vars
  BY DEF Q!vars, AcceptedJobs, AcceptedRunning, AcceptedFinished, Accepted, Running

\* asyncRunJob submits the job to the queue of the accepted ones, or throws and
\* leaves it as it is.
LEMMA EnqueueSubmits ==
  ASSUME TypeOK, PoolInv, NEW j \in Jobs, Enqueue(j), UNCHANGED <<stop, task, finished>>
  PROVE  Q!Submit(j) \/ UNCHANGED Q!vars
<1>1. /\ jobs' = Append(jobs, j) /\ jobs \in Seq(Jobs) /\ jobs' \in Seq(Jobs)
      /\ DOMAIN jobs' = 1 .. (Len(jobs) + 1) /\ DOMAIN jobs = 1 .. Len(jobs) /\ Len(jobs) \in Nat
      /\ \A i \in DOMAIN jobs : jobs'[i] = jobs[i] /\ jobs[i] \in Jobs
      /\ jobs'[Len(jobs) + 1] = j
  BY DEF TypeOK, Enqueue
<1>2. /\ j \notin Queued /\ j \notin Running /\ j \notin finished
      /\ Queued \cup Running \cup finished \subseteq Jobs
  BY DEF PoolInv, JobsConserved, Enqueue
<1>3. /\ verdict'[j] = IF stop THEN "rejected" ELSE "accepted"
      /\ \A k \in Jobs : k # j => verdict'[k] = verdict[k]
  BY DEF TypeOK, Enqueue
<1>4. \A i \in DOMAIN jobs : jobs[i] # j
  BY <1>2 DEF Queued
<1>5. \A i \in DOMAIN jobs : Taken(jobs'[i]) <=> Accepted(jobs[i])
  BY <1>1, <1>3, <1>4 DEF Taken, Accepted
<1>6. Running' = Running
  BY DEF Running
<1>7. UNCHANGED <<AcceptedRunning, AcceptedFinished>>
  BY <1>2, <1>3, <1>6 DEF AcceptedRunning, AcceptedFinished, Accepted
<1>8. AcceptedJobs' = [i \in {k \in DOMAIN jobs' : Taken(jobs'[k])} |-> jobs'[i]]
  BY DEF AcceptedJobs, Accepted, Taken
<1>9. CASE stop
  <2>1. ~Taken(j)
    BY <1>3, <1>9 DEF Taken
  <2>2. {k \in DOMAIN jobs' : Taken(jobs'[k])} = {k \in DOMAIN jobs : Accepted(jobs[k])}
    BY <1>1, <1>5, <2>1
  <2>3. AcceptedJobs' = AcceptedJobs
    BY <1>1, <1>8, <2>2 DEF AcceptedJobs
  <2> QED
    BY <1>7, <2>3 DEF Q!vars
<1>10. CASE ~stop
  <2>1. \A i \in DOMAIN jobs : Accepted(jobs[i])
    <3> SUFFICES ASSUME NEW i \in DOMAIN jobs PROVE verdict[jobs[i]] = "accepted"
      BY DEF Accepted
    <3>1. jobs[i] \in Queued /\ jobs[i] \in Jobs
      BY <1>1 DEF Queued
    <3>2. verdict[jobs[i]] # "new" /\ verdict[jobs[i]] # "rejected"
      BY <1>10, <3>1 DEF PoolInv, JobsConserved, RefusedLast
    <3> QED
      BY <3>1, <3>2 DEF TypeOK
  <2>2. Taken(j)
    BY <1>3, <1>10 DEF Taken
  <2>3. AcceptedJobs = jobs
    <3>1. {k \in DOMAIN jobs : Accepted(jobs[k])} = DOMAIN jobs
      BY <2>1
    <3>2. jobs = [i \in DOMAIN jobs |-> jobs[i]]
      BY <1>1
    <3> QED
      BY <3>1, <3>2 DEF AcceptedJobs
  <2>4. AcceptedJobs' = jobs'
    <3>1. {k \in DOMAIN jobs' : Taken(jobs'[k])} = DOMAIN jobs'
      BY <1>1, <1>5, <2>1, <2>2
    <3>2. jobs' = [i \in DOMAIN jobs' |-> jobs'[i]]
      <4> DEFINE q == jobs'
      <4>1. q \in Seq(Jobs)
        BY <1>1
      <4> HIDE DEF q
      <4>2. q = [i \in DOMAIN q |-> q[i]]
        BY <4>1
      <4> QED
        BY <4>2 DEF q
    <3> QED
      BY <1>8, <3>1, <3>2
  <2>5. j \notin AcceptedRunning \cup AcceptedFinished
    BY <1>2 DEF AcceptedRunning, AcceptedFinished
  <2> QED
    BY <1>1, <1>4, <1>7, <2>3, <2>4, <2>5 DEF Q!Submit
<1> QED
  BY <1>9, <1>10

\* A worker that takes an accepted job starts the first of the queue, with
\* room for it; once a refused one comes, the queue of the others is empty.
LEMMA TakeStarts ==
  ASSUME TypeOK, PoolInv, NEW w \in Workers, Take(w), jobs # <<>>
  PROVE  Q!Start \/ UNCHANGED Q!vars
<1> DEFINE j == Head(jobs)
<1>1. /\ pc[w] = "ready" /\ task' = [task EXCEPT ![w] = j] /\ jobs' = Tail(jobs)
      /\ UNCHANGED <<verdict, finished>>
  BY DEF Take
<1>2. /\ DOMAIN jobs = 1 .. Len(jobs) /\ Len(jobs) \in Nat \ {0}
      /\ DOMAIN jobs' = 1 .. (Len(jobs) - 1)
      /\ \A i \in DOMAIN jobs' : jobs'[i] = jobs[i + 1]
      /\ j = jobs[1] /\ j \in Jobs
  BY <1>1 DEF TypeOK
<1>3. task[w] = NoJob /\ j # NoJob
  BY <1>1, <1>2 DEF PoolInv, JobsConserved
<1> HIDE DEF j
<1>4. Running' = Running \cup {j}
  <2>1. \A v \in Workers : task'[v] = IF v = w THEN j ELSE task[v]
    BY <1>1 DEF TypeOK
  <2> QED
    BY <1>3, <2>1 DEF Running
<1>5. PICK n \in 0 .. Len(jobs) :
        /\ \A i \in DOMAIN jobs : Accepted(jobs[i]) <=> i <= n
        /\ AcceptedJobs = [i \in 1 .. n |-> jobs[i]]
  BY AcceptedFirst DEF PoolInv
<1>6. \A i \in DOMAIN jobs' : Accepted(jobs'[i]) <=> i + 1 <= n
  BY <1>2, <1>5
<1>7. AcceptedJobs' = [i \in {k \in DOMAIN jobs' : Accepted(jobs'[k])} |-> jobs'[i]]
  BY <1>1 DEF AcceptedJobs, Accepted
<1>8. AcceptedFinished' = AcceptedFinished /\ AcceptedRunning' = {k \in Running' : Accepted(k)}
  BY <1>1 DEF AcceptedFinished, AcceptedRunning, Accepted
<1>9. CASE n = 0
  <2>1. ~Accepted(j)
    BY <1>2, <1>5, <1>9
  <2>2. AcceptedRunning' = AcceptedRunning
    BY <1>4, <1>8, <2>1 DEF AcceptedRunning
  <2>3. {k \in DOMAIN jobs' : Accepted(jobs'[k])} = {} /\ 1 .. n = {}
    BY <1>2, <1>6, <1>9
  <2>4. AcceptedJobs' = AcceptedJobs
    BY <1>5, <1>7, <2>3
  <2> QED
    BY <1>8, <2>2, <2>4 DEF Q!vars
<1>10. CASE n # 0
  <2>1. Accepted(j)
    BY <1>2, <1>5, <1>10
  <2>2. AcceptedRunning' = AcceptedRunning \cup {j}
    BY <1>4, <1>8, <2>1 DEF AcceptedRunning
  <2>3. AcceptedJobs \in Seq(Jobs) /\ AcceptedJobs # <<>> /\ Head(AcceptedJobs) = j
    <3>1. \A i \in 1 .. n : jobs[i] \in Jobs
      BY <1>2, <1>5 DEF TypeOK
    <3> QED
      BY <1>2, <1>5, <1>10, <3>1
  <2>4. AcceptedJobs' = Tail(AcceptedJobs)
    <3>1. {k \in DOMAIN jobs' : Accepted(jobs'[k])} = 1 .. (n - 1)
      BY <1>2, <1>5, <1>6, <1>10
    <3>2. AcceptedJobs' = [i \in 1 .. (n - 1) |-> jobs[i + 1]]
      BY <1>2, <1>5, <1>7, <1>10, <3>1
    <3>3. Tail(AcceptedJobs) = [i \in 1 .. (n - 1) |-> AcceptedJobs[i + 1]]
      BY <1>5, <1>10, <2>3
    <3>4. \A i \in 1 .. (n - 1) : AcceptedJobs[i + 1] = jobs[i + 1]
      BY <1>5
    <3> QED
      BY <3>2, <3>3, <3>4
  <2>5. Cardinality(AcceptedRunning) < Cardinality(Workers)
    <3> DEFINE Others == Workers \ {w}
               Tasks == {task[v] : v \in Others}
    <3>1. IsFiniteSet(Others) /\ Cardinality(Others) = Cardinality(Workers) - 1
          /\ Cardinality(Workers) \in Nat /\ Cardinality(Others) \in Nat
      BY FS_RemoveElement, FS_CardinalityType
    <3>2. IsFiniteSet(Tasks) /\ Cardinality(Tasks) <= Cardinality(Others)
      <4>1. [v \in Others |-> task[v]] \in Surjection(Others, Tasks)
        BY DEF Surjection
      <4> QED
        BY <3>1, <4>1, FS_Surjection
    <3>3. AcceptedRunning \in SUBSET Tasks
      BY <1>3 DEF AcceptedRunning, Running
    <3>4. Cardinality(AcceptedRunning) <= Cardinality(Tasks)
          /\ Cardinality(AcceptedRunning) \in Nat /\ Cardinality(Tasks) \in Nat
      BY <3>2, <3>3, FS_Subset, FS_CardinalityType
    <3> QED
      BY <3>1, <3>2, <3>4
  <2>6. /\ AcceptedRunning' = AcceptedRunning \cup {Head(AcceptedJobs)}
        /\ AcceptedFinished' = AcceptedFinished
    BY <1>8, <2>2, <2>3
  <2>7. Q!Cardinality(AcceptedRunning) = Cardinality(AcceptedRunning)
    BY Zenon DEF Q!Cardinality, Cardinality, Q!IsFiniteSet, IsFiniteSet
  <2>8. Q!Start
    BY <2>3, <2>4, <2>5, <2>6, <2>7 DEF Q!Start
  <2> QED
    BY <2>8
<1> QED
  BY <1>9, <1>10

\* A task that returns finishes its job, or one that was refused.
LEMMA ReturnFinishes ==
  ASSUME TypeOK, PoolInv, NEW w \in Workers, TaskReturns(w)
  PROVE  (\E j \in Jobs : Q!Finish(j)) \/ UNCHANGED Q!vars
<1>1. /\ pc[w] = "running" /\ finished' = finished \cup {task[w]}
      /\ task' = [task EXCEPT ![w] = NoJob] /\ UNCHANGED <<jobs, verdict>>
  BY DEF TaskReturns
<1>2. task[w] # NoJob /\ task[w] \in Jobs /\ \A v \in Workers : v # w => task[v] # task[w]
  BY <1>1 DEF PoolInv, JobsConserved, TypeOK
<1>3. Running' = Running \ {task[w]} /\ task[w] \in Running
  <2>1. \A v \in Workers : task'[v] = IF v = w THEN NoJob ELSE task[v]
    BY <1>1 DEF TypeOK
  <2> QED
    BY <1>2, <2>1 DEF Running
<1>4. /\ AcceptedJobs' = AcceptedJobs
      /\ AcceptedRunning' = {k \in Running' : Accepted(k)}
      /\ AcceptedFinished' = {k \in finished' : Accepted(k)}
  BY <1>1 DEF AcceptedJobs, AcceptedRunning, AcceptedFinished, Accepted
<1>5. CASE Accepted(task[w])
  <2>1. /\ task[w] \in AcceptedRunning
        /\ AcceptedRunning' = AcceptedRunning \ {task[w]}
        /\ AcceptedFinished' = AcceptedFinished \cup {task[w]}
    BY <1>1, <1>3, <1>4, <1>5 DEF AcceptedRunning, AcceptedFinished
  <2> QED
    BY <1>2, <1>4, <2>1 DEF Q!Finish
<1>6. CASE ~Accepted(task[w])
  <2>1. AcceptedRunning' = AcceptedRunning /\ AcceptedFinished' = AcceptedFinished
    BY <1>1, <1>3, <1>4, <1>6 DEF AcceptedRunning, AcceptedFinished
  <2> QED
    BY <1>4, <2>1 DEF Q!vars
<1> QED
  BY <1>5, <1>6

\* Every step of the pool is a step of the queue or leaves it alone.
LEMMA QueueStep ==
  ASSUME TypeOK, PoolInv, [Next]_vars
  PROVE  [Q!Next]_Q!vars
<1>1. ASSUME NEW j \in Jobs, OwnerSubmits(j) PROVE [Q!Next]_Q!vars
  BY <1>1, EnqueueSubmits DEF OwnerSubmits, Q!Next
<1>2. ASSUME NEW w \in Workers, NEW j \in Jobs, JobSubmits(w, j) PROVE [Q!Next]_Q!vars
  BY <1>2, EnqueueSubmits DEF JobSubmits, Q!Next
<1>3. ASSUME NEW w \in Workers, Take(w) PROVE [Q!Next]_Q!vars
  <2>1. CASE jobs = <<>>
    BY <1>3, <2>1, QuietQueue DEF Take
  <2>2. CASE jobs # <<>>
    BY <1>3, <2>2, TakeStarts DEF Q!Next
  <2> QED
    BY <2>1, <2>2
<1>4. ASSUME NEW w \in Workers, TaskReturns(w) PROVE [Q!Next]_Q!vars
  BY <1>4, ReturnFinishes DEF Q!Next
<1>5. CASE \/ OwnerStep \/ SetStop \/ UNCHANGED vars
           \/ \E w \in Workers : JobNotifies(w) \/ SpuriousWakeup(w)
  <2>1. UNCHANGED <<jobs, task, verdict, finished>>
    BY <1>5 DEF OwnerStep, OwnerNotifies, NotifyAll, Join, SetStop, vars, JobNotifies,
                SpuriousWakeup
  <2> QED
    BY <2>1, QuietQueue
<1> QED
  BY <1>1, <1>2, <1>3, <1>4, <1>5 DEF Next, WorkerStep

\* ThreadPool keeps the promise of WorkQueue up to its liveness: accepted jobs
\* start in the order of asyncRunJob, each once, and never more than there are
\* threads.
THEOREM StartsInOrder == Spec => Q!SafeSpec
<1>1. Init => Q!Init
  BY DEF Init, Q!Init, AcceptedJobs, AcceptedRunning, AcceptedFinished, Running
<1>2. PoolInv /\ [Next]_vars => [Q!Next]_Q!vars
  BY QueueStep DEF PoolInv
<1> QED
  BY <1>1, <1>2, PoolInvariance, PTL DEF Spec, Q!SafeSpec
=============================================================================
