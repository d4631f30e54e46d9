-------------------------- MODULE ThreadPoolProofs --------------------------
(***************************************************************************)
(* Proofs about ThreadPool, for any number of workers and any tasks: the   *)
(* safety properties of the run.                                           *)
(***************************************************************************)
EXTENDS ThreadPool, FiniteSetTheorems, TLAPS

-----------------------------------------------------------------------------
(* The inductive invariant *)

TypeInv ==
    /\ tasks \in Seq(Task)
    /\ stop \in BOOLEAN
    /\ wpc \in [Worker -> {"ready", "waiting", "running", "exited"}]
    /\ running \in [Worker -> Task \cup {NULL}]
    /\ opc \in {"open", "notify", "stopping", "join", "destroyed"}
    /\ done \subseteq Task
    /\ given \subseteq Task

\* The queue holds no task twice.
QueueInv == \A i, j \in 1..Len(tasks) : tasks[i] = tasks[j] => i = j

\* A worker has a task exactly while it runs it, and no task is in two places.
PlaceInv ==
    /\ \A w \in Worker : wpc[w] = "running" <=> running[w] # NULL
    /\ \A v, w \in Worker : running[v] = running[w] /\ running[v] # NULL => v = w
    /\ \A w \in Worker : running[w] \notin done
    /\ \A i \in 1..Len(tasks) :
        tasks[i] \notin done /\ \A w \in Worker : tasks[i] # running[w]

\* What was enqueued is in some place.
GivenInv ==
    \A t \in Task :
        t \in given <=> (\E i \in 1..Len(tasks) : tasks[i] = t)
                            \/ (\E w \in Worker : running[w] = t)
                            \/ t \in done

\* Workers leave only a stopped pool with an empty queue.
ExitInv ==
    /\ stop <=> opc \in {"stopping", "join", "destroyed"}
    /\ \A w \in Worker : wpc[w] = "exited" => stop /\ tasks = <<>>
    /\ opc = "destroyed" => \A w \in Worker : wpc[w] = "exited"
    /\ opc \in {"join", "destroyed"} => Waiting = {}

\* While a worker sleeps there are as many others that will look at the queue
\* as there are tasks in it, but for a task whose notification is still to come.
SleepInv ==
    Waiting # {} => Len(tasks) <= Cardinality(Ready) + (IF opc = "notify" THEN 1 ELSE 0)

IInv ==
    /\ TypeInv
    /\ QueueInv
    /\ PlaceInv
    /\ GivenInv
    /\ ExitInv
    /\ SleepInv

-----------------------------------------------------------------------------
(* Lemmas *)

\* Ready is finite, and changes by one worker at a time.
LEMMA ReadyFinite == IsFiniteSet(Ready) /\ Cardinality(Ready) \in Nat
<1>1. IsFiniteSet(Worker) /\ Ready \in SUBSET Worker
  BY PoolAssumption DEF Ready
<1> QED
  BY <1>1, FS_Subset, FS_CardinalityType

\* A worker that becomes ready adds one to Ready.
LEMMA ReadyGrows ==
    ASSUME TypeInv, NEW w \in Worker, wpc[w] # "ready",
           wpc' = [wpc EXCEPT ![w] = "ready"]
    PROVE  Cardinality(Ready') = Cardinality(Ready) + 1
<1>1. Ready' = Ready \cup {w} /\ w \notin Ready
  BY DEF TypeInv, Ready
<1> QED
  BY <1>1, ReadyFinite, FS_AddElement

\* A ready worker that goes on to something else takes one from Ready.
LEMMA ReadyShrinks ==
    ASSUME TypeInv, NEW w \in Worker, wpc[w] = "ready",
           NEW p, p # "ready", wpc' = [wpc EXCEPT ![w] = p]
    PROVE  Cardinality(Ready') = Cardinality(Ready) - 1
<1>1. Ready' = Ready \ {w} /\ w \in Ready
  BY DEF TypeInv, Ready
<1> QED
  BY <1>1, ReadyFinite, FS_RemoveElement

-----------------------------------------------------------------------------
(* The invariant is inductive *)

LEMMA InitInv == Init => IInv
<1> SUFFICES ASSUME Init PROVE IInv
  OBVIOUS
<1>1. TypeInv
  <2>1. tasks \in Seq(Task) /\ done \subseteq Task /\ given \subseteq Task
    BY SMT DEF Init
  <2>2. stop \in BOOLEAN /\ opc = "open"
    BY Zenon DEF Init
  <2>3. /\ wpc \in [Worker -> {"ready", "waiting", "running", "exited"}]
        /\ running \in [Worker -> Task \cup {NULL}]
    BY DEF Init
  <2> QED
    BY <2>1, <2>2, <2>3 DEF TypeInv
<1>2. QueueInv /\ PlaceInv /\ GivenInv
  BY PoolAssumption DEF Init, QueueInv, PlaceInv, GivenInv
<1>3. ExitInv
  BY DEF Init, ExitInv, Waiting
<1>4. SleepInv
  BY DEF Init, SleepInv, Waiting
<1> QED
  BY <1>1, <1>2, <1>3, <1>4 DEF IInv

LEMMA EnqueueInv ==
    ASSUME IInv, NEW t \in Task, Enqueue(t)
    PROVE  IInv'
<1> USE DEF IInv, Enqueue
<1>1. TypeInv'
  BY DEF TypeInv
<1>2. /\ Len(tasks') = Len(tasks) + 1
      /\ \A i \in 1..Len(tasks) : tasks'[i] = tasks[i]
      /\ tasks'[Len(tasks) + 1] = t
  BY DEF TypeInv
<1>3. /\ \A i \in 1..Len(tasks) : tasks[i] # t
      /\ t \notin done
      /\ \A w \in Worker : running[w] # t
  BY DEF GivenInv
<1>4. QueueInv'
  BY <1>2, <1>3 DEF QueueInv, TypeInv
<1>5. PlaceInv'
  BY <1>2, <1>3 DEF PlaceInv, TypeInv
<1>6. ExitInv'
  BY DEF ExitInv, Waiting
<1>7. SleepInv'
  BY <1>2, ReadyFinite DEF SleepInv, Waiting, Ready, TypeInv
<1>8. GivenInv'
  <2> SUFFICES ASSUME NEW u \in Task
               PROVE  u \in given' <=> \/ \E i \in 1..Len(tasks') : tasks'[i] = u
                                       \/ \E w \in Worker : running'[w] = u
                                       \/ u \in done'
    BY DEF GivenInv
  <2>1. (\E i \in 1..Len(tasks') : tasks'[i] = u)
            <=> (\E i \in 1..Len(tasks) : tasks[i] = u) \/ u = t
    BY <1>2 DEF TypeInv
  <2> QED
    BY <2>1 DEF GivenInv
<1> QED
  BY <1>1, <1>4, <1>5, <1>6, <1>7, <1>8

\* Waking a worker keeps everything but the bookkeeping of SleepInv.
LEMMA NotifyOneInv ==
    ASSUME IInv, NotifyOne
    PROVE  IInv'
<1> USE DEF IInv, NotifyOne
<1>1. CASE Waiting = {}
  <2>1. TypeInv' /\ QueueInv' /\ PlaceInv' /\ GivenInv'
    BY <1>1 DEF TypeInv, QueueInv, PlaceInv, GivenInv
  <2>2. ExitInv' /\ SleepInv'
    BY <1>1 DEF ExitInv, SleepInv, Waiting, Ready
  <2> QED
    BY <2>1, <2>2
<1>2. CASE Waiting # {}
  <2>1. PICK w \in Waiting : wpc' = [wpc EXCEPT ![w] = "ready"]
    BY <1>2
  <2>2. w \in Worker /\ wpc[w] = "waiting"
    BY DEF Waiting
  <2>3. TypeInv' /\ QueueInv' /\ PlaceInv' /\ GivenInv'
    BY <2>1, <2>2 DEF TypeInv, QueueInv, PlaceInv, GivenInv
  <2>4. ExitInv'
    BY <2>1, <2>2 DEF ExitInv, Waiting, TypeInv
  <2>5. Cardinality(Ready') = Cardinality(Ready) + 1
    BY <2>1, <2>2, ReadyGrows
  <2>6. SleepInv'
    BY <1>2, <2>5, ReadyFinite DEF SleepInv, TypeInv
  <2> QED
    BY <2>3, <2>4, <2>6
<1> QED
  BY <1>1, <1>2

LEMMA StopInv ==
    ASSUME IInv, Stop
    PROVE  IInv'
<1> USE DEF IInv, Stop
<1>1. TypeInv' /\ QueueInv' /\ PlaceInv' /\ GivenInv'
  BY DEF TypeInv, QueueInv, PlaceInv, GivenInv
<1>2. ExitInv' /\ SleepInv'
  BY DEF ExitInv, SleepInv, Waiting, Ready
<1> QED
  BY <1>1, <1>2

LEMMA NotifyAllInv ==
    ASSUME IInv, NotifyAll
    PROVE  IInv'
<1> USE DEF IInv, NotifyAll
<1>1. TypeInv' /\ QueueInv' /\ PlaceInv' /\ GivenInv'
  BY DEF TypeInv, QueueInv, PlaceInv, GivenInv
<1>2. Waiting' = {}
  BY DEF Waiting, TypeInv
<1>3. ExitInv' /\ SleepInv'
  BY <1>2 DEF ExitInv, SleepInv, TypeInv
<1> QED
  BY <1>1, <1>3

LEMMA JoinInv ==
    ASSUME IInv, Join
    PROVE  IInv'
<1> USE DEF IInv, Join
<1>1. TypeInv' /\ QueueInv' /\ PlaceInv' /\ GivenInv'
  BY DEF TypeInv, QueueInv, PlaceInv, GivenInv
<1>2. ExitInv' /\ SleepInv'
  BY DEF ExitInv, SleepInv, Waiting, Ready
<1> QED
  BY <1>1, <1>2

LEMMA TakeInv ==
    ASSUME IInv, NEW w \in Worker, Take(w)
    PROVE  IInv'
<1> USE DEF IInv, Take
<1>1. CASE tasks # <<>>
  <2>1. /\ wpc' = [wpc EXCEPT ![w] = "running"]
        /\ running' = [running EXCEPT ![w] = Head(tasks)]
        /\ tasks' = Tail(tasks)
    BY <1>1
  <2>2. /\ Len(tasks) \in Nat \ {0}
        /\ Head(tasks) = tasks[1] /\ tasks[1] \in Task
        /\ tasks' \in Seq(Task)
        /\ Len(tasks') = Len(tasks) - 1
        /\ \A i \in 1..Len(tasks') : tasks'[i] = tasks[i + 1]
    BY <1>1, <2>1 DEF TypeInv
  <2>3. TypeInv'
    BY <2>1, <2>2 DEF TypeInv
  <2>4. QueueInv'
    BY <2>2 DEF QueueInv
  <2>5. /\ tasks[1] \notin done
        /\ \A v \in Worker : tasks[1] # running[v]
        /\ \A i \in 1..Len(tasks') : tasks'[i] # tasks[1]
    BY <2>2 DEF QueueInv, PlaceInv
  <2>6. PlaceInv'
    BY <2>1, <2>2, <2>5, PoolAssumption DEF PlaceInv, TypeInv
  <2>7. ExitInv'
    BY <1>1, <2>1 DEF ExitInv, Waiting, TypeInv
  <2>8. Waiting' = Waiting /\ Cardinality(Ready') = Cardinality(Ready) - 1
    BY <2>1, ReadyShrinks DEF Waiting, TypeInv
  <2>9. SleepInv'
    BY <2>2, <2>8, ReadyFinite DEF SleepInv, TypeInv
  <2>10. GivenInv'
    <3> SUFFICES ASSUME NEW u \in Task
                 PROVE  u \in given' <=> \/ \E i \in 1..Len(tasks') : tasks'[i] = u
                                         \/ \E v \in Worker : running'[v] = u
                                         \/ u \in done'
      BY DEF GivenInv
    <3>1. (\E i \in 1..Len(tasks) : tasks[i] = u)
              <=> (\E i \in 1..Len(tasks') : tasks'[i] = u) \/ u = tasks[1]
      <4>1. ASSUME NEW i \in 1..Len(tasks), tasks[i] = u, u # tasks[1]
            PROVE  \E j \in 1..Len(tasks') : tasks'[j] = u
        <5>1. i - 1 \in 1..Len(tasks') /\ tasks'[i - 1] = tasks[(i - 1) + 1] /\ (i - 1) + 1 = i
          BY <2>2, <4>1
        <5> QED
          BY <4>1, <5>1
      <4>2. ASSUME NEW j \in 1..Len(tasks'), tasks'[j] = u
            PROVE  \E i \in 1..Len(tasks) : tasks[i] = u
        BY <2>2, <4>2
      <4> QED
        BY <2>2, <4>1, <4>2
    <3>2. (\E v \in Worker : running'[v] = u)
              <=> (\E v \in Worker : running[v] = u) \/ u = tasks[1]
      <4>1. running[w] = NULL /\ u # NULL
        BY PoolAssumption DEF PlaceInv
      <4> QED
        BY <2>1, <2>2, <4>1 DEF TypeInv
    <3> QED
      BY <3>1, <3>2 DEF GivenInv
  <2> QED
    BY <2>3, <2>4, <2>6, <2>7, <2>9, <2>10
<1>2. CASE tasks = <<>>
  <2>1. /\ wpc' = [wpc EXCEPT ![w] = IF stop THEN "exited" ELSE "waiting"]
        /\ UNCHANGED <<tasks, running, stop, opc, done, given>>
    BY <1>2
  <2>2. TypeInv' /\ QueueInv' /\ PlaceInv' /\ GivenInv'
    BY <2>1 DEF TypeInv, QueueInv, PlaceInv, GivenInv
  <2>3. ExitInv'
    BY <1>2, <2>1 DEF ExitInv, Waiting, TypeInv
  <2>4. Ready' = Ready \ {w}
    BY <2>1 DEF Ready, TypeInv
  <2>5. Cardinality(Ready') \in Nat
    BY <2>4, ReadyFinite, FS_RemoveElement, FS_CardinalityType
  <2>6. SleepInv'
    BY <1>2, <2>1, <2>5 DEF SleepInv
  <2> QED
    BY <2>2, <2>3, <2>6
<1> QED
  BY <1>1, <1>2

LEMMA FinishInv ==
    ASSUME IInv, NEW w \in Worker, Finish(w)
    PROVE  IInv'
<1> USE DEF IInv, Finish
<1>1. running[w] \in Task
  BY DEF PlaceInv, TypeInv
<1>2. TypeInv' /\ QueueInv'
  BY <1>1 DEF TypeInv, QueueInv
<1>3. PlaceInv'
  BY <1>1, PoolAssumption DEF PlaceInv, TypeInv
<1>4. ExitInv'
  BY DEF ExitInv, Waiting, TypeInv
<1>5. Waiting' = Waiting /\ Cardinality(Ready') = Cardinality(Ready) + 1
  BY ReadyGrows DEF Waiting, TypeInv
<1>6. SleepInv'
  BY <1>5, ReadyFinite DEF SleepInv, TypeInv
<1>7. GivenInv'
  <2> SUFFICES ASSUME NEW u \in Task
               PROVE  u \in given' <=> \/ \E i \in 1..Len(tasks') : tasks'[i] = u
                                       \/ \E v \in Worker : running'[v] = u
                                       \/ u \in done'
    BY DEF GivenInv
  <2>1. (\E v \in Worker : running[v] = u)
            <=> (\E v \in Worker : running'[v] = u) \/ u = running[w]
    BY PoolAssumption DEF TypeInv
  <2> QED
    BY <2>1 DEF GivenInv
<1> QED
  BY <1>2, <1>3, <1>4, <1>6, <1>7

LEMMA SpuriousInv ==
    ASSUME IInv, NEW w \in Worker, Spurious(w)
    PROVE  IInv'
<1> USE DEF IInv, Spurious
<1>1. TypeInv' /\ QueueInv' /\ PlaceInv' /\ GivenInv'
  BY DEF TypeInv, QueueInv, PlaceInv, GivenInv
<1>2. ExitInv'
  BY DEF ExitInv, Waiting, TypeInv
<1>3. Waiting # {} /\ Cardinality(Ready') = Cardinality(Ready) + 1
  BY ReadyGrows DEF Waiting
<1>4. SleepInv'
  BY <1>3, ReadyFinite DEF SleepInv, TypeInv
<1> QED
  BY <1>1, <1>2, <1>4

LEMMA StutterInv == IInv /\ UNCHANGED vars => IInv'
  BY DEF IInv, vars, TypeInv, QueueInv, PlaceInv, GivenInv, ExitInv, SleepInv, Waiting, Ready

LEMMA NextInv == IInv /\ [Next]_vars => IInv'
<1> SUFFICES ASSUME IInv, [Next]_vars PROVE IInv'
  OBVIOUS
<1>1. ASSUME NEW t \in Task, Enqueue(t) PROVE IInv'
  BY <1>1, EnqueueInv
<1>2. CASE Stop
  BY <1>2, StopInv
<1>3. CASE Owner
  BY <1>3, NotifyOneInv, NotifyAllInv, JoinInv DEF Owner
<1>4. ASSUME NEW w \in Worker, Take(w) \/ Finish(w) \/ Loop(w) \/ Spurious(w)
      PROVE  IInv'
  BY <1>4, TakeInv, FinishInv, SpuriousInv, StutterInv DEF Loop
<1>5. CASE Terminated \/ UNCHANGED vars
  BY <1>5, StutterInv DEF Terminated
<1> QED
  BY <1>1, <1>2, <1>3, <1>4, <1>5 DEF Next

-----------------------------------------------------------------------------
(* The theorems *)

\* The inductive invariant holds of every behaviour of the pool.
THEOREM Invariance == Spec => []IInv
  BY InitInv, NextInv, PTL DEF Spec

\* threadpool.h:97-142: no task is lost, in two hands, or run twice.
THEOREM TasksInOnePlace == Spec => []TaskInOnePlace
<1>1. ASSUME IInv PROVE TaskInOnePlace
  <2> USE <1>1 DEF IInv
  <2>1. Cardinality(ToSet(tasks)) = Len(tasks)
    <3> DEFINE f == [i \in 1..Len(tasks) |-> tasks[i]]
    <3>1. f \in Bijection(1..Len(tasks), ToSet(tasks))
      BY DEF QueueInv, TypeInv, ToSet, Bijection, Injection, Surjection, IsInjective
    <3>2. ExistsBijection(1..Len(tasks), ToSet(tasks))
      BY <3>1 DEF ExistsBijection
    <3> QED
      BY <3>2, FS_CountingElements DEF TypeInv
  <2>2. ToSet(tasks) \cap (Taken \cup done) = {}
    BY DEF PlaceInv, TypeInv, ToSet, Taken
  <2>3. Taken \cap done = {}
    BY DEF PlaceInv, Taken
  <2>4. given = ToSet(tasks) \cup Taken \cup done
    <3>1. ToSet(tasks) \subseteq Task /\ Taken \subseteq Task
      BY DEF TypeInv, ToSet, Taken
    <3>2. ASSUME NEW t \in Task
          PROVE  t \in given <=> t \in ToSet(tasks) \cup Taken \cup done
      BY PoolAssumption DEF GivenInv, TypeInv, ToSet, Taken
    <3> QED
      BY <3>1, <3>2 DEF TypeInv
  <2> QED
    BY <2>1, <2>2, <2>3, <2>4 DEF TaskInOnePlace, PlaceInv
<1> QED
  BY <1>1, Invariance, PTL

\* threadpool.h:141: a notification after the mutex is released is enough.
THEOREM NobodySleepsOverWork == Spec => []NoSleepOverWork
<1>1. IInv => NoSleepOverWork
  BY ReadyFinite DEF IInv, SleepInv, TypeInv, NoSleepOverWork
<1> QED
  BY <1>1, Invariance, PTL

\* threadpool.h:105: workers leave an empty queue only, so in a destroyed pool
\* every task that was enqueued has run and returned.
THEOREM NothingDropped == Spec => []DrainedWhenDestroyed
<1>1. IInv => DrainedWhenDestroyed
  <2> SUFFICES ASSUME IInv, opc = "destroyed"
               PROVE  done = given
    BY DEF DrainedWhenDestroyed
  <2>1. \A w \in Worker : wpc[w] = "exited"
    BY DEF IInv, ExitInv
  <2>2. tasks = <<>>
    BY <2>1, PoolAssumption DEF IInv, ExitInv
  <2>3. \A w \in Worker : running[w] = NULL
    BY <2>1 DEF IInv, PlaceInv
  <2>4. \A t \in Task : t \in given <=> t \in done
    BY <2>2, <2>3, PoolAssumption DEF IInv, GivenInv
  <2> QED
    BY <2>4 DEF IInv, TypeInv
<1> QED
  BY <1>1, Invariance, PTL
=============================================================================
