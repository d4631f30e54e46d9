----------------------------- MODULE ThreadPool -----------------------------
(***************************************************************************)
(* The pool that runs the mining threads: src/src/libs/common/threadpool.h *)
(* and its use by Blockchain::start and ~Blockchain.                       *)
(*                                                                         *)
(* Regions under queue_mutex are single steps.  A notification comes after *)
(* the region that causes it, as in the code, and is a step of its own; it *)
(* moves workers from waiting to ready, and a wait may also end by itself. *)
(***************************************************************************)
EXTENDS Naturals, Sequences, FiniteSets, SequencesExt

CONSTANTS
    Worker,     \* the threads
    Task,       \* the tasks that may be enqueued, each once
    Endless,    \* those that never return, as the loops of Blockchain::start
    NULL

ASSUME PoolAssumption ==
    /\ Worker # {} /\ IsFiniteSet(Worker)
    /\ Endless \subseteq Task
    /\ NULL \notin Task

VARIABLES
    tasks,      \* the queue
    stop,
    wpc,        \* where each worker is
    running,    \* the task each worker has taken
    opc,        \* where the owner of the pool is
    done,       \* the tasks that have returned
    given       \* history: the tasks that were ever enqueued

vars == <<tasks, stop, wpc, running, opc, done, given>>

Waiting == {w \in Worker : wpc[w] = "waiting"}
Ready   == {w \in Worker : wpc[w] = "ready"}
Taken   == {running[w] : w \in Worker} \ {NULL}

Init ==
    /\ tasks = <<>>
    /\ stop = FALSE
    /\ wpc = [w \in Worker |-> "ready"]
    /\ running = [w \in Worker |-> NULL]
    /\ opc = "open"
    /\ done = {}
    /\ given = {}

-----------------------------------------------------------------------------
(* The owner *)

\* enqueue, the region under the mutex.  It throws on a stopped pool; the one
\* owner, who stops the pool by destroying it, cannot call it then.
Enqueue(t) ==
    /\ opc = "open"
    /\ t \notin given
    /\ tasks' = Append(tasks, t)
    /\ given' = given \cup {t}
    /\ opc' = "notify"
    /\ UNCHANGED <<stop, wpc, running, done>>

\* Faulty variant: a worker is only woken for the first task of an empty queue.
NotifyOne_IfFirst ==
    /\ opc = "notify"
    /\ IF Waiting = {} \/ Len(tasks) # 1
         THEN UNCHANGED wpc
         ELSE \E w \in Waiting : wpc' = [wpc EXCEPT ![w] = "ready"]
    /\ opc' = "open"
    /\ UNCHANGED <<tasks, stop, running, done, given>>

\* enqueue, notify_one.
NotifyOne ==
    /\ opc = "notify"
    /\ IF Waiting = {}
         THEN UNCHANGED wpc
         ELSE \E w \in Waiting : wpc' = [wpc EXCEPT ![w] = "ready"]
    /\ opc' = "open"
    /\ UNCHANGED <<tasks, stop, running, done, given>>

\* ~ThreadPool, the region under the mutex.
Stop ==
    /\ opc = "open"
    /\ stop' = TRUE
    /\ opc' = "stopping"
    /\ UNCHANGED <<tasks, wpc, running, done, given>>

\* Faulty variant: only one worker is woken.
NotifyAll_One ==
    /\ opc = "stopping"
    /\ IF Waiting = {}
         THEN UNCHANGED wpc
         ELSE \E w \in Waiting : wpc' = [wpc EXCEPT ![w] = "ready"]
    /\ opc' = "join"
    /\ UNCHANGED <<tasks, stop, running, done, given>>

\* ~ThreadPool, notify_all.
NotifyAll ==
    /\ opc = "stopping"
    /\ wpc' = [w \in Worker |-> IF wpc[w] = "waiting" THEN "ready" ELSE wpc[w]]
    /\ opc' = "join"
    /\ UNCHANGED <<tasks, stop, running, done, given>>

\* ~ThreadPool, every thread has been joined.
Join ==
    /\ opc = "join"
    /\ \A w \in Worker : wpc[w] = "exited"
    /\ opc' = "destroyed"
    /\ UNCHANGED <<tasks, stop, wpc, running, done, given>>

Owner ==
    \/ NotifyOne
    \/ NotifyAll
    \/ Join

-----------------------------------------------------------------------------
(* The workers *)

\* Faulty variant: the worker leaves as soon as the pool is stopped.
Take_StopFirst(w) ==
    /\ wpc[w] = "ready"
    /\ IF stop
         THEN /\ wpc' = [wpc EXCEPT ![w] = "exited"]
              /\ UNCHANGED <<tasks, running>>
       ELSE IF tasks # <<>>
         THEN /\ wpc' = [wpc EXCEPT ![w] = "running"]
              /\ running' = [running EXCEPT ![w] = Head(tasks)]
              /\ tasks' = Tail(tasks)
         ELSE /\ wpc' = [wpc EXCEPT ![w] = "waiting"]
              /\ UNCHANGED <<tasks, running>>
    /\ UNCHANGED <<stop, opc, done, given>>

\* Faulty variant: the task stays in the queue while it runs.
Take_NoPop(w) ==
    /\ wpc[w] = "ready"
    /\ tasks # <<>>
    /\ wpc' = [wpc EXCEPT ![w] = "running"]
    /\ running' = [running EXCEPT ![w] = Head(tasks)]
    /\ UNCHANGED <<tasks, stop, opc, done, given>>

\* Faulty variant: a stopped pool throws its queue away.
Take_Drop(w) ==
    /\ wpc[w] = "ready"
    /\ IF tasks # <<>> /\ ~stop
         THEN /\ wpc' = [wpc EXCEPT ![w] = "running"]
              /\ running' = [running EXCEPT ![w] = Head(tasks)]
              /\ tasks' = Tail(tasks)
         ELSE /\ wpc' = [wpc EXCEPT ![w] = IF stop THEN "exited" ELSE "waiting"]
              /\ tasks' = <<>>
              /\ UNCHANGED running
    /\ UNCHANGED <<stop, opc, done, given>>

\* The region under the mutex: wait, leave, or take the first task.
Take(w) ==
    /\ wpc[w] = "ready"
    /\ IF tasks # <<>>
         THEN /\ wpc' = [wpc EXCEPT ![w] = "running"]
              /\ running' = [running EXCEPT ![w] = Head(tasks)]
              /\ tasks' = Tail(tasks)
         ELSE /\ wpc' = [wpc EXCEPT ![w] = IF stop THEN "exited" ELSE "waiting"]
              /\ UNCHANGED <<tasks, running>>
    /\ UNCHANGED <<stop, opc, done, given>>

\* The task returns, and the worker begins its next round.
Finish(w) ==
    /\ wpc[w] = "running"
    /\ running[w] \notin Endless
    /\ wpc' = [wpc EXCEPT ![w] = "ready"]
    /\ running' = [running EXCEPT ![w] = NULL]
    /\ done' = done \cup {running[w]}
    /\ UNCHANGED <<tasks, stop, opc, given>>

\* A task of Blockchain::start goes round its loop; it never looks at stop.
Loop(w) ==
    /\ wpc[w] = "running"
    /\ running[w] \in Endless
    /\ UNCHANGED vars

\* A wait that ends without a notification.
Spurious(w) ==
    /\ wpc[w] = "waiting"
    /\ wpc' = [wpc EXCEPT ![w] = "ready"]
    /\ UNCHANGED <<tasks, stop, running, opc, done, given>>

\* The pool is gone.
Terminated ==
    /\ opc = "destroyed"
    /\ UNCHANGED vars

Next ==
    \/ \E t \in Task : Enqueue(t)
    \/ Stop
    \/ Owner
    \/ \E w \in Worker : Take(w) \/ Finish(w) \/ Loop(w) \/ Spurious(w)
    \/ Terminated

Spec == Init /\ [][Next]_vars

\* A call of the owner that has begun goes on, a worker that can take a task
\* does, and a task that returns at all returns in the end.
FairSpec ==
    /\ Spec
    /\ WF_vars(Owner)
    /\ \A w \in Worker : WF_vars(Take(w)) /\ WF_vars(Finish(w))

-----------------------------------------------------------------------------
(* Properties *)

\* Every task that was enqueued is in one place: in the queue, with one worker,
\* or done.  None is lost on the way from one to the next, and none runs twice
\* (threadpool.h:103-108).
TaskInOnePlace ==
    /\ given = ToSet(tasks) \cup Taken \cup done
    /\ Cardinality(ToSet(tasks)) = Len(tasks)
    /\ ToSet(tasks) \cap (Taken \cup done) = {}
    /\ Taken \cap done = {}
    /\ \A v, w \in Worker : running[v] = running[w] /\ running[v] # NULL => v = w

\* No worker sleeps on while a task is left to it: one notification for each
\* task is enough, although it is given after the mutex is released and other
\* workers take tasks in between (threadpool.h:141).
NoSleepOverWork ==
    Waiting # {} /\ opc \in {"open", "join"} => Len(tasks) <= Cardinality(Ready)

\* When the pool is destroyed, every task it was ever given has run and
\* returned, those that were still in the queue when it was stopped too
\* (threadpool.h:105).
DrainedWhenDestroyed == opc = "destroyed" => done = given

\* Every task that can return does, while some worker is left that no endless
\* task holds (threadpool.h:141), in a pool that is stopped too.  It is what the
\* pool offers a user who leaves it a worker.  Blockchain::start does not: it
\* gives every worker an endless loop, and a task behind those never runs.
TasksReturn ==
    Cardinality(Endless) < Cardinality(Worker) =>
        \A t \in Task \ Endless : (t \in ToSet(tasks)) ~> (t \in done)

\* threadpool.h:145: "the destructor joins all threads".  It returns, unless a
\* worker is inside a task that never does.
DestructorReturns == stop ~> (opc = "destroyed" \/ Taken \cap Endless # {})
=============================================================================
