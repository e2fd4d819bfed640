----------------------------- MODULE ThreadPool -----------------------------
(* The worker pool of src/core/threading/ThreadPool.cpp and its header: a     *)
(* mutex, a condition variable, a queue of tasks, and the flag m_stop that    *)
(* the destructor raises.  Every block that holds m_queueMutex is one action; *)
(* notify_one and notify_all come after the unlock and are actions of their   *)
(* own, so a worker can slip in between.                                      *)
EXTENDS Integers, FiniteSets, Sequences, SequencesExt

CONSTANTS Worker,    \* m_workers
          Producer,  \* the threads that call Enqueue
          Task,      \* the closures handed to Enqueue, each of them once
          NoTask     \* a worker's local variable `task` when it holds none

ASSUME PoolAssumption == /\ IsFiniteSet(Worker) /\ Worker # {}
                         /\ IsFiniteSet(Producer)
                         /\ NoTask \notin Task

VARIABLES queue,       \* m_tasks
          stop,        \* m_stop
          pc,          \* pc[w]: about to lock, asleep in wait, in task(), returned
          task,        \* task[w]: the worker's local variable `task`
          caller,      \* caller[p]: outside Enqueue, before notify_one, or thrown out
          destructor,  \* how far ~ThreadPool has got
          accepted,    \* history: tasks that Enqueue put in the queue
          finished     \* history: tasks that ran to their end

vars == <<queue, stop, pc, task, caller, destructor, accepted, finished>>

Waiting   == {w \in Worker : pc[w] = "waiting"}
Awake     == {w \in Worker : pc[w] = "lock"}
Notifying == {p \in Producer : caller[p] = "notify"}
Held      == {task[w] : w \in {v \in Worker : pc[v] = "run"}}

Init == /\ queue = <<>>
        /\ stop = FALSE
        /\ pc = [w \in Worker |-> "lock"]
        /\ task = [w \in Worker |-> NoTask]
        /\ caller = [p \in Producer |-> "idle"]
        /\ destructor = "alive"
        /\ accepted = {}
        /\ finished = {}

-----------------------------------------------------------------------------
(* Enqueue: the locked block, then notify_one.                                *)
Enqueue(p, t) == /\ caller[p] = "idle"
                 /\ ~stop
                 /\ t \notin accepted
                 /\ queue' = Append(queue, t)
                 /\ accepted' = accepted \cup {t}
                 /\ caller' = [caller EXCEPT ![p] = "notify"]
                 /\ UNCHANGED <<stop, pc, task, destructor, finished>>

\* "Enqueue on stopped ThreadPool" is thrown to the caller.
EnqueueRefused(p) == /\ caller[p] = "idle"
                     /\ stop
                     /\ destructor # "destroyed"
                     /\ caller' = [caller EXCEPT ![p] = "thrown"]
                     /\ UNCHANGED <<queue, stop, pc, task, destructor, accepted, finished>>

WakeNobody == UNCHANGED pc      \* mutant: notify_one forgotten

WakeOne == IF Waiting = {} THEN UNCHANGED pc
           ELSE \E w \in Waiting : pc' = [pc EXCEPT ![w] = "lock"]

NotifyOne(p) == /\ caller[p] = "notify"
                /\ WakeOne
                /\ caller' = [caller EXCEPT ![p] = "idle"]
                /\ UNCHANGED <<queue, stop, task, destructor, accepted, finished>>

-----------------------------------------------------------------------------
(* A worker that holds the mutex evaluates the predicate of wait().           *)
MayProceedOnTask == queue # <<>>     \* mutant: m_stop not in the predicate

MayProceed == stop \/ queue # <<>>

ExhaustedAtStop == stop              \* mutant: leaves without draining

Exhausted == stop /\ queue = <<>>

RestUnpopped == queue                \* mutant: m_tasks.pop() forgotten

Rest == Tail(queue)

Sleep(w) == /\ pc[w] = "lock"
            /\ ~MayProceed
            /\ pc' = [pc EXCEPT ![w] = "waiting"]
            /\ UNCHANGED <<queue, stop, task, caller, destructor, accepted, finished>>

Take(w) == /\ pc[w] = "lock"
           /\ queue # <<>>
           /\ task' = [task EXCEPT ![w] = Head(queue)]
           /\ queue' = Rest
           /\ pc' = [pc EXCEPT ![w] = "run"]
           /\ UNCHANGED <<stop, caller, destructor, accepted, finished>>

Exit(w) == /\ pc[w] = "lock"
           /\ Exhausted
           /\ pc' = [pc EXCEPT ![w] = "done"]
           /\ UNCHANGED <<queue, stop, task, caller, destructor, accepted, finished>>

\* task() returns; the packaged_task keeps what the closure throws.
FinishTask(w) == /\ pc[w] = "run"
                 /\ finished' = finished \cup {task[w]}
                 /\ task' = [task EXCEPT ![w] = NoTask]
                 /\ pc' = [pc EXCEPT ![w] = "lock"]
                 /\ UNCHANGED <<queue, stop, caller, destructor, accepted>>

\* A condition variable may wake a thread that nobody notified.
SpuriousWakeup(w) == /\ pc[w] = "waiting"
                     /\ pc' = [pc EXCEPT ![w] = "lock"]
                     /\ UNCHANGED <<queue, stop, task, caller, destructor, accepted, finished>>

-----------------------------------------------------------------------------
(* ~ThreadPool, run by the thread that owns the server.                       *)
RaiseStopUnset == /\ destructor = "alive"    \* mutant: m_stop not raised
                  /\ destructor' = "stopping"
                  /\ UNCHANGED <<queue, stop, pc, task, caller, accepted, finished>>

RaiseStop == /\ destructor = "alive"
             /\ stop' = TRUE
             /\ destructor' = "stopping"
             /\ UNCHANGED <<queue, pc, task, caller, accepted, finished>>

WakeAll == pc' = [w \in Worker |-> IF pc[w] = "waiting" THEN "lock" ELSE pc[w]]

NotifyAll == /\ destructor = "stopping"
             /\ WakeAll
             /\ destructor' = "joining"
             /\ UNCHANGED <<queue, stop, task, caller, accepted, finished>>

\* The joins, in any order, then the members die.  A caller must be out of
\* Enqueue by then: ChatServer::Stop joins the listener, the only producer.
JoinAll == /\ destructor = "joining"
           /\ \A w \in Worker : pc[w] = "done"
           /\ Notifying = {}
           /\ destructor' = "destroyed"
           /\ UNCHANGED <<queue, stop, pc, task, caller, accepted, finished>>

Terminated == destructor = "destroyed" /\ UNCHANGED vars

-----------------------------------------------------------------------------
WorkerStep(w) == Sleep(w) \/ Take(w) \/ Exit(w) \/ FinishTask(w)

Next == \/ \E p \in Producer : \/ \E t \in Task : Enqueue(p, t)
                               \/ EnqueueRefused(p)
                               \/ NotifyOne(p)
        \/ \E w \in Worker : WorkerStep(w) \/ SpuriousWakeup(w)
        \/ RaiseStop
        \/ NotifyAll
        \/ JoinAll
        \/ Terminated

(* The scheduler runs every thread that can run; a task is assumed to return. *)
(* Nobody has to enqueue, to destroy the pool, or to wake up spuriously.      *)
Fairness == /\ \A w \in Worker : WF_vars(WorkerStep(w))
            /\ \A p \in Producer : WF_vars(NotifyOne(p))
            /\ WF_vars(NotifyAll)
            /\ WF_vars(JoinAll)

Safety == Init /\ [][Next]_vars

Spec == Safety /\ Fairness

-----------------------------------------------------------------------------
(* Types, with the two things they cannot express: a worker holds a task      *)
(* exactly while it runs one, and m_stop is up exactly once ~ThreadPool ran.  *)
TypeOK == /\ queue \in Seq(Task)
          /\ stop \in BOOLEAN
          /\ pc \in [Worker -> {"lock", "waiting", "run", "done"}]
          /\ task \in [Worker -> Task \cup {NoTask}]
          /\ caller \in [Producer -> {"idle", "notify", "thrown"}]
          /\ destructor \in {"alive", "stopping", "joining", "destroyed"}
          /\ accepted \subseteq Task
          /\ finished \subseteq Task
          /\ \A w \in Worker : (pc[w] = "run") <=> (task[w] # NoTask)
          /\ stop <=> (destructor # "alive")

(* No task is lost, run twice or run by two workers: an accepted task is in   *)
(* exactly one place, which is m_tasks, one worker's hands, or the past.      *)
TaskIsSomewhere == accepted = ToSet(queue) \cup Held \cup finished
TaskIsInOnePlace ==
    /\ \A i, j \in 1..Len(queue) : i # j => queue[i] # queue[j]
    /\ \A v, w \in Worker : v # w /\ pc[v] = "run" => task[v] # task[w]
    /\ ToSet(queue) \cap Held = {}
    /\ ToSet(queue) \cap finished = {}
    /\ Held \cap finished = {}
Conservation == TaskIsSomewhere /\ TaskIsInOnePlace

(* No lost wakeup: while a worker sleeps, every queued task has a worker that *)
(* is about to look or a producer that is about to notify (the notify_one     *)
(* outside the lock, ThreadPool.h:36).                                        *)
NoLostWakeup ==
    Waiting # {} => Len(queue) <= Cardinality(Awake) + Cardinality(Notifying)

(* After notify_all no worker goes back to sleep, so join() cannot hang; a    *)
(* worker that returned left nothing behind in the queue; and no thread       *)
(* touches the pool's members once ~ThreadPool has returned.                  *)
StopIsHeard ==
    /\ destructor \in {"joining", "destroyed"} => Waiting = {}
    /\ (\E w \in Worker : pc[w] = "done") => stop /\ queue = <<>>
    /\ destructor = "destroyed" => /\ \A w \in Worker : pc[w] = "done"
                                  /\ Notifying = {}

(* Every task Enqueue accepted runs to its end, destruction or not.           *)
AcceptedTaskFinishes == \A t \in Task : (t \in accepted) ~> (t \in finished)

(* ~ThreadPool returns: the drain and the joins come to an end.               *)
DestructorReturns == (destructor = "stopping") ~> (destructor = "destroyed")

(* The pool is a TaskPool.                                                    *)
Phase == CASE destructor = "alive" -> "open"
           [] destructor \in {"stopping", "joining"} -> "closing"
           [] destructor = "destroyed" -> "gone"

Pool == INSTANCE TaskPool WITH pending <- queue, running <- Held, phase <- Phase

ImplementsTaskPool == Pool!Spec
=============================================================================
