-------------------------- MODULE ThreadPoolProofs --------------------------
(* Proofs about ThreadPool for any number of workers, producers and tasks.    *)
EXTENDS ThreadPool, SequenceFacts, FiniteSetTheorems, TLAPS

-----------------------------------------------------------------------------
LEMMA TypeStep == TypeOK /\ [Next]_vars => TypeOK'
<1> SUFFICES ASSUME TypeOK, [Next]_vars
             PROVE  TypeOK'
  OBVIOUS
<1> USE PoolAssumption DEF TypeOK, vars
<1>1. ASSUME NEW p \in Producer, NEW t \in Task, Enqueue(p, t)
      PROVE  TypeOK'
  BY <1>1 DEF Enqueue
<1>2. ASSUME NEW p \in Producer, EnqueueRefused(p)
      PROVE  TypeOK'
  BY <1>2 DEF EnqueueRefused
<1>3. ASSUME NEW p \in Producer, NotifyOne(p)
      PROVE  TypeOK'
  BY <1>3 DEF NotifyOne, WakeOne, Waiting
<1>4. ASSUME NEW w \in Worker, Sleep(w)
      PROVE  TypeOK'
  BY <1>4 DEF Sleep
<1>5. ASSUME NEW w \in Worker, Take(w)
      PROVE  TypeOK'
  <2>1. Head(queue) \in Task /\ Tail(queue) \in Seq(Task)
    BY <1>5 DEF Take
  <2> QED BY <1>5, <2>1 DEF Take, Rest
<1>6. ASSUME NEW w \in Worker, Exit(w)
      PROVE  TypeOK'
  BY <1>6 DEF Exit
<1>7. ASSUME NEW w \in Worker, FinishTask(w)
      PROVE  TypeOK'
  BY <1>7 DEF FinishTask
<1>8. ASSUME NEW w \in Worker, SpuriousWakeup(w)
      PROVE  TypeOK'
  BY <1>8 DEF SpuriousWakeup
<1>9. CASE RaiseStop
  BY <1>9 DEF RaiseStop
<1>10. CASE NotifyAll
  BY <1>10 DEF NotifyAll, WakeAll
<1>11. CASE JoinAll
  BY <1>11 DEF JoinAll
<1>12. CASE Terminated \/ UNCHANGED vars
  BY <1>12 DEF Terminated
<1> QED BY <1>1, <1>2, <1>3, <1>4, <1>5, <1>6, <1>7, <1>8, <1>9, <1>10, <1>11,
           <1>12 DEF Next, WorkerStep

LEMMA InitType == Init => TypeOK
<1> SUFFICES ASSUME Init PROVE TypeOK
  OBVIOUS
<1>1. queue \in Seq(Task)
  BY DEF Init
<1>2. /\ pc \in [Worker -> {"lock", "waiting", "run", "done"}]
      /\ task \in [Worker -> Task \cup {NoTask}]
      /\ \A w \in Worker : (pc[w] = "run") <=> (task[w] # NoTask)
  BY DEF Init
<1>3. caller \in [Producer -> {"idle", "notify", "thrown"}]
  BY DEF Init
<1> QED BY <1>1, <1>2, <1>3 DEF Init, TypeOK

(* The pool's variables keep their types, a worker holds a task exactly while *)
(* it runs one, and m_stop is up exactly once the destructor has begun.       *)
THEOREM TypeCorrect == Spec => []TypeOK
<1>1. Spec => Init /\ [][Next]_vars
  BY DEF Spec, Safety
<1> QED BY <1>1, InitType, TypeStep, PTL

-----------------------------------------------------------------------------
LEMMA StopStep == TypeOK /\ StopIsHeard /\ [Next]_vars => StopIsHeard'
<1> SUFFICES ASSUME TypeOK, StopIsHeard, [Next]_vars
             PROVE  StopIsHeard'
  OBVIOUS
<1> USE DEF TypeOK, StopIsHeard, Waiting, Notifying, vars
<1>1. ASSUME NEW p \in Producer, NEW t \in Task, Enqueue(p, t)
      PROVE  StopIsHeard'
  BY <1>1 DEF Enqueue
<1>2. ASSUME NEW p \in Producer, EnqueueRefused(p)
      PROVE  StopIsHeard'
  BY <1>2 DEF EnqueueRefused
<1>3. ASSUME NEW p \in Producer, NotifyOne(p)
      PROVE  StopIsHeard'
  BY <1>3 DEF NotifyOne, WakeOne
<1>4. ASSUME NEW w \in Worker, Sleep(w)
      PROVE  StopIsHeard'
  BY <1>4 DEF Sleep, MayProceed
<1>5. ASSUME NEW w \in Worker, Take(w)
      PROVE  StopIsHeard'
  BY <1>5 DEF Take, Rest
<1>6. ASSUME NEW w \in Worker, Exit(w)
      PROVE  StopIsHeard'
  BY <1>6 DEF Exit, Exhausted
<1>7. ASSUME NEW w \in Worker, FinishTask(w)
      PROVE  StopIsHeard'
  BY <1>7 DEF FinishTask
<1>8. ASSUME NEW w \in Worker, SpuriousWakeup(w)
      PROVE  StopIsHeard'
  BY <1>8 DEF SpuriousWakeup
<1>9. CASE RaiseStop
  BY <1>9 DEF RaiseStop
<1>10. CASE NotifyAll
  BY <1>10 DEF NotifyAll, WakeAll
<1>11. CASE JoinAll
  BY <1>11 DEF JoinAll
<1>12. CASE Terminated \/ UNCHANGED vars
  BY <1>12 DEF Terminated
<1> QED BY <1>1, <1>2, <1>3, <1>4, <1>5, <1>6, <1>7, <1>8, <1>9, <1>10, <1>11,
           <1>12 DEF Next, WorkerStep

(* join() cannot hang on a sleeping worker, and a worker that returned left   *)
(* an empty queue behind: what the wait predicate's m_stop is for.            *)
THEOREM StopHeard == Spec => []StopIsHeard
<1>1. Init => StopIsHeard
  BY DEF Init, StopIsHeard, Waiting, Notifying
<1>2. Spec => Init /\ [][Next]_vars
  BY DEF Spec, Safety
<1> QED BY <1>1, <1>2, StopStep, TypeCorrect, PTL

-----------------------------------------------------------------------------
Distinct(s) == \A i, j \in 1..Len(s) : i # j => s[i] # s[j]

(* The front of a queue without duplicates does not occur again behind it.    *)
LEMMA DistinctTail ==
    ASSUME NEW S, NEW s \in Seq(S), s # <<>>, Distinct(s)
    PROVE  Distinct(Tail(s)) /\ Head(s) \notin ToSet(Tail(s))
<1>1. /\ Len(s) \in Nat \ {0}
      /\ Len(Tail(s)) = Len(s) - 1
      /\ DOMAIN Tail(s) = 1..(Len(s) - 1)
      /\ Head(s) = s[1]
      /\ \A i \in 1..(Len(s) - 1) : Tail(s)[i] = s[i + 1]
  OBVIOUS
<1>2. ASSUME NEW i \in 1..(Len(s) - 1), NEW j \in 1..(Len(s) - 1), i # j
      PROVE  Tail(s)[i] # Tail(s)[j]
  <2>1. i + 1 \in 1..Len(s) /\ j + 1 \in 1..Len(s) /\ i + 1 # j + 1
    BY <1>1, <1>2
  <2> QED BY <1>1, <2>1 DEF Distinct
<1>3. ASSUME NEW i \in 1..(Len(s) - 1)
      PROVE  Tail(s)[i] # s[1]
  <2>1. i + 1 \in 1..Len(s) /\ 1 \in 1..Len(s) /\ i + 1 # 1
    BY <1>1
  <2> QED BY <1>1, <2>1 DEF Distinct
<1> QED BY <1>1, <1>2, <1>3 DEF Distinct, ToSet

LEMMA DistinctAppend ==
    ASSUME NEW S, NEW s \in Seq(S), NEW e \in S, Distinct(s), e \notin ToSet(s)
    PROVE  Distinct(Append(s, e))
<1>1. /\ Len(Append(s, e)) = Len(s) + 1
      /\ DOMAIN s = 1..Len(s)
      /\ \A i \in 1..Len(s) : Append(s, e)[i] = s[i]
      /\ Append(s, e)[Len(s) + 1] = e
      /\ Len(s) \in Nat
  OBVIOUS
<1>2. \A i \in 1..Len(s) : s[i] # e
  BY <1>1 DEF ToSet
<1> QED BY <1>1, <1>2 DEF Distinct

(* Nothing below touches a task: a step that leaves m_tasks, the workers'     *)
(* hands and the two histories alone keeps Conservation.                      *)
LEMMA ConservationFrame ==
    ASSUME Conservation, UNCHANGED <<queue, task, accepted, finished>>,
           \A w \in Worker : (pc'[w] = "run") <=> (pc[w] = "run")
    PROVE  Conservation'
<1>1. Held' = Held
  BY DEF Held
<1> QED BY <1>1 DEF Conservation, TaskIsSomewhere, TaskIsInOnePlace, ToSet

LEMMA ConservationStep == TypeOK /\ Conservation /\ [Next]_vars => Conservation'
<1> SUFFICES ASSUME TypeOK, Conservation, [Next]_vars
             PROVE  Conservation'
  OBVIOUS
<1>0. Distinct(queue)
  BY DEF Conservation, TaskIsInOnePlace, Distinct
<1>1. ASSUME NEW p \in Producer, NEW t \in Task, Enqueue(p, t)
      PROVE  Conservation'
  <2>1. queue \in Seq(Task) /\ queue' = Append(queue, t) /\ t \notin accepted
    BY <1>1 DEF Enqueue, TypeOK
  <2>2. ToSet(queue') = ToSet(queue) \cup {t}
    BY <2>1, ToSetAppend
  <2>3. Held' = Held
    BY <1>1 DEF Enqueue, Held
  <2>4. t \notin ToSet(queue) /\ t \notin Held /\ t \notin finished
    BY <2>1 DEF Conservation, TaskIsSomewhere
  <2>5. Distinct(queue')
    BY <1>0, <2>1, <2>4, DistinctAppend
  <2>6. TaskIsSomewhere'
    BY <1>1, <2>2, <2>3 DEF Enqueue, Conservation, TaskIsSomewhere
  <2>7. TaskIsInOnePlace'
    BY <1>1, <2>2, <2>3, <2>4, <2>5
       DEF Enqueue, Conservation, TaskIsInOnePlace, Distinct
  <2> QED BY <2>6, <2>7 DEF Conservation
<1>2. ASSUME NEW w \in Worker, Take(w)
      PROVE  Conservation'
  <2> DEFINE t == Head(queue)
  <2>1. queue \in Seq(Task) /\ queue # <<>> /\ queue' = Tail(queue)
    BY <1>2 DEF Take, Rest, TypeOK
  <2>2. /\ ToSet(queue) = {t} \cup ToSet(queue')
        /\ t \notin ToSet(queue')
        /\ Distinct(queue')
    BY <1>0, <2>1, ToSetHeadTail, DistinctTail
  <2>3. /\ pc[w] = "lock"
        /\ \A v \in Worker : v # w => pc'[v] = pc[v] /\ task'[v] = task[v]
        /\ pc'[w] = "run" /\ task'[w] = t
    BY <1>2 DEF Take, TypeOK
  <2>4. Held' = Held \cup {t}
    BY <2>3 DEF Held
  <2>5. t \notin Held /\ t \notin finished
    BY <2>2 DEF Conservation, TaskIsInOnePlace
  <2>6. UNCHANGED <<accepted, finished>>
    BY <1>2 DEF Take
  <2>7. TaskIsSomewhere'
    BY <2>2, <2>4, <2>6 DEF Conservation, TaskIsSomewhere
  <2>8. ASSUME NEW u \in Worker, NEW v \in Worker, u # v, pc'[u] = "run"
        PROVE  task'[u] # task'[v]
    <3>1. CASE u = w
      <4>1. task'[v] = task[v]
        BY <2>3, <2>8, <3>1
      <4>2. CASE pc[v] = "run"
        <5>1. task[v] \in Held
          BY <4>2 DEF Held
        <5> QED BY <2>3, <2>5, <3>1, <4>1, <5>1
      <4>3. CASE pc[v] # "run"
        <5>1. task[v] = NoTask
          BY <4>3 DEF TypeOK
        <5>2. t \in Task /\ NoTask \notin Task
          BY <2>1, PoolAssumption
        <5> QED BY <2>3, <3>1, <4>1, <5>1, <5>2
      <4> QED BY <4>2, <4>3
    <3>2. CASE u # w
      <4>1. pc[u] = "run" /\ task'[u] = task[u]
        BY <2>3, <2>8, <3>2
      <4>2. CASE v = w
        <5>1. task[u] \in Held
          BY <4>1 DEF Held
        <5> QED BY <2>3, <2>5, <4>1, <4>2, <5>1
      <4>3. CASE v # w
        BY <2>3, <2>8, <4>1, <4>3 DEF Conservation, TaskIsInOnePlace
      <4> QED BY <4>2, <4>3
    <3> QED BY <3>1, <3>2
  <2>9. TaskIsInOnePlace'
    BY <2>2, <2>4, <2>5, <2>6, <2>8
       DEF Conservation, TaskIsInOnePlace, Distinct
  <2> QED BY <2>7, <2>9 DEF Conservation
<1>3. ASSUME NEW w \in Worker, FinishTask(w)
      PROVE  Conservation'
  <2> DEFINE t == task[w]
  <2>1. /\ pc[w] = "run"
        /\ \A v \in Worker : v # w => pc'[v] = pc[v] /\ task'[v] = task[v]
        /\ pc'[w] = "lock"
    BY <1>3 DEF FinishTask, TypeOK
  <2>2. t \in Held
    BY <2>1 DEF Held
  <2>3. \A v \in Worker : v # w => task[v] # t
    BY <2>1 DEF Conservation, TaskIsInOnePlace
  <2>4. Held' = Held \ {t}
    BY <2>1, <2>3 DEF Held
  <2>5. queue' = queue /\ accepted' = accepted /\ finished' = finished \cup {t}
    BY <1>3 DEF FinishTask
  <2>6. ToSet(queue') = ToSet(queue)
    BY <2>5
  <2>7. TaskIsSomewhere'
    BY <2>2, <2>4, <2>5, <2>6 DEF Conservation, TaskIsSomewhere
  <2>8. ASSUME NEW u \in Worker, NEW v \in Worker, u # v, pc'[u] = "run"
        PROVE  task'[u] # task'[v]
    <3>1. u # w /\ pc[u] = "run" /\ task'[u] = task[u]
      BY <2>1, <2>8
    <3>2. CASE v = w
      <4>1. task'[w] = NoTask /\ task[u] # NoTask
        BY <1>3, <3>1 DEF FinishTask, TypeOK
      <4> QED BY <3>1, <3>2, <4>1
    <3>3. CASE v # w
      BY <2>1, <2>8, <3>1, <3>3 DEF Conservation, TaskIsInOnePlace
    <3> QED BY <3>2, <3>3
  <2>9. TaskIsInOnePlace'
    BY <2>2, <2>4, <2>5, <2>6, <2>8 DEF Conservation, TaskIsInOnePlace
  <2> QED BY <2>7, <2>9 DEF Conservation
<1>4. ASSUME NEW p \in Producer, EnqueueRefused(p) \/ NotifyOne(p)
      PROVE  Conservation'
  BY <1>4, ConservationFrame DEF EnqueueRefused, NotifyOne, WakeOne, Waiting, TypeOK
<1>5. ASSUME NEW w \in Worker, Sleep(w) \/ Exit(w) \/ SpuriousWakeup(w)
      PROVE  Conservation'
  BY <1>5, ConservationFrame DEF Sleep, Exit, SpuriousWakeup, TypeOK
<1>6. CASE RaiseStop \/ NotifyAll \/ JoinAll
  BY <1>6, ConservationFrame DEF RaiseStop, NotifyAll, WakeAll, JoinAll, TypeOK
<1>7. CASE Terminated \/ UNCHANGED vars
  BY <1>7, ConservationFrame DEF Terminated, vars
<1> QED BY <1>1, <1>2, <1>3, <1>4, <1>5, <1>6, <1>7 DEF Next, WorkerStep

(* No accepted task is lost, duplicated or handed to two workers.             *)
THEOREM TasksAreConserved == Spec => []Conservation
<1>1. Init => Conservation
  <2> SUFFICES ASSUME Init PROVE Conservation
    OBVIOUS
  <2>1. Held = {} /\ ToSet(queue) = {} /\ Len(queue) = 0
    BY ToSetEmpty DEF Init, Held
  <2> QED BY <2>1 DEF Init, Conservation, TaskIsSomewhere, TaskIsInOnePlace
<1>2. Spec => Init /\ [][Next]_vars
  BY DEF Spec, Safety
<1> QED BY <1>1, <1>2, ConservationStep, TypeCorrect, PTL

-----------------------------------------------------------------------------
LEMMA CountsAreNat ==
    /\ IsFiniteSet(Awake) /\ Cardinality(Awake) \in Nat
    /\ IsFiniteSet(Notifying) /\ Cardinality(Notifying) \in Nat
    /\ IsFiniteSet(Awake') /\ Cardinality(Awake') \in Nat
    /\ IsFiniteSet(Notifying') /\ Cardinality(Notifying') \in Nat
<1>1. Awake \subseteq Worker /\ Awake' \subseteq Worker
  BY DEF Awake
<1>2. Notifying \subseteq Producer /\ Notifying' \subseteq Producer
  BY DEF Notifying
<1>3. /\ IsFiniteSet(Awake) /\ IsFiniteSet(Awake')
      /\ IsFiniteSet(Notifying) /\ IsFiniteSet(Notifying')
  BY <1>1, <1>2, PoolAssumption, FS_Subset
<1> QED BY <1>3, FS_CardinalityType

(* A step that leaves m_tasks and the callers alone and sends nobody to sleep *)
(* keeps NoLostWakeup when it takes no worker away from the lock.             *)
LEMMA WakeupFrame ==
    ASSUME NoLostWakeup, Waiting' \subseteq Waiting, Awake \subseteq Awake',
           queue' = queue, Notifying' = Notifying, TypeOK
    PROVE  NoLostWakeup'
<1>1. Cardinality(Awake) <= Cardinality(Awake')
  BY CountsAreNat, FS_Subset
<1>2. Len(queue) \in Nat
  BY DEF TypeOK
<1> QED BY <1>1, <1>2, CountsAreNat DEF NoLostWakeup

LEMMA WakeupStep == TypeOK /\ NoLostWakeup /\ [Next]_vars => NoLostWakeup'
<1> SUFFICES ASSUME TypeOK, NoLostWakeup, [Next]_vars
             PROVE  NoLostWakeup'
  OBVIOUS
<1> USE DEF TypeOK
<1>1. ASSUME NEW p \in Producer, NEW t \in Task, Enqueue(p, t)
      PROVE  NoLostWakeup'
  <2>1. Waiting' = Waiting /\ Awake' = Awake
    BY <1>1 DEF Enqueue, Waiting, Awake
  <2>2. p \notin Notifying /\ Notifying' = Notifying \cup {p}
    BY <1>1 DEF Enqueue, Notifying
  <2>3. Cardinality(Notifying') = Cardinality(Notifying) + 1
    BY <2>2, CountsAreNat, FS_AddElement
  <2>4. Len(queue) \in Nat /\ Len(queue') = Len(queue) + 1
    BY <1>1 DEF Enqueue
  <2> QED BY <2>1, <2>3, <2>4, CountsAreNat DEF NoLostWakeup
<1>2. ASSUME NEW p \in Producer, NotifyOne(p), Waiting = {}
      PROVE  NoLostWakeup'
  BY <1>2 DEF NotifyOne, WakeOne, Waiting, NoLostWakeup
<1>3. ASSUME NEW p \in Producer, NotifyOne(p), Waiting # {}
      PROVE  NoLostWakeup'
  <2>1. PICK w \in Waiting : pc' = [pc EXCEPT ![w] = "lock"]
    BY <1>3 DEF NotifyOne, WakeOne
  <2>2. w \notin Awake /\ Awake' = Awake \cup {w}
    BY <2>1 DEF Awake, Waiting
  <2>3. p \in Notifying /\ Notifying' = Notifying \ {p}
    BY <1>3 DEF NotifyOne, Notifying
  <2>4. Cardinality(Awake') = Cardinality(Awake) + 1
    BY <2>2, CountsAreNat, FS_AddElement
  <2>5. Cardinality(Notifying') = Cardinality(Notifying) - 1
    BY <2>3, CountsAreNat, FS_RemoveElement
  <2>6. queue' = queue /\ Len(queue) \in Nat
    BY <1>3 DEF NotifyOne
  <2> QED BY <1>3, <2>4, <2>5, <2>6, CountsAreNat DEF NoLostWakeup
<1>4. ASSUME NEW w \in Worker, Sleep(w) \/ Exit(w)
      PROVE  NoLostWakeup'
  <2>1. queue = <<>> \/ stop
    BY <1>4 DEF Sleep, Exit, MayProceed, Exhausted
  <2>2. queue' = <<>>
    BY <1>4 DEF Sleep, Exit, MayProceed, Exhausted
  <2> QED BY <2>2, CountsAreNat DEF NoLostWakeup
<1>5. ASSUME NEW w \in Worker, Take(w)
      PROVE  NoLostWakeup'
  <2>1. w \in Awake /\ Awake' = Awake \ {w} /\ Waiting' = Waiting
    BY <1>5 DEF Take, Awake, Waiting
  <2>2. Cardinality(Awake') = Cardinality(Awake) - 1
    BY <2>1, CountsAreNat, FS_RemoveElement
  <2>3. Notifying' = Notifying
    BY <1>5 DEF Take, Notifying
  <2>4. Len(queue) \in Nat /\ Len(queue') = Len(queue) - 1
    BY <1>5, ToSetHeadTail DEF Take, Rest
  <2> QED BY <2>1, <2>2, <2>3, <2>4, CountsAreNat DEF NoLostWakeup
<1>6. ASSUME NEW w \in Worker, FinishTask(w) \/ SpuriousWakeup(w)
      PROVE  NoLostWakeup'
  <2>1. Waiting' \subseteq Waiting /\ Awake \subseteq Awake'
    BY <1>6 DEF FinishTask, SpuriousWakeup, Waiting, Awake
  <2>2. queue' = queue /\ Notifying' = Notifying
    BY <1>6 DEF FinishTask, SpuriousWakeup, Notifying
  <2> QED BY <2>1, <2>2, WakeupFrame
<1>7. CASE \/ \E p \in Producer : EnqueueRefused(p)
           \/ RaiseStop \/ NotifyAll \/ JoinAll \/ Terminated \/ UNCHANGED vars
  <2>1. Waiting' \subseteq Waiting /\ Awake \subseteq Awake'
    BY <1>7 DEF EnqueueRefused, RaiseStop, NotifyAll, WakeAll, JoinAll, Terminated,
                vars, Waiting, Awake
  <2>2. queue' = queue /\ Notifying' = Notifying
    BY <1>7 DEF EnqueueRefused, RaiseStop, NotifyAll, JoinAll, Terminated, vars,
                Notifying
  <2> QED BY <2>1, <2>2, WakeupFrame
<1> QED BY <1>1, <1>2, <1>3, <1>4, <1>5, <1>6, <1>7 DEF Next, WorkerStep

(* A worker never sleeps beside a queued task that nobody is about to pick up *)
(* or announce, although notify_one is called after the unlock.               *)
THEOREM NoWakeupIsLost == Spec => []NoLostWakeup
<1>1. Init => NoLostWakeup
  BY DEF Init, NoLostWakeup, Waiting
<1>2. Spec => Init /\ [][Next]_vars
  BY DEF Spec, Safety
<1> QED BY <1>1, <1>2, WakeupStep, TypeCorrect, PTL

-----------------------------------------------------------------------------
LEMMA InitRefines == Init => Pool!Init
<1> SUFFICES ASSUME Init PROVE Pool!Init
  OBVIOUS
<1>1. Held = {}
  BY DEF Init, Held
<1>2. Phase = "open"
  BY DEF Init, Phase
<1> QED BY <1>1, <1>2 DEF Init, Pool!Init

(* What the mapped variables do in a step that starts and finishes nothing.   *)
LEMMA HeldFrame ==
    ASSUME task' = task, \A w \in Worker : (pc'[w] = "run") <=> (pc[w] = "run")
    PROVE  Held' = Held
BY DEF Held

LEMMA StepRefines ==
    TypeOK /\ StopIsHeard /\ Conservation /\ [Next]_vars => [Pool!Next]_(Pool!vars)
<1> SUFFICES ASSUME TypeOK, StopIsHeard, Conservation, [Next]_vars
             PROVE  [Pool!Next]_(Pool!vars)
  OBVIOUS
<1> USE DEF TypeOK
<1>1. ASSUME NEW p \in Producer, NEW t \in Task, Enqueue(p, t)
      PROVE  Pool!Accept(t)
  <2>1. Phase = "open" /\ Phase' = "open"
    BY <1>1 DEF Enqueue, Phase
  <2>2. Held' = Held
    BY <1>1, HeldFrame DEF Enqueue
  <2>3. t \notin Pool!Known
    BY <1>1 DEF Enqueue, Pool!Known, Pool!ToSet, ToSet, Conservation, TaskIsSomewhere
  <2> QED BY <1>1, <2>1, <2>2, <2>3 DEF Enqueue, Pool!Accept
<1>2. ASSUME NEW w \in Worker, Take(w)
      PROVE  Pool!Start
  <2>1. Held' = Held \cup {Head(queue)}
    BY <1>2 DEF Take, Held
  <2>2. destructor # "destroyed"
    BY <1>2 DEF Take, StopIsHeard
  <2>3. Phase # "gone" /\ Phase' = Phase
    BY <1>2, <2>2 DEF Take, Phase
  <2> QED BY <1>2, <2>1, <2>3 DEF Take, Rest, Pool!Start
<1>3. ASSUME NEW w \in Worker, FinishTask(w)
      PROVE  Pool!Finish(task[w])
  <2>1. task[w] \in Held
    BY <1>3 DEF FinishTask, Held
  <2>2. Held' = Held \ {task[w]}
    BY <1>3 DEF FinishTask, Held, Conservation, TaskIsInOnePlace
  <2>3. Phase' = Phase
    BY <1>3 DEF FinishTask, Phase
  <2> QED BY <1>3, <2>1, <2>2, <2>3 DEF FinishTask, Pool!Finish
<1>4. CASE RaiseStop
  <2>1. Phase = "open" /\ Phase' = "closing"
    BY <1>4 DEF RaiseStop, Phase
  <2>2. Held' = Held
    BY <1>4, HeldFrame DEF RaiseStop
  <2> QED BY <1>4, <2>1, <2>2 DEF RaiseStop, Pool!Close, Pool!Next
<1>5. CASE JoinAll
  <2>1. Phase = "closing" /\ Phase' = "gone"
    BY <1>5 DEF JoinAll, Phase
  <2>2. Held = {} /\ Held' = Held
    BY <1>5 DEF JoinAll, Held
  <2>3. queue = <<>>
    BY <1>5, PoolAssumption DEF JoinAll, StopIsHeard
  <2> QED BY <1>5, <2>1, <2>2, <2>3 DEF JoinAll, Pool!Vanish, Pool!Next
<1>6. ASSUME NEW p \in Producer, EnqueueRefused(p) \/ NotifyOne(p)
      PROVE  UNCHANGED Pool!vars
  <2>1. Held' = Held
    BY <1>6, HeldFrame DEF EnqueueRefused, NotifyOne, WakeOne, Waiting
  <2>2. Phase' = Phase
    BY <1>6 DEF EnqueueRefused, NotifyOne, Phase
  <2> QED BY <1>6, <2>1, <2>2 DEF EnqueueRefused, NotifyOne, Pool!vars
<1>7. ASSUME NEW w \in Worker, Sleep(w) \/ Exit(w) \/ SpuriousWakeup(w)
      PROVE  UNCHANGED Pool!vars
  <2>1. Held' = Held
    BY <1>7, HeldFrame DEF Sleep, Exit, SpuriousWakeup
  <2>2. Phase' = Phase
    BY <1>7 DEF Sleep, Exit, SpuriousWakeup, Phase
  <2> QED BY <1>7, <2>1, <2>2 DEF Sleep, Exit, SpuriousWakeup, Pool!vars
<1>8. CASE NotifyAll \/ Terminated \/ UNCHANGED vars
  <2>1. Held' = Held
    BY <1>8, HeldFrame DEF NotifyAll, WakeAll, Terminated, vars
  <2>2. Phase' = Phase
    BY <1>8 DEF NotifyAll, Terminated, vars, Phase
  <2> QED BY <1>8, <2>1, <2>2 DEF NotifyAll, Terminated, vars, Pool!vars
<1>9. ASSUME NEW w \in Worker, FinishTask(w)
      PROVE  task[w] \in Task
  BY <1>9 DEF FinishTask
<1> QED BY <1>1, <1>2, <1>3, <1>4, <1>5, <1>6, <1>7, <1>8, <1>9
        DEF Next, WorkerStep, Pool!Next

(* The pool with its threads, lock and condition variable does nothing that a *)
(* TaskPool may not do: every step starts or finishes one task in FIFO order, *)
(* or moves the destructor, and it is gone only when nothing is left to run.  *)
THEOREM PoolImplementsTaskPool == Spec => Pool!Safety
<1>1. Spec => Init /\ [][Next]_vars
  BY DEF Spec, Safety
<1> QED BY <1>1, InitRefines, StepRefines, TypeCorrect, StopHeard,
           TasksAreConserved, PTL DEF Pool!Safety
=============================================================================
