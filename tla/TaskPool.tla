------------------------------ MODULE TaskPool ------------------------------
(* What a user of ThreadPool (include/core/threading/ThreadPool.h) relies on: *)
(* a task that Enqueue accepts is started once, in the order of acceptance,   *)
(* runs to its end, and the destructor returns only when nothing is left to   *)
(* run.  Threads, the mutex and the condition variable do not appear here.    *)
EXTENDS Sequences, SequencesExt

CONSTANT Task        \* the closures handed to Enqueue, each of them once

VARIABLES pending,   \* accepted and not started, oldest first
          running,   \* started and not finished
          finished,  \* ran to their end
          phase      \* "open": accepting; "closing": draining; "gone"

vars == <<pending, running, finished, phase>>

Known == ToSet(pending) \cup running \cup finished

Init == /\ pending = <<>>
        /\ running = {}
        /\ finished = {}
        /\ phase = "open"

Accept(t) == /\ phase = "open"
             /\ t \notin Known
             /\ pending' = Append(pending, t)
             /\ UNCHANGED <<running, finished, phase>>

Start == /\ pending # <<>>
         /\ phase # "gone"
         /\ running' = running \cup {Head(pending)}
         /\ pending' = Tail(pending)
         /\ UNCHANGED <<finished, phase>>

Finish(t) == /\ t \in running
             /\ running' = running \ {t}
             /\ finished' = finished \cup {t}
             /\ UNCHANGED <<pending, phase>>

Close == /\ phase = "open"
         /\ phase' = "closing"
         /\ UNCHANGED <<pending, running, finished>>

Vanish == /\ phase = "closing"
          /\ pending = <<>>
          /\ running = {}
          /\ phase' = "gone"
          /\ UNCHANGED <<pending, running, finished>>

Next == \/ \E t \in Task : Accept(t) \/ Finish(t)
        \/ Start
        \/ Close
        \/ Vanish

Safety == Init /\ [][Next]_vars

Spec == /\ Safety
        /\ WF_vars(Start)
        /\ WF_vars(Vanish)
        /\ \A t \in Task : WF_vars(Finish(t))

=============================================================================
