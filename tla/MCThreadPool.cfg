CONSTANTS
    Worker = {w1, w2}
    Producer = {p1, p2}
    Task = {t1, t2, t3}
    NoTask = NoTask
SPECIFICATION Spec
INVARIANTS TypeOK Conservation NoLostWakeup StopIsHeard
PROPERTIES AcceptedTaskFinishes DestructorReturns ImplementsTaskPool
