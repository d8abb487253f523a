\* Two workers, two producers.
SPECIFICATION Spec
CONSTANTS
    Workers = {w1, w2}
    Producers = {p1, p2}
    none = none
    MaxTasks = 3
INVARIANTS TypeOK PopFindsTask
PROPERTIES ExecutorSafety DrainedWhileAwake
CHECK_DEADLOCK FALSE
