\* One worker that is about to wait when the task comes.
SPECIFICATION Spec
CONSTANTS
    Workers = {w1}
    Producers = {p1}
    none = none
    MaxTasks = 2
PROPERTIES EveryTaskTaken
CHECK_DEADLOCK FALSE
