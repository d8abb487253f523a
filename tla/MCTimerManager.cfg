\* Two timers, of threads and of callbacks, in four ticks.
SPECIFICATION Spec
CONSTANTS
    Delays = {1, 2}
    MaxTimers = 2
    MaxTime = 4
INVARIANTS ArmedForFirst
PROPERTIES RunsDue EveryTimerServed
CHECK_DEADLOCK FALSE
