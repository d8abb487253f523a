\* The FATAL line of a process that logs through AsyncLogThread.
SPECIFICATION Spec
CONSTANTS
    LinesPerBuffer = 2
    Overload = 3
    RollSize = 3
    Fatals = TRUE
    MaxLines = 3
    MaxSeconds = 1
INVARIANTS FatalLogged
CHECK_DEADLOCK FALSE
