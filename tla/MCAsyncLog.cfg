\* Enough lines for one overload and a second round after it, and files that are
\* replaced twice in a second or not for a second.
SPECIFICATION Spec
CONSTANTS
    LinesPerBuffer = 2
    Overload = 3
    RollSize = 3
    Fatals = TRUE
    MaxLines = 10
    MaxSeconds = 1
INVARIANTS LinesConserved SparesReady
PROPERTIES EveryLineFlushed
CHECK_DEADLOCK FALSE
