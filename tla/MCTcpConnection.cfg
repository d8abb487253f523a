\* Data and files, with reading switched off and on.
SPECIFICATION Spec
CONSTANTS
    SndBuf = 2
    Lengths = {1, 3}
    FileLengths = {1, 3}
    Calls = {"forceClose", "readControl"}
    WriteCompleteCallback = TRUE
    MaxSends = 3
    MaxTasks = 3
INVARIANTS StreamIntact FinAfterData WritingIffPending
PROPERTIES CompleteWhenEmpty OutputFlushed ShutdownCompletes
CHECK_DEADLOCK FALSE
