\* A file that takes more than one sendfile.
SPECIFICATION Spec
CONSTANTS
    SndBuf = 2
    Lengths = {1}
    FileLengths = {3}
    Calls = {}
    WriteCompleteCallback = FALSE
    MaxSends = 1
    MaxTasks = 2
INVARIANTS PeerReadsPrefix
CHECK_DEADLOCK FALSE
