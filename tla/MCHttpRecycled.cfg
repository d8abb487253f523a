\* A client after one whose request was rejected, on the same object.
SPECIFICATION HttpSpec
CONSTANTS
    SndBuf = 1
    WriteCompleteCallback = FALSE
    Kinds <- AllKinds
    HeaderLength = 2
    MaxRequests = 1
    MaxClients = 2
INVARIANTS FreshContext
CHECK_DEADLOCK FALSE
