\* Four clients, one of them with a blocked address, for two loops; beside idleFd_
\* three descriptors, of which the last is beyond worker_connections.
SPECIFICATION Spec
CONSTANTS
    Clients = {c1, c2, c3, c4}
    Blocked = {c4}
    Loops = 2
    MaxFd = 4
    WorkerConnections = 3
    MaxFiles = 1
    free = free
    idle = idle
    file = file
INVARIANTS TypeOK OneOwner PoolConsistent
PROPERTIES EveryClientServed LeaverReleased
CHECK_DEADLOCK FALSE
