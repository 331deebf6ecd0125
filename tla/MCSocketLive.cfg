SPECIFICATION FairSpec
CONSTANTS
    Procs = {p1, p2}
    Paths = {a}
    MaxSock = 3
    MaxBytes = 3
    MAX_FDS = 2
    MAX_SOCKETS = 2
    QueueLen = 2
    Capacity = 2
PROPERTIES WaitersReturn
CHECK_DEADLOCK FALSE
