SPECIFICATION Spec
CONSTANTS
    p1 = p1
    p2 = p2
    p3 = p3
    a = a
    b = b
    Procs = {p1, p2, p3}
    Paths = {a, b}
    MaxSock = 4
    MaxBytes = 3
    MAX_FDS = 2
    MAX_SOCKETS = 2
    QueueLen = 3
    Capacity = 2
SYMMETRY Symmetry
CONSTRAINT ShortStreams
INVARIANTS TypeOK NoDanglingSocket StreamIntact
PROPERTIES ClientsServedInOrder
CHECK_DEADLOCK FALSE
