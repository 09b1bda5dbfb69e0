CONSTANTS
    Procs = {p1, p2, p3}
    Queues = {q1}
    Headers = {h1, h2}
    NULL = NULL
    Sends <- SomeSends
    Receives <- SomeReceives
    QBytes = {6}
    msgmnb = 4
    msgssz = 2
    msgseg = 3
    msgmap_len = 4
    MaxSeq = 1
SPECIFICATION Spec
SYMMETRY Same
INVARIANTS
    TypeOK
    QueuesSound
    PoolSound
    SleepersMustWait
