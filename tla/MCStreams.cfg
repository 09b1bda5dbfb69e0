CONSTANTS
    NULL = NULL
    Procs = {p1, p2}
    Kinds <- SomeKinds
    MaxMsgs = 4
    hiwat = 2
    lowat = 0
    AddrLen = 1
SPECIFICATION Spec
INVARIANTS
    TypeOK
    QueueSound
    NoStall
    WriterTold
PROPERTIES
    Drains
CHECK_DEADLOCK FALSE
