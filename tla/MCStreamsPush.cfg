CONSTANTS
    NULL = NULL
    Procs = {p1, p2}
    Kinds <- SomeKinds
    MaxMsgs = 3
    hiwat = 2
    lowat = 0
    AddrLen = 1
SPECIFICATION PushSpec
PROPERTY Drains
CHECK_DEADLOCK FALSE
