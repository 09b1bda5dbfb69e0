CONSTANTS
    Procs = {p1, p2}
    Threads = {p2}
    Sems = {0, 1}
    Ops <- MCOps
    Lists <- MCLists
    SEMVMX = 2
    SEMAEM = 1
    SEMUME = 1
    SEMMNU = 2
    SEMOPM = 2
    Values = {0, 1}
    Faulting = {p2}
    Signalled = {p1}
    MaxSeq = 1
    NULL = NULL
SPECIFICATION Spec
CHECK_DEADLOCK FALSE
INVARIANT
    OwnOperations
