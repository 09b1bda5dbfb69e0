CONSTANTS
    t1 = t1
    t2 = t2
    t3 = t3
    A = A
    B = B
    Procs <- TwoProcs
    Spaces = {A}
    asOf <- asOfTwo
    Uaddrs = {u1}
    BadAddr = bad
    NULL = NULL
    Words <- FaultyWords
    Signalled = {t1}
    Waiters = {w1, w2}
    MaxTimeid = 1
SPECIFICATION FairSpec
CHECK_DEADLOCK FALSE
PROPERTY
    TimedWaitEnds
