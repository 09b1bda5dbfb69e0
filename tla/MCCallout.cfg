CONSTANTS
    v_call = 6
    IntBits = 8
    Lbolt0 = 0
    Delays = {0, 2}
    MaxTimeid = 6
    MaxNow = 2
SPECIFICATION FairSpec
CHECK_DEADLOCK FALSE
INVARIANTS
    TypeOK
    HeapOrder
PROPERTIES
    ImplementsTimers
    DueIsServed
