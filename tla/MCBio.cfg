CONSTANTS
    Procs = {p1, p2}
    Buffers = {b1, b2, b3}
    x1 = x1
    x2 = x2
    Blocks = {x1, x2}
    NULL = NULL
    Size <- Sizes
    EmptySize = 2
    bufhwm = 3
    AsyncMin = 1
SPECIFICATION Spec
SYMMETRY Same
INVARIANTS
    TypeOK
    BuffersSound
    Coherent
    SleepersMustWait
    NoDeadlock
