CONSTANTS
    Procs = {init, p1, p2, p3}
    proc_init = init
    Spaces = {a0, a1, a2}
    NULL = NULL
SPECIFICATION DisciplinedSpec
SYMMETRY Entries
INVARIANTS
    TypeOK
    KinSound
    SpaceSound
    VforkExclusive
    WaitNotStuck
