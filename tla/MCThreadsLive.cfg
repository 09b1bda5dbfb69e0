CONSTANTS
    Procs = {init, p1, p2}
    proc_init = init
    Spaces = {a0, a1, a2, a3}
    NULL = NULL
SPECIFICATION FairSpec
PROPERTY
    ExitCompletes
