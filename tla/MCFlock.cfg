CONSTANTS
    p1 = p1
    p2 = p2
    r1 = r1
    Local = {p1, p2}
    Recovered = {p2}
    Remote = {r1}
    MAXEND = 2
    t_flckrec = 5
    Asks <- Wanted
    NULL = NULL
SPECIFICATION Spec
INVARIANTS
    TypeOK
    ListSound
    AdjustExact
    SleeperBlocked
    NoDeadlock
