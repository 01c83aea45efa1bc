SPECIFICATION Spec
CONSTANTS
    Conns = {c1, c2}
    Sessions = {s1}
    Keys = {k1, k2}
    Texts = {x1, x2}
    None = None
    Native = TRUE
    MayForget = FALSE
    MayReload = FALSE
    MaxLate = 1
INVARIANTS
    ActiveTurnIsWatched
CHECK_DEADLOCK FALSE
