SPECIFICATION FairSpec
CONSTANTS
    Conns = {c1, c2}
    Sessions = {s1, s2}
    Keys = {k1, k2}
    Texts = {x1, x2}
    None = None
    Native = FALSE
    MayForget = TRUE
    MayReload = TRUE
    MaxLate = 1
INVARIANTS
    ActiveTurnIsWatched
PROPERTIES
    QuestionIsKept
    AskComesBack
CHECK_DEADLOCK FALSE
