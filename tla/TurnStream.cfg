SPECIFICATION FairSpec
CONSTANTS
    Turns = 2
    MaxLines = 2
    MaxStale = 1
    PipeCap = 1
    ChanCap = 1
    None = None
INVARIANTS
    AnswerIsFinal
    ShownIsHeard
    FailureIsItsOwn
PROPERTIES
    EndsUnlessMissed
CHECK_DEADLOCK FALSE
