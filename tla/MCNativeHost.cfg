SPECIFICATION FairSpec
CONSTANTS
    N = 5
    Ask = 2
    Large = {3, 4}
    Big = {5}
    None = None
INVARIANTS
    RequestsInOrder
    SetupMeansNothingDone
PROPERTIES
    RequestsAnswered
    EndsWithPort
    OwnedTurnEnds
CHECK_DEADLOCK FALSE
