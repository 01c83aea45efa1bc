SPECIFICATION FairSpec
CONSTANTS
    N = 4
    Ask = 2
    Large = {3}
    Big = {4}
    None = None
PROPERTIES
    RelayTurnEnds
CHECK_DEADLOCK FALSE
