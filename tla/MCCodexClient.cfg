SPECIFICATION FairSpec
CONSTANTS
    Turns = {t1, t2}
    Probes = {q1}
    Procs = {p1, p2, p3}
    None = None
INVARIANTS
    OneProcess
    FollowUpAccepted
    ProbeSparesStreams
    OutputHasOneOwner
PROPERTIES
    EveryTurnTold
