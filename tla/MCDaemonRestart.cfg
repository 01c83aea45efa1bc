SPECIFICATION FairSpec
CONSTANTS
    d1 = d1
    d2 = d2
    browser = browser
    native = native
    Sessions = {s1, s2}
    Keys = {k1}
    Hashes = {h1}
    Turns = {t1, t2}
    Attachments = {}
    Threads = {th1, th2}
    None = None
    Daemons = {d1}
    Recovering = {d1}
    Conns = {native}
    daemonOf <- OnlyNative
    Cleaning = {native}
    Cap = 1
    StoreMayFail = TRUE
    MayCrash = TRUE
INVARIANTS
    ActiveTurnIsDriven
    LinkIsOwnThread
    OneCodexTurn
PROPERTIES
    ImplementsClients
    TurnsEnd
