SPECIFICATION Spec
CONSTANTS
    d1 = d1
    d2 = d2
    browser = browser
    native = native
    Sessions = {s1}
    Keys = {k1, k2}
    Hashes = {h1}
    Turns = {t1, t2}
    Attachments = {}
    Threads = {th1}
    None = None
    Daemons = {d1, d2}
    Recovering = {d1}
    Conns = {browser, native}
    daemonOf <- DaemonEach
    Cleaning = {native}
    Cap = 1
    StoreMayFail = FALSE
    MayCrash = FALSE
SYMMETRY Symmetry
PROPERTIES
    TurnEndsOnce
