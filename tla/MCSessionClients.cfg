SPECIFICATION Spec
CONSTANTS
    Sessions = {s1, s2}
    Keys = {k1, k2}
    Hashes = {h1, h2}
    Turns = {t1, t2, t3}
    Attachments = {a1}
    Threads = {th1}
    None = None
    SharedStore = FALSE
SYMMETRY Symmetry
INVARIANTS
    TypeOK
    OneActiveTurn
    LedgersAgree
    AttachmentsInSession
PROPERTIES
    TurnEndsOnce
    RetryAnswerIsFinal
    AttachmentLinkedOnce
    ImplementsLifecycle
