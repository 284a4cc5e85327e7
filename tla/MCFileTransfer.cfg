SPECIFICATION FairSpec
CONSTANTS
    c1 = c1
    c2 = c2
    t1 = t1
    t2 = t2
    None = None
    Commands = {c1, c2}
    Digested = {c1}
    Threads = {t1, t2}
    Chunks = 2
INVARIANTS
    ExposedIsWhole
    NoPartLeft
    TokenServesOnce
PROPERTIES
    TransferEnds
CHECK_DEADLOCK FALSE
