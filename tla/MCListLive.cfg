SPECIFICATION FairSpec
CONSTANTS
    p1 = p1
    p2 = p2
    r1 = r1
    r2 = r2
    r3 = r3
    Pods = {p1}
    Readers = {r1, r2}
    Home <- MCHome
    Tasks = {t1, t2}
    Writers = {w1}
    MaxVersion = 2
    RedisFails = TRUE
    None = None
PROPERTIES
    WaitersAnswered
    TableForgets
    ListConverges
CHECK_DEADLOCK FALSE
