SPECIFICATION Spec
CONSTANTS
    p1 = p1
    p2 = p2
    r1 = r1
    r2 = r2
    r3 = r3
    Pods = {p1, p2}
    Readers = {r1, r2, r3}
    Home <- MCHome
    Tasks = {t1, t2, t3}
    Writers = {w1}
    MaxVersion = 2
    RedisFails = FALSE
    None = None
INVARIANTS
    CorrectOnceAnswered
CHECK_DEADLOCK FALSE
