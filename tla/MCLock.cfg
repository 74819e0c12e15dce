SPECIFICATION Spec
CONSTANTS
    i1 = i1
    i2 = i2
    i3 = i3
    m1 = m1
    installer = installer
    w1 = w1
    w2 = w2
    v1 = v1
    v2 = v2
    Ids = {i1, i2, i3}
    Machines = {m1}
    Names = {installer, w1, w2}
    Values = {v1, v2}
    TTLs = {1, 2}
    Requests = {r1, r2, r3}
    Jobs <- MCJobs
    InitStores <- MCInitStores
    PruneAge = 0
    MaxTime = 2
    MaxCrashes = 0
    MaxAttempts = 3
    None = None
    NoDoc = NoDoc
SYMMETRY Symmetry
INVARIANTS
    TypeOK
    GrantHeld
    RefusedWroteNothing
PROPERTIES
    ImplementsInstallLock
CHECK_DEADLOCK FALSE
