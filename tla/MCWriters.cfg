SPECIFICATION Spec
CONSTANTS
    i1 = i1
    m1 = m1
    ana = ana
    ben = ben
    hub = hub
    v1 = v1
    v2 = v2
    Ids = {i1, i2}
    Machines = {m1}
    Names = {ana, ben, hub}
    Values = {v1, v2}
    TTLs = {1}
    Requests = {r1, r2, r3}
    Jobs <- MCJobs
    InitStores <- MCInitStores
    PruneAge = 0
    MaxTime = 1
    MaxCrashes = 0
    MaxAttempts = 3
    None = None
    NoDoc = NoDoc
SYMMETRY Symmetry
PROPERTIES
    NoLostUpdate
    RevisionVersionsContent
    EventsTellTheTruth
    DeletionsAudited
CHECK_DEADLOCK FALSE
