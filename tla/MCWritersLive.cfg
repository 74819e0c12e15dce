SPECIFICATION FairSpec
CONSTANTS
    i1 = i1
    m1 = m1
    ana = ana
    ben = ben
    hub = hub
    v1 = v1
    v2 = v2
    Ids = {i1, i2, i3}
    Machines = {m1}
    Names = {ana, ben, hub}
    Values = {v1, v2}
    TTLs = {1}
    Requests = {r1, r2, r3}
    Jobs <- MCLiveJobs
    InitStores <- MCLiveStores
    PruneAge = 0
    MaxTime = 1
    MaxCrashes = 1
    MaxAttempts = 2
    None = None
    NoDoc = NoDoc

PROPERTIES
    EveryRequestEnds
CHECK_DEADLOCK FALSE
