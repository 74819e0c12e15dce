SPECIFICATION FairSpec
CONSTANTS
    Readers = {r1, r2}
    Writers = {w1, w2}
    Kinds = {"operator", "collector", "touch", "prune"}
    MaxRev = 3
    MaxStamp = 1
    RedisFails = TRUE
    NoDoc = NoDoc
    NoEntry = NoEntry
INVARIANTS
    TypeOK
    CachedWasStored
    QuietInvalidation
PROPERTIES
    CacheConverges
