\* Two requests over two kids while the key set is rotated once.
SPECIFICATION FairSpec
CONSTANTS
    Kids = {k1, k2}
    Calls = {r1, r2}
    CacheSec = 3
    MinRefetch = 2
    MaxTime = 7
    MaxRotations = 1
    None = None
INVARIANTS
    TypeOK
    ForcedRefetchesApart
    FetchOnlyWhenStale
PROPERTIES
    RejectedForCause
    RequestAnswered
