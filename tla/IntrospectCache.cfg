\* Three overlapping calls for one token whose session changes twice.
SPECIFICATION Spec
CONSTANTS
    Tokens = {t1}
    Calls = {r1, r2, r3}
    CacheSec = 2
    MaxTime = 5
    MaxVersions = 3
    None = None
INVARIANTS
    TypeOK
    LogoutShowsInTime
SYMMETRY Interchangeable
