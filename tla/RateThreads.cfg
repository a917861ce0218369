\* The preview and health buckets: _hit runs in a pool of threads.
SPECIFICATION Spec
CONSTANTS
    Users = {u1}
    Threads = {t1, t2, t3}
    Limit = 1
    Window = 3
    Second = 1
    MaxTime = 3
    None = None
SYMMETRY Interchangeable
INVARIANT
    TwiceTheLimitAtMost
