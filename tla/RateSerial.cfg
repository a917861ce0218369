\* The refresh bucket: one call at a time, two windows and a bit.
SPECIFICATION Spec
CONSTANTS
    Users = {u1}
    Threads = {loop}
    Limit = 2
    Window = 4
    Second = 2
    MaxTime = 11
    None = None
INVARIANTS
    TypeOK
    TwiceTheLimitAtMost
PROPERTIES
    RefusedForCause
    RetryAfterSuffices
