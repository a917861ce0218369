\* What the worker's docstring promises, when the lock session is lost once.
SPECIFICATION Spec
CONSTANTS
    Cards <- OneCard
    Workers = {w1, w2}
    Requests = {}
    Endpoints = {e1}
    Transports = {streamable_http, sse}
    None = None
    Down = Down
    Concurrency = 1
    BatchLimit = 1
    MaxClock = 2
    MaxDrops = 1
INVARIANT
    SingleSweep
