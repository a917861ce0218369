\* Two replicas, two rechecks and the owner on one card, the lock may be lost.
SPECIFICATION Spec
CONSTANTS
    Cards <- OneCard
    Workers = {w1, w2}
    Requests = {r1, r2}
    Endpoints = {e1}
    Transports = {streamable_http, sse}
    None = None
    Down = Down
    Concurrency = 1
    BatchLimit = 1
    MaxClock = 3
    MaxDrops = 1
INVARIANTS
    TypeOK
    RowSummarisesHistory
    TokenIsExact
    SingleSweepWhileLocked
PROPERTIES
    SweepYields
    SweepMovesForward
    CorrectionIsWitnessed
    ImplementsHealthBoard
SYMMETRY Interchangeable
