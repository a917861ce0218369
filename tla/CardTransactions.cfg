\* Two cards and a request, or one card and two requests; the sweep takes one
\* card at a time.  The second card is there to compete for its turn.
SPECIFICATION FairSpec
CONSTANTS
    Cards <- TwoCards
    Requests = {r1, r2}
    Bodies = {full, bare, empty}
    Addressed = {full, bare}
    Reachable = {full}
    Childless = {empty}
    None = None
    BatchLimit = 1
    Edited = {1}
    MaxLoad = 3
INVARIANTS
    TypeOK
    DeadlocksAreDeletions
PROPERTIES
    ImplementsCardStore
    TickEnds
    RequestsEnd
    EveryCardsTurnComes
