\* Two refreshes and one slot, the endpoint changes once, the card at will.
SPECIFICATION FairSpec
CONSTANTS
    Refreshes = {r1, r2}
    Transports <- McpTransports
    Tools = {x1}
    Endpoints <- McpServers
    Slots = 1
    MaxChanges = 1
    MaxSaves = 2
    None = None
INVARIANTS
    TypeOK
    FallbackFindsTheWay
    AnsweredBeforeFallback
    ErrorNamesCause
PROPERTIES
    ImplementsToolsBoard
    RefreshEnds
