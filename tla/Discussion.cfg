\* Two requests, two cards and three comments of three people.
\* When both cards are gone and no request is open, nothing is left to do.
SPECIFICATION Spec
CONSTANTS
    owner = owner
    Users = {owner, moderator, writer}
    Cards = {k1, k2}
    CommentIds = {c1, c2, c3}
    Requests = {r1, r2}
    Owner <- OneOwner
    Moderators = {moderator}
    None = None
    Gone = Gone
INVARIANTS
    TypeOK
    TwoLevels
    OwnWordsOrNone
    ToldOnce
    ListingLosesNothing
PROPERTY
    ImplementsForum
CONSTRAINTS
    OnOneCard
    ThreeByOthers
SYMMETRY Interchangeable
CHECK_DEADLOCK FALSE
