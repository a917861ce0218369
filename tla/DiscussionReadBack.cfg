\* One comment is written while its card is deleted.
SPECIFICATION Spec
CONSTANTS
    owner = owner
    Users = {owner, writer}
    Cards = {k1}
    CommentIds = {c1, c2}
    Requests = {r1, r2}
    Owner <- OneOwner
    Moderators = {}
    None = None
    Gone = Gone
INVARIANT
    CreatedIsReadBack
CHECK_DEADLOCK FALSE
