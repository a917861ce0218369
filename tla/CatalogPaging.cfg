\* Three cards, public or not, read one card a page while the owners change them.
SPECIFICATION Spec
CONSTANTS
    t1 = t1
    t2 = t2
    Users = {reader, other}
    Viewers = {reader}
    Teams = {t1, t2}
    TeamsOf <- TeamsOfReader
    Audiences <- PublicOrNot
    Ids = {1, 2, 3}
    Names = {1, 2}
    Times = {1, 2}
    PageSize = 1
    MaxUpdates = 1
    None = None
INVARIANTS
    TypeOK
    NothingSkipped
    NothingRepeated
CONSTRAINT OneWalk
