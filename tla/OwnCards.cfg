\* The own cards of the reader among public cards of others, two a page.
SPECIFICATION Spec
CONSTANTS
    t1 = t1
    t2 = t2
    Users = {reader, other}
    Viewers = {reader}
    Teams = {t1, t2}
    TeamsOf <- TeamsOfReader
    Audiences <- PublicOrOurs
    Ids = {1, 2, 3}
    Names = {1}
    Times = {1, 2}
    PageSize = 2
    MaxUpdates = 0
    None = None
INVARIANT
    OwnCardsAllShown
