--------------------------- MODULE MCCatalogQueries ---------------------------
(***************************************************************************)
(* CatalogQueries against what the answers should be, over bounded tables. *)
(* TLC evaluates the assumptions in every run that extends this module.    *)
(***************************************************************************)
EXTENDS CatalogQueries

TagRank == [x |-> 1, y |-> 2]
Scopes == {[scope |-> "global", team |-> Missing, guests |-> {}],
           [scope |-> "global", team |-> Missing, guests |-> {"t2"}],
           [scope |-> "team", team |-> "t1", guests |-> {}],
           [scope |-> "team", team |-> "t1", guests |-> {"t2"}]}
CardRows ==
    {[creator |-> c, scope |-> s.scope, team |-> s.team, guests |-> s.guests, tags |-> tags,
      words |-> {"x"}, health |-> h, archived |-> a] :
       c \in {"ann", "bob"}, s \in Scopes, tags \in {{}, {"x"}, {"x", "y"}},
       h \in {Missing, "healthy"}, a \in BOOLEAN}
PlainRows == {[row EXCEPT !.words = w] :
                row \in {r \in CardRows : r.health = Missing /\ ~r.archived}, w \in SUBSET {"x", "z"}}
Tables == UNION {[ids -> CardRows] : ids \in {{}, {1}, {1, 2}}}
FewTables == [{1} -> PlainRows]
Readers == {Nobody} \cup [id : {"ann"}, teams : SUBSET {"t1", "t2"}]
Searches == {<<>>} \cup {<<[lexemes |-> l, lower |-> t]>> : l \in SUBSET {"x", "z"}, t \in {"x", "y"}}

Without(table, hidden) == [i \in DOMAIN table \ hidden |-> table[i]]
Answers(table, viewer) ==
    [listed |-> Listed(table, viewer, <<>>, <<>>), tags |-> TagList(table, viewer, TagRank),
     stats |-> Stats(table, viewer), details |-> [i \in {1, 2} |-> Detail(table, viewer, i)],
     marks |-> BookmarkOrder(table, viewer, [i \in {1, 2} |-> 0])]

(* A card one may not see leaves no trace (queries.py:6-7, 175-178,        *)
(* 204-206): every answer is what it were if the card did not exist.       *)
ASSUME HiddenLeavesNoTrace ==
    \A table \in Tables, viewer \in Readers :
      LET hidden == {i \in DOMAIN table : ~Shows(table[i], viewer)}
      IN  hidden # {} => Answers(table, viewer) = Answers(Without(table, hidden), viewer)

(* Without a session public cards are left (visibility.py:15-16,           *)
(* deps.py:63), and whoever is in more teams sees no less.                 *)
ASSUME TeamsOnlyAdd ==
    \A row \in CardRows :
      /\ Shows(row, Nobody) <=> row.scope = "global"
      /\ \A more, less \in Readers : more.id = less.id /\ less.teams \subseteq more.teams =>
           (Shows(row, less) => Shows(row, more))
      /\ \A viewer \in Readers : CanEdit(row, viewer) => Shows(row, viewer)

(* A filter narrows (queries.py:138-139): one more tag gives the cards     *)
(* that both filters give, and a tag that is repeated changes nothing.     *)
ASSUME FiltersIntersect ==
    \A table \in FewTables, viewer \in {Nobody}, q \in Searches,
       a, b \in SeqOf({"x", "y", "X"}, 2) :
      Listed(table, viewer, q, a \o b) =
        Listed(table, viewer, q, a) \cap Listed(table, viewer, <<>>, b)

(* The three screens agree: the number beside a tag is that of the cards   *)
(* the list has for it, the total that of all, and what is on the list has *)
(* a page of its own.                                                      *)
ASSUME ScreensAgree ==
    \A table \in Tables, viewer \in Readers :
      LET all == Listed(table, viewer, <<>>, <<>>)
          tags == TagList(table, viewer, TagRank)
      IN  /\ Stats(table, viewer).total = Cardinality(all)
          /\ {tags[n].tag : n \in DOMAIN tags} = UNION {table[i].tags : i \in all}
          /\ \A n \in DOMAIN tags :
               tags[n].count = Cardinality(Listed(table, viewer, <<>>, <<tags[n].tag>>))
          /\ \A n \in 2 .. Len(tags) : tags[n].count <= tags[n - 1].count
          /\ \A i \in {1, 2} : i \in all <=>
               Detail(table, viewer, i) # <<>> /\ ~table[i].archived

(* Bookmarks: as long as nothing changes, the pages put together are the   *)
(* list, and a card taken from the reader's sight is on none               *)
(* (queries.py:249-250) - yet a bookmark removed between two pages hides   *)
(* another card from both, which is why the catalogue does not page with   *)
(* OFFSET (schemas.py:119-120).                                            *)
OneCard == CHOOSE row \in CardRows : row.scope = "global" /\ ~row.archived
Concealed == [OneCard EXCEPT !.scope = "team", !.team = "t1", !.creator = "bob"]
SomeMarks == UNION {[ids -> {1, 2}] : ids \in SUBSET (1 .. 4)}
ASSUME BookmarksPaged ==
    \A table \in [1 .. 4 -> {OneCard, Concealed}], marks \in SomeMarks, limit \in 1 .. 3 :
      LET all == BookmarkOrder(table, Nobody, marks)
          page(n) == BookmarkPage(table, Nobody, marks, limit, n * limit)
      IN  /\ page(0) \o page(1) \o page(2) \o page(3) = all
          /\ Range(all) = {i \in DOMAIN marks : table[i] = OneCard}
ASSUME OffsetSkips ==
    \E marks \in SomeMarks, gone \in 1 .. 4 :
      LET table == [i \in 1 .. 4 |-> OneCard]
          left == Without(marks, {gone})
          seen == Range(BookmarkPage(table, Nobody, marks, 2, 0)) \cup
                  Range(BookmarkPage(table, Nobody, left, 2, 2))
      IN  gone \in seen /\ DOMAIN left \ seen # {}
=============================================================================
