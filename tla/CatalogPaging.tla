----------------------------- MODULE CatalogPaging -----------------------------
(***************************************************************************)
(* The catalogue lists of core/connectors/queries.py: who sees a card      *)
(* (VISIBLE_PREDICATE), the two orders, the cursor that a page hands to    *)
(* the next, and GET /me/connectors, which filters such pages once more.   *)
(*                                                                         *)
(* A page is one SELECT and so one snapshot; between two pages the owners  *)
(* create, edit and delete cards.  created_at is the start of a            *)
(* transaction, so a card may appear with an older one than its            *)
(* neighbours.  The filters q and tag, which PATCH can change like the     *)
(* audience, are not modelled.  A cursor survives encode_cursor and        *)
(* decode_cursor unchanged: ISO 8601 keeps the microseconds of created_at. *)
(***************************************************************************)
EXTENDS Naturals, FiniteSets

CONSTANTS
    Ids,            \* connector_id, in the order of the uuid type
    Users,
    Viewers,        \* those of them who read lists
    Teams,
    Audiences,      \* whom a card may be shown to: scope and visibility teams
    TeamsOf,        \* the team_codes of each user's session
    Names,          \* in the order of the text type
    Times,          \* bound: values of created_at
    PageSize,       \* limit
    MaxUpdates,     \* bound: PATCHes
    None

ASSUME CatalogAssumption ==
    /\ Ids \subseteq Nat /\ Names \subseteq Nat /\ Times \subseteq Nat
    /\ IsFiniteSet(Ids)
    /\ Viewers \subseteq Users /\ TeamsOf \in [Viewers -> SUBSET Teams]
    /\ Audiences \subseteq [global : BOOLEAN, teams : SUBSET Teams]
    /\ \A a \in Audiences : a.global \/ a.teams # {}     \* check_consistency
    /\ None \notin Viewers
    /\ PageSize \in Nat \ {0} /\ MaxUpdates \in Nat

VARIABLES
    cards,          \* connectors with connector_visibility_teams
    updates,        \* how many PATCHes there were
    walk            \* a client that reads page after page

catalogVars == <<cards, updates, walk>>

Sorts == {"recent", "name"}
Rows == [creator : Users, created : Times, name : Names, audience : Audiences]
Cursors == [sort : Sorts, value : Names \cup Times, id : Ids]
ASSUME NoneAssumption == None \notin Rows \cup Cursors

Walks == [list : {"none", "catalog", "mine"}, viewer : Viewers \cup {None},
          sort : Sorts, cursor : Cursors \cup {None}, over : BOOLEAN,
          shown : SUBSET Ids,     \* on the pages so far
          steady : SUBSET Ids]    \* history: in the list, and in place, since the first page

NoWalk == [list |-> "none", viewer |-> None, sort |-> "recent", cursor |-> None,
           over |-> TRUE, shown |-> {}, steady |-> {}]

TypeOK ==
    /\ cards \in [Ids -> Rows \cup {None}]
    /\ updates \in Nat
    /\ walk \in Walks

Init ==
    /\ cards = [i \in Ids |-> None]
    /\ updates = 0
    /\ walk = NoWalk

-----------------------------------------------------------------------------
(* VISIBLE_PREDICATE *)
VisibleTo(row, u, teams) ==
    row.audience.global \/ row.creator = u \/ row.audience.teams \cap teams # {}

(* GET /me/connectors asks without teams. *)
ScopeOf(w) == IF w.list = "mine" THEN {} ELSE TeamsOf[w.viewer]

Key(row, sort) == IF sort = "recent" THEN row.created ELSE row.name

(* Position (v, i) comes before (w, j). *)
Precedes(sort, v, i, w, j) ==
    \/ sort = "recent" /\ (v > w \/ (v = w /\ i > j))
    \/ sort = "name" /\ (v < w \/ (v = w /\ i < j))

Before(sort, i, j) == Precedes(sort, Key(cards[i], sort), i, Key(cards[j], sort), j)

(* Mutants: no tie-break by connector_id; "<=" instead of "<". *)
BeyondIgnoringTies(cursor, sort, i) ==
    cursor = None \/ Precedes(sort, cursor.value, 0, Key(cards[i], sort), 0)

BeyondInclusive(cursor, sort, i) ==
    cursor = None \/ ~Precedes(sort, Key(cards[i], sort), i, cursor.value, cursor.id)

(* _CURSOR_COMPARE *)
Beyond(cursor, sort, i) ==
    cursor = None \/ Precedes(sort, cursor.value, cursor.id, Key(cards[i], sort), i)

(* The rows of the SELECT without its LIMIT. *)
Selected(w, sort) ==
    {i \in Ids : /\ cards[i] # None
                 /\ VisibleTo(cards[i], w.viewer, ScopeOf(w))
                 /\ Beyond(w.cursor, sort, i)}

(* LIMIT keeps the rows with fewer than PageSize others before them. *)
FirstPage(S, sort) == {i \in S : Cardinality({j \in S : Before(sort, j, i)}) < PageSize}
LastOf(P, sort) == CHOOSE i \in P : \A j \in P \ {i} : Before(sort, j, i)

CursorAt(i, sort) == [sort |-> sort, value |-> Key(cards[i], sort), id |-> i]

(* Mutant: the cursor lacks the value the next page is compared with. *)
NextCursorBare(S, sort) ==
    IF Cardinality(S) > PageSize
      THEN [sort |-> sort, id |-> LastOf(FirstPage(S, sort), sort)]
      ELSE None

(* One row more than the page was asked for: there is a next page. *)
NextCursor(S, sort) ==
    IF Cardinality(S) > PageSize THEN CursorAt(LastOf(FirstPage(S, sort), sort), sort) ELSE None

-----------------------------------------------------------------------------
InList(rows, w) ==
    {i \in Ids : /\ rows[i] # None
                 /\ VisibleTo(rows[i], w.viewer, ScopeOf(w))
                 /\ w.list = "mine" => rows[i].creator = w.viewer}

BeginWalk(u, list, sort) ==
    /\ walk.over
    /\ list = "mine" => sort = "recent"
    /\ walk' = LET w == [NoWalk EXCEPT !.list = list, !.viewer = u, !.sort = sort, !.over = FALSE]
               IN  [w EXCEPT !.steady = InList(cards, w)]
    /\ UNCHANGED <<cards, updates>>

(* decode_cursor; a refusal is a 400 and the client still has its cursor. *)
Accepts(cursor, sort) == cursor # None => cursor.sort = sort

(* GET /connectors *)
ListConnectors(sort) ==
    /\ walk.list = "catalog" /\ ~walk.over
    /\ walk.cursor = None => sort = walk.sort
    /\ Accepts(walk.cursor, sort)
    /\ LET rows == Selected(walk, sort)
           next == NextCursor(rows, sort)
       IN  walk' = [walk EXCEPT !.cursor = next, !.over = next = None,
                                !.shown = @ \cup FirstPage(rows, sort)]
    /\ UNCHANGED <<cards, updates>>

(* GET /me/connectors: the cards of others are taken out of the page, and  *)
(* if there were any, its cursor too.                                      *)
MyConnectors ==
    /\ walk.list = "mine" /\ ~walk.over
    /\ LET rows == Selected(walk, walk.sort)
           page == FirstPage(rows, walk.sort)
           mine == {i \in page : cards[i].creator = walk.viewer}
           next == IF mine = page THEN NextCursor(rows, walk.sort) ELSE None
       IN  walk' = [walk EXCEPT !.cursor = next, !.over = next = None,
                                !.shown = @ \cup mine]
    /\ UNCHANGED <<cards, updates>>

-----------------------------------------------------------------------------
(* What stays in the list of walk w, and in its place, from rows to rows2. *)
Stays(w, rows, rows2) ==
    [w EXCEPT !.steady =
       {i \in @ : i \in InList(rows2, w) /\ Key(rows2[i], w.sort) = Key(rows[i], w.sort)}]

Put(i, row) ==
    /\ cards' = [cards EXCEPT ![i] = row]
    /\ walk' = IF walk.over THEN walk ELSE Stays(walk, cards, cards')

CreateConnector(i) ==
    /\ cards[i] = None
    /\ \E row \in Rows : Put(i, row)
    /\ UNCHANGED updates

(* _UPDATE leaves creator_user_id and created_at alone. *)
UpdateConnector(i) ==
    /\ cards[i] # None
    /\ updates < MaxUpdates /\ updates' = updates + 1
    /\ \E row \in Rows :
         /\ row.creator = cards[i].creator /\ row.created = cards[i].created
         /\ Put(i, row)

DeleteConnector(i) ==
    /\ cards[i] # None
    /\ Put(i, None)
    /\ UNCHANGED updates

Next ==
    \/ \E u \in Viewers, list \in {"catalog", "mine"}, sort \in Sorts : BeginWalk(u, list, sort)
    \/ \E sort \in Sorts : ListConnectors(sort)
    \/ MyConnectors
    \/ \E i \in Ids : CreateConnector(i) \/ UpdateConnector(i) \/ DeleteConnector(i)

Spec == Init /\ [][Next]_catalogVars

-----------------------------------------------------------------------------
(* Keyset paging skips nothing (queries.py:69-70): a card that was in the  *)
(* catalogue, at the same place, since the first page has been shown once  *)
(* the walk has passed it, whatever happened to other cards in between.    *)
NothingSkipped ==
    walk.list = "catalog" =>
      \A i \in walk.steady :
        walk.over \/ ~Beyond(walk.cursor, walk.sort, i) => i \in walk.shown

(* Nor does it repeat one: a card still to come that kept its place has    *)
(* not been shown before (queries.py:69-70).                               *)
NothingRepeated ==
    walk.list # "none" /\ ~walk.over =>
      \A i \in walk.steady : Beyond(walk.cursor, walk.sort, i) => i \notin walk.shown

(* "Whatever the scope, one sees all of one's own" (router.py:156): when   *)
(* the walk through /me/connectors is over, every own card that was there  *)
(* all the time has been on a page.                                        *)
OwnCardsAllShown ==
    walk.list = "mine" /\ walk.over => walk.steady \subseteq walk.shown
=============================================================================
