-------------------------- MODULE CatalogPagingProofs --------------------------
(***************************************************************************)
(* Keyset paging for any finite set of cards, page size, audiences and     *)
(* names, and without a bound on what the owners do between two pages.     *)
(*                                                                         *)
(* Positions are totally ordered, so a page is the beginning of what lies  *)
(* beyond the cursor, and its last row divides the list in two: what is    *)
(* beyond the next cursor was not on the page, all the rest was            *)
(* (PageDivides).  A card that keeps its place stays on its side.          *)
(*                                                                         *)
(* At the end, the lists that are cut by OFFSET instead (RowOrder), those  *)
(* of Inbox among them: at rest their pages show everything once.          *)
(***************************************************************************)
EXTENDS CatalogPaging, CatalogQueries, Inbox,
        FiniteSetTheorems, FunctionTheorems, SequenceTheorems, WellFoundedInduction, TLAPS

USE CatalogAssumption, NoneAssumption

Existing == {i \in Ids : cards[i] # None}

(* A walk that is not over knows where it is. *)
WalkOk ==
    ~walk.over =>
      /\ walk.list # "none"
      /\ walk.steady \subseteq InList(cards, walk)
      /\ walk.cursor # None => walk.cursor.sort = walk.sort

Inv == TypeOK /\ WalkOk /\ NothingSkipped /\ NothingRepeated

-----------------------------------------------------------------------------
(* Orders *)

LEMMA PrecedesOrders ==
    ASSUME NEW sort \in Sorts, NEW u \in Nat, NEW v \in Nat, NEW w \in Nat,
           NEW i \in Nat, NEW j \in Nat, NEW k \in Nat
    PROVE  /\ ~Precedes(sort, u, i, u, i)
           /\ Precedes(sort, u, i, v, j) /\ Precedes(sort, v, j, w, k) => Precedes(sort, u, i, w, k)
           /\ i # j => Precedes(sort, u, i, v, j) \/ Precedes(sort, v, j, u, i)
BY DEF Precedes, Sorts

LEMMA KeyIsNat ==
    ASSUME TypeOK, NEW i \in Existing, NEW sort \in Sorts
    PROVE  Key(cards[i], sort) \in Names \cup Times /\ Key(cards[i], sort) \in Nat /\ i \in Nat
<1>1. cards[i] \in Rows
  BY DEF TypeOK, Existing
<1> QED
  BY <1>1 DEF Rows, Key, Existing

LEMMA BeforeOrders ==
    ASSUME TypeOK, NEW sort \in Sorts,
           NEW i \in Existing, NEW j \in Existing, NEW k \in Existing
    PROVE  /\ ~Before(sort, i, i)
           /\ Before(sort, i, j) /\ Before(sort, j, k) => Before(sort, i, k)
           /\ i # j => Before(sort, i, j) \/ Before(sort, j, i)
BY KeyIsNat, PrecedesOrders DEF Before

(* A finite set has a member nothing of it is related to. *)
LEMMA MaximalExists ==
    ASSUME NEW P, IsFiniteSet(P), P # {}, NEW R,
           \A i \in P : <<i, i>> \notin R,
           \A i, j, k \in P : <<i, j>> \in R /\ <<j, k>> \in R => <<i, k>> \in R
    PROVE  \E l \in P : \A j \in P : <<l, j>> \notin R
<1> DEFINE above(i) == {j \in P : <<i, j>> \in R}
           T == {above(i) : i \in P}
<1>1. IsWellFoundedOn(StrictSubsetOrdering(P), SUBSET P)
  <2>1. IsWellFoundedOn(StrictSubsetOrdering(P), FiniteSubsetsOf(P))
    BY FS_StrictSubsetOrderingWellFounded
  <2>2. FiniteSubsetsOf(P) = SUBSET P
    BY FS_FiniteSubsetsOfFinite
  <2> QED
    BY <2>1, <2>2
<1>2. T \subseteq SUBSET P /\ T # {}
  <2>1. \A i \in P : above(i) \in SUBSET P
    OBVIOUS
  <2> HIDE DEF above
  <2> QED
    BY <2>1
<1>3. PICK x \in T : \A y \in T : <<y, x>> \notin StrictSubsetOrdering(P)
  <2> HIDE DEF T
  <2> QED
    BY <1>1, <1>2, WFMin
<1>4. PICK l \in P : x = above(l)
  OBVIOUS
<1>5. ASSUME NEW j \in P, <<l, j>> \in R PROVE FALSE
  <2>1. above(j) \subseteq above(l) /\ j \in above(l) /\ j \notin above(j)
    BY <1>5
  <2>2. above(j) \in T /\ above(j) \in SUBSET P /\ above(l) \in SUBSET P
    OBVIOUS
  <2>3. <<above(j), above(l)>> \in StrictSubsetOrdering(P)
    <3> HIDE DEF above
    <3> QED
      BY <2>1, <2>2 DEF StrictSubsetOrdering
  <2> QED
    BY <1>3, <1>4, <2>2, <2>3
<1> QED
  BY <1>5

(* A page is the beginning of its rows, its last row the last of it. *)
LEMMA PageDivides ==
    ASSUME TypeOK, NEW sort \in Sorts, NEW S \in SUBSET Existing
    PROVE  /\ Cardinality(S) <= PageSize => FirstPage(S, sort) = S
           /\ Cardinality(S) > PageSize =>
                /\ LastOf(FirstPage(S, sort), sort) \in FirstPage(S, sort)
                /\ \A i \in S : Before(sort, LastOf(FirstPage(S, sort), sort), i)
                                  <=> i \notin FirstPage(S, sort)
<1> DEFINE P == FirstPage(S, sort)
           ahead(i) == {j \in S : Before(sort, j, i)}
<1>1. IsFiniteSet(S) /\ Cardinality(S) \in Nat
  BY FS_Subset, FS_CardinalityType DEF Existing
<1>2. \A i \in S : IsFiniteSet(ahead(i)) /\ Cardinality(ahead(i)) \in Nat
  BY <1>1, FS_Subset, FS_CardinalityType
<1>3. \A i \in S : i \in P <=> Cardinality(ahead(i)) < PageSize
  BY DEF FirstPage
<1>4. P \subseteq S /\ IsFiniteSet(P)
  <2>1. P \subseteq S
    BY DEF FirstPage
  <2> QED
    BY <1>1, <2>1, FS_Subset
<1>5. ASSUME Cardinality(S) <= PageSize, NEW i \in S PROVE i \in P
  <2>1. ahead(i) \subseteq S \ {i}
    BY BeforeOrders
  <2>2. IsFiniteSet(S \ {i}) /\ Cardinality(S \ {i}) = Cardinality(S) - 1
    BY <1>1, FS_RemoveElement
  <2>3. Cardinality(ahead(i)) <= Cardinality(S \ {i})
    BY <2>1, <2>2, FS_Subset
  <2> HIDE DEF ahead
  <2> QED
    BY <1>1, <1>2, <1>3, <1>5, <2>2, <2>3
<1>6. ASSUME NEW i \in P, NEW j \in S, Before(sort, j, i) PROVE j \in P
  <2>1. ahead(j) \subseteq ahead(i) /\ i \in S
    BY <1>4, <1>6, BeforeOrders
  <2>2. Cardinality(ahead(j)) <= Cardinality(ahead(i))
    BY <1>2, <2>1, FS_Subset
  <2> HIDE DEF ahead
  <2> QED
    BY <1>2, <1>3, <2>1, <2>2
<1>7. ASSUME Cardinality(S) > PageSize PROVE P # {}
  <2> DEFINE R == {p \in S \X S : Before(sort, p[2], p[1])}
  <2>1. S # {}
    <3> SUFFICES ASSUME S = {} PROVE FALSE
      OBVIOUS
    <3>1. Cardinality(S) = 0
      BY FS_EmptySet, Zenon
    <3>2. PageSize \in Nat
      OBVIOUS
    <3> QED
      BY <1>7, <3>1, <3>2
  <2>2. \A i \in S : <<i, i>> \notin R
    BY BeforeOrders
  <2>3. \A i, j, k \in S : <<i, j>> \in R /\ <<j, k>> \in R => <<i, k>> \in R
    BY BeforeOrders
  <2>4. PICK f \in S : \A j \in S : <<f, j>> \notin R
    <3> HIDE DEF R
    <3> QED
      BY <1>1, <2>1, <2>2, <2>3, MaximalExists
  <2>5. ahead(f) = {}
    BY <2>4
  <2> HIDE DEF ahead, P
  <2>6. Cardinality(ahead(f)) = 0
    BY <2>5, FS_EmptySet, Zenon
  <2>7. Cardinality(ahead(f)) < PageSize
    BY <2>6
  <2> QED
    BY <1>3, <2>7
<1>8. ASSUME P # {}
      PROVE  /\ LastOf(P, sort) \in P
             /\ \A j \in P \ {LastOf(P, sort)} : Before(sort, j, LastOf(P, sort))
  <2> DEFINE R == {p \in S \X S : Before(sort, p[1], p[2])}
  <2>1. \A i \in P : <<i, i>> \notin R
    BY <1>4, BeforeOrders
  <2>2. \A i, j, k \in P : <<i, j>> \in R /\ <<j, k>> \in R => <<i, k>> \in R
    BY <1>4, BeforeOrders
  <2>3. PICK l \in P : \A j \in P : <<l, j>> \notin R
    <3> HIDE DEF R, P
    <3> QED
      BY <1>4, <1>8, <2>1, <2>2, MaximalExists
  <2>4. \A j \in P \ {l} : Before(sort, j, l)
    BY <1>4, <2>3, BeforeOrders
  <2> HIDE DEF P
  <2> QED
    BY <2>4 DEF LastOf
<1>9. ASSUME Cardinality(S) > PageSize, NEW i \in S
      PROVE  Before(sort, LastOf(P, sort), i) <=> i \notin P
  <2>1. PICK l \in P : l = LastOf(P, sort) /\ \A j \in P \ {l} : Before(sort, j, l)
    BY <1>7, <1>8, <1>9
  <2>2. l \in S
    BY <1>4
  <2> HIDE DEF P
  <2>3. ASSUME i \in P PROVE ~Before(sort, l, i)
    BY <2>1, <2>2, <2>3, BeforeOrders
  <2>4. ASSUME i \notin P PROVE Before(sort, l, i)
    BY <1>6, <2>1, <2>2, <2>4, BeforeOrders
  <2> QED
    BY <2>1, <2>3, <2>4
<1> QED
  BY <1>4, <1>5, <1>7, <1>8, <1>9

-----------------------------------------------------------------------------
(* A page *)

(* What a walk meets beyond its cursor, and what the next page leaves *)
LEMMA PageSplits ==
    ASSUME Inv, ~walk.over, NEW i \in walk.steady
    PROVE  LET rows == Selected(walk, walk.sort)
               page == FirstPage(rows, walk.sort)
               next == NextCursor(rows, walk.sort)
           IN  /\ page \subseteq rows /\ rows \subseteq Existing /\ walk.sort \in Sorts
               /\ i \in Existing
               /\ i \in rows <=> Beyond(walk.cursor, walk.sort, i)
               /\ next = None => page = rows
               /\ next # None =>
                    /\ next \in Cursors /\ next.sort = walk.sort
                    /\ i \in rows => (Beyond(next, walk.sort, i) <=> i \notin page)
                    /\ Beyond(next, walk.sort, i) => Beyond(walk.cursor, walk.sort, i)
<1> DEFINE sort == walk.sort
           rows == Selected(walk, sort)
           page == FirstPage(rows, sort)
           next == NextCursor(rows, sort)
<1>1. /\ walk \in Walks /\ TypeOK /\ sort \in Sorts
      /\ walk.cursor # None => walk.cursor \in Cursors
  BY DEF Inv, TypeOK, Walks
<1>2. rows \subseteq Existing /\ page \subseteq rows
  BY DEF Selected, Existing, FirstPage
<1>3. i \in InList(cards, walk)
  BY DEF Inv, WalkOk
<1>4. i \in Existing /\ (i \in rows <=> Beyond(walk.cursor, sort, i))
  BY <1>3 DEF InList, Existing, Selected
<1>5. rows \in SUBSET Existing /\ PageSize \in Nat /\ Cardinality(rows) \in Nat
  <2>1. IsFiniteSet(rows)
    BY <1>2, FS_Subset DEF Existing
  <2> QED
    BY <1>2, <2>1, FS_CardinalityType
<1> HIDE DEF sort, rows, page
<1>6. CASE ~(Cardinality(rows) > PageSize)
  <2>1. next = None
    BY <1>6 DEF NextCursor, page
  <2>2. page = rows
    BY <1>1, <1>5, <1>6, PageDivides DEF page
  <2> QED
    BY <1>1, <1>2, <1>4, <2>1, <2>2 DEF sort, rows, page
<1>7. CASE Cardinality(rows) > PageSize
  <2>1. PICK l \in page : /\ l = LastOf(page, sort)
                          /\ \A j \in rows : Before(sort, l, j) <=> j \notin page
    BY <1>1, <1>5, <1>7, PageDivides DEF page
  <2>2. l \in Existing /\ l \in Ids /\ Beyond(walk.cursor, sort, l)
    BY <1>2, <2>1 DEF rows, Selected, Existing
  <2>3. /\ Key(cards[l], sort) \in Names \cup Times /\ Key(cards[l], sort) \in Nat /\ l \in Nat
        /\ Key(cards[i], sort) \in Nat /\ i \in Nat
    BY <1>1, <1>4, <2>2, KeyIsNat
  <2>4. next = CursorAt(l, sort)
    BY <1>7, <2>1 DEF NextCursor, page
  <2>5. /\ next \in Cursors /\ next # None /\ next.sort = sort
        /\ next.value = Key(cards[l], sort) /\ next.id = l
    BY <1>1, <2>2, <2>3, <2>4 DEF CursorAt, Cursors
  <2> HIDE DEF next
  <2>6. Beyond(next, sort, i) <=> Before(sort, l, i)
    BY <2>5 DEF Beyond, Before
  <2>7. Before(sort, l, i) => Beyond(walk.cursor, sort, i)
    <3>1. CASE walk.cursor = None
      BY <3>1 DEF Beyond
    <3>2. CASE walk.cursor # None
      <4>1. walk.cursor.value \in Nat /\ walk.cursor.id \in Nat
        BY <1>1, <3>2 DEF Cursors
      <4>2. Precedes(sort, walk.cursor.value, walk.cursor.id, Key(cards[l], sort), l)
        BY <2>2, <3>2 DEF Beyond
      <4>3. PICK u \in Nat, v \in Nat, w \in Nat, k \in Nat :
              /\ u = walk.cursor.value /\ k = walk.cursor.id
              /\ v = Key(cards[l], sort) /\ w = Key(cards[i], sort)
        BY <2>3, <4>1
      <4>4. Precedes(sort, v, l, w, i) => Precedes(sort, u, k, w, i)
        BY <1>1, <2>3, <4>2, <4>3 DEF Precedes, Sorts
      <4> QED
        BY <4>3, <4>4 DEF Before, Beyond
    <3> QED
      BY <3>1, <3>2
  <2> QED
    BY <1>1, <1>2, <1>4, <2>1, <2>5, <2>6, <2>7 DEF sort, rows, page, next
<1> QED
  BY <1>5, <1>6, <1>7

LEMMA NextCursorIsCursor ==
    ASSUME TypeOK, walk \in Walks
    PROVE  LET rows == Selected(walk, walk.sort)
               page == FirstPage(rows, walk.sort)
               next == NextCursor(rows, walk.sort)
           IN  /\ page \subseteq Ids
               /\ next \in Cursors \cup {None}
               /\ next # None => next.sort = walk.sort
<1> DEFINE rows == Selected(walk, walk.sort)
           page == FirstPage(rows, walk.sort)
           next == NextCursor(rows, walk.sort)
<1>1. rows \in SUBSET Existing /\ page \subseteq rows /\ walk.sort \in Sorts
  BY DEF Selected, Existing, FirstPage, Walks
<1>2. CASE ~(Cardinality(rows) > PageSize)
  BY <1>1, <1>2 DEF NextCursor, Existing
<1>3. CASE Cardinality(rows) > PageSize
  <2> HIDE DEF rows
  <2>1. PICK l \in page : l = LastOf(page, walk.sort)
    BY <1>1, <1>3, PageDivides
  <2>2. l \in Existing /\ l \in Ids
    BY <1>1, <2>1 DEF Existing
  <2>3. Key(cards[l], walk.sort) \in Names \cup Times
    BY <1>1, <2>2, KeyIsNat
  <2>4. next = CursorAt(l, walk.sort)
    BY <1>3, <2>1 DEF NextCursor
  <2>5. next \in Cursors /\ next.sort = walk.sort
    <3> HIDE DEF next
    <3> QED
      BY <1>1, <2>2, <2>3, <2>4 DEF CursorAt, Cursors
  <2>6. page \subseteq Ids
    BY <1>1 DEF Existing
  <2> HIDE DEF next, page
  <2> QED
    BY <2>5, <2>6 DEF next, page, rows
<1> QED
  BY <1>2, <1>3

LEMMA ListConnectorsKeeps ==
    ASSUME Inv, NEW sort \in Sorts, ListConnectors(sort)
    PROVE  Inv'
<1> DEFINE rows == Selected(walk, walk.sort)
           page == FirstPage(rows, walk.sort)
           next == NextCursor(rows, walk.sort)
<1>1. /\ walk \in Walks /\ walk.list = "catalog" /\ ~walk.over /\ WalkOk /\ TypeOK
      /\ UNCHANGED <<cards, updates>>
  BY DEF Inv, TypeOK, ListConnectors
<1>2. sort = walk.sort
  BY <1>1 DEF WalkOk, ListConnectors, Accepts
<1>3. walk' = [walk EXCEPT !.cursor = next, !.over = next = None, !.shown = @ \cup page]
  BY <1>2 DEF ListConnectors
<1>4. page \subseteq Ids /\ next \in Cursors \cup {None}
      /\ (next # None => next.sort = walk.sort)
  BY <1>1, NextCursorIsCursor
<1> HIDE DEF page, next
<1>5. /\ walk' \in Walks /\ walk'.list = "catalog" /\ walk'.viewer = walk.viewer
      /\ walk'.sort = walk.sort /\ walk'.cursor = next /\ walk'.over = (next = None)
      /\ walk'.shown = walk.shown \cup page /\ walk'.steady = walk.steady
  BY <1>1, <1>3, <1>4 DEF Walks
<1>6. TypeOK'
  BY <1>1, <1>5 DEF TypeOK
<1>7. WalkOk'
  BY <1>1, <1>4, <1>5 DEF WalkOk, InList, VisibleTo, ScopeOf
<1>8. ASSUME NEW i \in walk.steady
      PROVE  /\ next = None => i \in walk.shown \cup page
             /\ next # None /\ ~Beyond(next, walk.sort, i) => i \in walk.shown \cup page
             /\ next # None /\ Beyond(next, walk.sort, i) => i \notin walk.shown \cup page
  <2>1. /\ page \subseteq rows /\ i \in Existing
        /\ i \in rows <=> Beyond(walk.cursor, walk.sort, i)
        /\ next = None => page = rows
        /\ next # None =>
             /\ i \in rows => (Beyond(next, walk.sort, i) <=> i \notin page)
             /\ Beyond(next, walk.sort, i) => Beyond(walk.cursor, walk.sort, i)
    BY <1>1, <1>8, PageSplits DEF page, next
  <2>2. ~Beyond(walk.cursor, walk.sort, i) => i \in walk.shown
    BY <1>1, <1>8 DEF Inv, NothingSkipped
  <2>3. Beyond(walk.cursor, walk.sort, i) => i \notin walk.shown
    BY <1>1, <1>8 DEF Inv, NothingRepeated
  <2> HIDE DEF rows
  <2> QED
    BY <2>1, <2>2, <2>3
<1>9. \A c, i : Beyond(c, walk.sort, i)' <=> Beyond(c, walk.sort, i)
  BY <1>1, <1>5 DEF Beyond
<1>10. NothingSkipped' /\ NothingRepeated'
  BY <1>1, <1>5, <1>8 DEF NothingSkipped, NothingRepeated, Beyond
<1> QED
  BY <1>6, <1>7, <1>10 DEF Inv

(* On the walk through one's own cards every page that has a successor is  *)
(* all one's own.                                                          *)
LEMMA MyConnectorsKeeps ==
    ASSUME Inv, MyConnectors
    PROVE  Inv'
<1> DEFINE rows == Selected(walk, walk.sort)
           page == FirstPage(rows, walk.sort)
           mine == {i \in page : cards[i].creator = walk.viewer}
           further == NextCursor(rows, walk.sort)
           next == IF mine = page THEN further ELSE None
<1>1. /\ walk \in Walks /\ walk.list = "mine" /\ ~walk.over /\ WalkOk /\ TypeOK
      /\ UNCHANGED <<cards, updates>>
  BY DEF Inv, TypeOK, MyConnectors
<1>2. walk' = [walk EXCEPT !.cursor = next, !.over = next = None, !.shown = @ \cup mine]
  BY DEF MyConnectors
<1>3. page \subseteq Ids /\ further \in Cursors \cup {None}
      /\ (further # None => further.sort = walk.sort)
  BY <1>1, NextCursorIsCursor
<1>4. mine \subseteq page
  OBVIOUS
<1> HIDE DEF page, further, mine
<1>5. next \in Cursors \cup {None} /\ (next # None => next = further /\ mine = page)
  BY <1>3
<1> HIDE DEF next
<1>6. /\ walk' \in Walks /\ walk'.list = "mine" /\ walk'.viewer = walk.viewer
      /\ walk'.sort = walk.sort /\ walk'.cursor = next /\ walk'.over = (next = None)
      /\ walk'.shown = walk.shown \cup mine /\ walk'.steady = walk.steady
  BY <1>1, <1>2, <1>3, <1>4, <1>5 DEF Walks
<1>7. TypeOK'
  BY <1>1, <1>6 DEF TypeOK
<1>8. WalkOk'
  BY <1>1, <1>3, <1>5, <1>6 DEF WalkOk, InList, VisibleTo, ScopeOf
<1>9. ASSUME NEW i \in walk.steady, next # None, Beyond(next, walk.sort, i)
      PROVE  i \notin walk.shown \cup mine
  <2>1. /\ page \subseteq rows
        /\ i \in rows <=> Beyond(walk.cursor, walk.sort, i)
        /\ i \in rows => (Beyond(further, walk.sort, i) <=> i \notin page)
        /\ Beyond(further, walk.sort, i) => Beyond(walk.cursor, walk.sort, i)
    BY <1>1, <1>5, <1>9, PageSplits DEF page, further
  <2>2. Beyond(walk.cursor, walk.sort, i) => i \notin walk.shown
    BY <1>1, <1>9 DEF Inv, NothingRepeated
  <2> HIDE DEF rows
  <2> QED
    BY <1>5, <1>9, <2>1, <2>2
<1>10. NothingSkipped' /\ NothingRepeated'
  BY <1>1, <1>6, <1>9 DEF NothingSkipped, NothingRepeated, Beyond
<1> QED
  BY <1>7, <1>8, <1>10 DEF Inv

LEMMA BeginWalkKeeps ==
    ASSUME Inv, NEW u \in Viewers, NEW list \in {"catalog", "mine"}, NEW sort \in Sorts,
           BeginWalk(u, list, sort)
    PROVE  Inv'
<1> DEFINE w == [NoWalk EXCEPT !.list = list, !.viewer = u, !.sort = sort, !.over = FALSE]
<1>1. walk' = [w EXCEPT !.steady = InList(cards, w)] /\ UNCHANGED <<cards, updates>>
  BY DEF BeginWalk
<1>2. w.list = list /\ w.viewer = u /\ w \in Walks
  BY DEF NoWalk, Walks, Sorts
<1>3. InList(cards, w) \subseteq Ids
  BY DEF InList
<1>4. /\ walk' \in Walks /\ walk'.list = list /\ walk'.viewer = u /\ walk'.sort = sort
      /\ walk'.cursor = None /\ walk'.over = FALSE /\ walk'.shown = {}
      /\ walk'.steady = InList(cards, w)
  <2> HIDE DEF w
  <2>1. walk' \in Walks /\ walk'.steady = InList(cards, w)
    BY <1>1, <1>2, <1>3 DEF Walks
  <2> QED
    BY <1>1, <2>1 DEF w, NoWalk, Walks
<1>5. walk'.steady = InList(cards, walk)'
  BY <1>1, <1>2, <1>4 DEF InList, VisibleTo, ScopeOf
<1> HIDE DEF w
<1>6. TypeOK'
  BY <1>1, <1>4 DEF Inv, TypeOK
<1>7. WalkOk'
  BY <1>4, <1>5 DEF WalkOk
<1>8. NothingSkipped' /\ NothingRepeated'
  BY <1>4 DEF NothingSkipped, NothingRepeated, Beyond
<1> QED
  BY <1>6, <1>7, <1>8 DEF Inv

-----------------------------------------------------------------------------
(* What owners do between two pages *)
LEMMA PutKeeps ==
    ASSUME Inv, NEW c \in Ids, NEW row \in Rows \cup {None}, Put(c, row), updates' \in Nat
    PROVE  Inv'
<1>1. /\ cards \in [Ids -> Rows \cup {None}] /\ walk \in Walks /\ WalkOk
      /\ cards' = [cards EXCEPT ![c] = row] /\ cards' \in [Ids -> Rows \cup {None}]
  BY DEF Inv, TypeOK, Put
<1>2. CASE walk.over
  <2>1. walk' = walk
    BY <1>2 DEF Put
  <2> QED
    BY <1>1, <1>2, <2>1 DEF Inv, TypeOK, WalkOk, NothingSkipped, NothingRepeated
<1>3. CASE ~walk.over
  <2> DEFINE stay == {i \in walk.steady : /\ i \in InList(cards', walk)
                        /\ Key(cards'[i], walk.sort) = Key(cards[i], walk.sort)}
  <2>1. walk' = [walk EXCEPT !.steady = stay]
    BY <1>3 DEF Put, Stays
  <2>2. stay \subseteq walk.steady /\ stay \subseteq Ids
        /\ \A i \in stay : /\ i \in InList(cards', walk)
                           /\ Key(cards'[i], walk.sort) = Key(cards[i], walk.sort)
    BY <1>1 DEF Walks
  <2> HIDE DEF stay
  <2>3. /\ walk' \in Walks /\ walk'.list = walk.list /\ walk'.viewer = walk.viewer
        /\ walk'.sort = walk.sort /\ walk'.cursor = walk.cursor /\ walk'.over = walk.over
        /\ walk'.shown = walk.shown /\ walk'.steady = stay
    BY <1>1, <2>1, <2>2 DEF Walks
  <2>4. TypeOK'
    BY <1>1, <2>3 DEF TypeOK
  <2>5. WalkOk'
    BY <1>1, <2>2, <2>3 DEF WalkOk, InList, VisibleTo, ScopeOf
  <2>6. \A i \in stay : Beyond(walk.cursor, walk.sort, i)' <=> Beyond(walk.cursor, walk.sort, i)
    BY <2>2, <2>3 DEF Beyond
  <2>7. NothingSkipped' /\ NothingRepeated'
    <3>1. \A i \in stay : i \in walk.steady
      BY <2>2
    <3>2. NothingSkipped'
      BY <1>3, <2>3, <2>6, <3>1 DEF Inv, NothingSkipped
    <3>3. NothingRepeated'
      BY <1>3, <2>3, <2>6, <3>1 DEF Inv, NothingRepeated
    <3> QED
      BY <3>2, <3>3
  <2> QED
    BY <2>4, <2>5, <2>7 DEF Inv
<1> QED
  BY <1>2, <1>3

-----------------------------------------------------------------------------
(* The invariant *)

LEMMA InitInv == Init => Inv
BY DEF Init, NoWalk, Walks, Sorts, Inv, TypeOK, WalkOk, NothingSkipped, NothingRepeated

LEMMA NextInv == Inv /\ [Next]_catalogVars => Inv'
<1> SUFFICES ASSUME Inv, [Next]_catalogVars PROVE Inv'
  OBVIOUS
<1>1. CASE UNCHANGED catalogVars
  BY <1>1 DEF catalogVars, Inv, TypeOK, WalkOk, InList, VisibleTo, ScopeOf, NothingSkipped,
              NothingRepeated, Beyond
<1>2. ASSUME NEW u \in Viewers, NEW list \in {"catalog", "mine"}, NEW sort \in Sorts,
             BeginWalk(u, list, sort)
      PROVE  Inv'
  BY <1>2, BeginWalkKeeps
<1>3. ASSUME NEW sort \in Sorts, ListConnectors(sort) PROVE Inv'
  BY <1>3, ListConnectorsKeeps
<1>4. CASE MyConnectors
  BY <1>4, MyConnectorsKeeps
<1>5. ASSUME NEW i \in Ids, CreateConnector(i) PROVE Inv'
  BY <1>5, PutKeeps DEF CreateConnector, Inv, TypeOK
<1>6. ASSUME NEW i \in Ids, UpdateConnector(i) PROVE Inv'
  BY <1>6, PutKeeps DEF UpdateConnector, Inv, TypeOK
<1>7. ASSUME NEW i \in Ids, DeleteConnector(i) PROVE Inv'
  BY <1>7, PutKeeps DEF DeleteConnector, Inv, TypeOK
<1> QED
  BY <1>1, <1>2, <1>3, <1>4, <1>5, <1>6, <1>7 DEF Next

LEMMA InvHolds == Spec => []Inv
BY InitInv, NextInv, PTL DEF Spec

(* Type correctness *)
THEOREM TypeCorrect == Spec => []TypeOK
BY InvHolds, PTL DEF Inv

(* Keyset paging skips no card that keeps its place (queries.py:69-127).   *)
THEOREM KeysetSkipsNothing == Spec => []NothingSkipped
BY InvHolds, PTL DEF Inv

(* Keyset paging repeats no card that keeps its place, on both lists       *)
(* (queries.py:69-127, router.py:153-176).                                 *)
THEOREM KeysetRepeatsNothing == Spec => []NothingRepeated
BY InvHolds, PTL DEF Inv

-----------------------------------------------------------------------------
(***************************************************************************)
(* The other questions to the catalogue (CatalogQueries), for all tables   *)
(* and readers                                                             *)
(***************************************************************************)

(* What a reader may see of the table *)
VisiblePart(table, viewer) ==
    [i \in {j \in DOMAIN table : Shows(table[j], viewer)} |-> table[i]]

LEMMA FoundIsVisible ==
    ASSUME NEW table, NEW viewer
    PROVE  /\ Found(VisiblePart(table, viewer), viewer) = Found(table, viewer)
           /\ \A i \in Found(table, viewer) : VisiblePart(table, viewer)[i] = table[i]
  BY DEF Found, VisiblePart

(* A card one may not see leaves no trace (queries.py:6-7, 175-178,        *)
(* 204-206): list, page, tags, statistics and bookmarks are what they were *)
(* if it did not exist.                                                    *)
THEOREM HiddenLeaveNoTrace ==
    ASSUME NEW table, NEW viewer
    PROVE  LET seen == VisiblePart(table, viewer)
           IN  /\ \A q, tags : Listed(table, viewer, q, tags) = Listed(seen, viewer, q, tags)
               /\ \A i : Detail(table, viewer, i) = Detail(seen, viewer, i)
               /\ \A rank : TagList(table, viewer, rank) = TagList(seen, viewer, rank)
               /\ Stats(table, viewer) = Stats(seen, viewer)
               /\ \A marks, limit, offset :
                    BookmarkPage(table, viewer, marks, limit, offset) =
                      BookmarkPage(seen, viewer, marks, limit, offset)
<1> DEFINE seen == VisiblePart(table, viewer)
           found == Found(table, viewer)
<1>1. Found(seen, viewer) = found /\ \A i \in found : seen[i] = table[i]
  BY FoundIsVisible
<1>2. ASSUME NEW i PROVE Detail(table, viewer, i) = Detail(seen, viewer, i)
  BY DEF Detail, VisiblePart
<1> HIDE DEF seen, found
<1>3. ASSUME NEW q, NEW tags
      PROVE  Listed(table, viewer, q, tags) = Listed(seen, viewer, q, tags)
  BY <1>1 DEF Listed, found
<1>4. TagCounts(table, viewer) = TagCounts(seen, viewer)
  <2>1. UNION {table[i].tags : i \in found} = UNION {seen[i].tags : i \in found}
    BY <1>1
  <2>2. \A tag : {i \in found : tag \in table[i].tags} = {i \in found : tag \in seen[i].tags}
    BY <1>1
  <2> QED BY <1>1, <2>1, <2>2 DEF TagCounts, found
<1>5. ASSUME NEW rank PROVE TagList(table, viewer, rank) = TagList(seen, viewer, rank)
  BY <1>4 DEF TagList
<1>6. Stats(table, viewer) = Stats(seen, viewer)
  <2> DEFINE byHealth(t) == [s \in {StatusOf(t[i]) : i \in found} |->
                               Cardinality({i \in found : StatusOf(t[i]) = s})]
  <2>1. {StatusOf(table[i]) : i \in found} = {StatusOf(seen[i]) : i \in found}
    BY <1>1
  <2>2. \A s : {i \in found : StatusOf(table[i]) = s} = {i \in found : StatusOf(seen[i]) = s}
    BY <1>1
  <2>3. byHealth(table) = byHealth(seen)
    BY <2>1, <2>2
  <2>4. /\ Stats(table, viewer) = [total |-> FoldFunction(+, 0, byHealth(table)),
                                   byHealth |-> byHealth(table)]
        /\ Stats(seen, viewer) = [total |-> FoldFunction(+, 0, byHealth(seen)),
                                  byHealth |-> byHealth(seen)]
    BY <1>1 DEF Stats, found
  <2> HIDE DEF byHealth
  <2> QED BY <2>3, <2>4
<1>7. ASSUME NEW marks, NEW limit, NEW offset
      PROVE  BookmarkPage(table, viewer, marks, limit, offset) =
               BookmarkPage(seen, viewer, marks, limit, offset)
  <2>1. BookmarkOrder(table, viewer, marks) = BookmarkOrder(seen, viewer, marks)
    BY <1>1 DEF BookmarkOrder, found
  <2> QED BY <2>1 DEF BookmarkPage
<1> QED BY <1>2, <1>3, <1>5, <1>6, <1>7 DEF seen

(* Without a session only public cards are shown, a team more never shows  *)
(* less (visibility.py:15-16), and who may edit a card may see it.         *)
THEOREM TeamsOnlyAdd ==
    ASSUME NEW row, row.creator # Nobody.id
    PROVE  /\ Shows(row, Nobody) <=> row.scope = "global"
           /\ \A more, less : more.id = less.id /\ less.teams \subseteq more.teams =>
                (Shows(row, less) => Shows(row, more))
           /\ \A viewer : CanEdit(row, viewer) => Shows(row, viewer)
  BY DEF Shows, Nobody, CanEdit

(* As many distinct tags of the card among those asked for as were asked   *)
(* for means that it has them all, also when one is named twice.           *)
LEMMA TagFilterMeansAll ==
    ASSUME NEW S, NEW tags \in Seq(S), NEW row
    PROVE  MatchesTags(row, tags) <=> Range(tags) \subseteq row.tags
<1> DEFINE both == {tag \in row.tags : Contains(tags, tag)}
<1>1. Range(tags) = {tags[n] : n \in 1 .. Len(tags)}
  BY RangeEquality
<1>2. both = row.tags \cap Range(tags)
  BY <1>1 DEF Contains
<1>3. IsFiniteSet(Range(tags))
  <2>1. IsFiniteSet(1 .. Len(tags)) /\ tags \in [1 .. Len(tags) -> S]
    BY FS_Interval, LenProperties
  <2>2. tags \in Surjection(1 .. Len(tags), Range(tags))
    BY <1>1, <2>1 DEF Surjection
  <2> QED
    BY <2>1, <2>2, FS_Surjection
<1>4. Cardinality(both) = Cardinality(Range(tags)) <=> both = Range(tags)
  BY <1>2, <1>3, FS_Subset
<1> QED
  BY <1>2, <1>4 DEF MatchesTags

LEMMA ListedByTags ==
    ASSUME NEW S, NEW tags \in Seq(S), NEW table, NEW viewer, NEW q
    PROVE  Listed(table, viewer, q, tags) =
             {i \in Found(table, viewer) : /\ \A text \in Range(q) : MatchesText(table[i], text)
                                           /\ Range(tags) \subseteq table[i].tags}
<1>1. tags = <<>> => Range(tags) = {}
  BY DEF Range
<1> QED
  BY <1>1, TagFilterMeansAll DEF Listed

(* A filter narrows (queries.py:138-139): the cards for a search and the   *)
(* tags of two filters are those of the first that the second gives too.   *)
THEOREM FiltersIntersect ==
    ASSUME NEW S, NEW a \in Seq(S), NEW b \in Seq(S), NEW table, NEW viewer, NEW q
    PROVE  Listed(table, viewer, q, a \o b) =
             Listed(table, viewer, q, a) \cap Listed(table, viewer, <<>>, b)
<1>1. a \o b \in Seq(S) /\ Range(a \o b) = Range(a) \cup Range(b)
  BY RangeConcatenation, ConcatProperties
<1>2. Range(<<>>) = {}
  BY DEF Range
<1> DEFINE searched(i) == \A text \in Range(q) : MatchesText(table[i], text)
           found == Found(table, viewer)
<1>3. Listed(table, viewer, q, a \o b) =
        {i \in found : searched(i) /\ Range(a \o b) \subseteq table[i].tags}
  <2>1. \A tags \in Seq(S) :
          Listed(table, viewer, q, tags) =
            {i \in Found(table, viewer) : /\ \A text \in Range(q) : MatchesText(table[i], text)
                                          /\ Range(tags) \subseteq table[i].tags}
    BY ListedByTags
  <2> QED BY <1>1, <2>1
<1>4. Listed(table, viewer, q, a) = {i \in found : searched(i) /\ Range(a) \subseteq table[i].tags}
  BY ListedByTags
<1>5. Listed(table, viewer, <<>>, b) = {i \in found : Range(b) \subseteq table[i].tags}
  BY <1>2, ListedByTags
<1> HIDE DEF searched, found
<1> QED
  BY <1>1, <1>3, <1>4, <1>5

(* The screens agree (queries.py:175-178): the number beside a tag is that *)
(* of the cards the list has for it, the tags are those of the cards on    *)
(* the list, and what is on the list has a page of its own.                *)
THEOREM ScreensAgree ==
    ASSUME NEW table, NEW viewer
    PROVE  LET all == Listed(table, viewer, <<>>, <<>>)
               count == TagCounts(table, viewer)
           IN  /\ DOMAIN count = UNION {table[i].tags : i \in all}
               /\ \A tag \in DOMAIN count :
                    count[tag] = Cardinality(Listed(table, viewer, <<>>, <<tag>>))
               /\ \A i : i \in all <=> Detail(table, viewer, i) # <<>> /\ ~table[i].archived
<1>1. Listed(table, viewer, <<>>, <<>>) = Found(table, viewer)
  BY DEF Listed, Range
<1>2. ASSUME NEW tag
      PROVE  Listed(table, viewer, <<>>, <<tag>>) =
               {i \in Found(table, viewer) : tag \in table[i].tags}
  <2>1. <<tag>> \in Seq({tag}) /\ Range(<<tag>>) = {tag} /\ Range(<<>>) = {}
    BY DEF Range
  <2>2. Listed(table, viewer, <<>>, <<tag>>) =
          {i \in Found(table, viewer) :
             /\ \A text \in Range(<<>>) : MatchesText(table[i], text)
             /\ Range(<<tag>>) \subseteq table[i].tags}
    <3>1. \A tags \in Seq({tag}) :
            Listed(table, viewer, <<>>, tags) =
              {i \in Found(table, viewer) :
                 /\ \A text \in Range(<<>>) : MatchesText(table[i], text)
                 /\ Range(tags) \subseteq table[i].tags}
      BY ListedByTags
    <3> QED BY <2>1, <3>1
  <2> QED
    BY <2>1, <2>2
<1> QED
  BY <1>1, <1>2 DEF TagCounts, Detail, Found

-----------------------------------------------------------------------------
(* Lists cut by LIMIT and OFFSET *)

LEMMA LeastNumber ==
    ASSUME NEW T, T \subseteq Nat, T # {}
    PROVE  \E m \in T : \A k \in T : m <= k
<1> DEFINE R == {ss \in Nat \X Nat : ss[1] < ss[2]}
<1>1. IsWellFoundedOn(R, Nat)
  BY NatLessThanWellFounded DEF OpToRel
<1>2. \E m \in T : \A k \in T : ~ (<<k, m>> \in R)
  <2> HIDE DEF R
  <2> QED BY <1>1, WFMin
<1>3. PICK m \in T : \A k \in T : ~ (<<k, m>> \in R)
  BY <1>2
<1>4. ASSUME NEW k \in T PROVE m <= k
  <2>1. k \in Nat /\ m \in Nat
    OBVIOUS
  <2>2. ~ (k < m)
    BY <1>3, <2>1
  <2> QED BY <2>1, <2>2
<1> QED BY <1>4

StrictOrder(S, before) ==
    /\ \A x \in S : <<x, x>> \notin before
    /\ \A x, y, z \in S : <<x, y>> \in before /\ <<y, z>> \in before => <<x, z>> \in before
    /\ \A x, y \in S : x # y => <<x, y>> \in before \/ <<y, x>> \in before

(* Counting those that come before gives each row a place of its own. *)
LEMMA OrderedLists ==
    ASSUME NEW S, IsFiniteSet(S), NEW before, StrictOrder(S, before)
    PROVE  /\ Ordered(S, before) \in Seq(S)
           /\ Len(Ordered(S, before)) = Cardinality(S)
           /\ \A x \in S : \E n \in 1 .. Cardinality(S) : Ordered(S, before)[n] = x
           /\ \A m, n \in 1 .. Cardinality(S) :
                m < n => <<Ordered(S, before)[m], Ordered(S, before)[n]>> \in before
<1> DEFINE N == Cardinality(S)
           Earlier(x) == {y \in S : <<y, x>> \in before}
           rank == [x \in S |-> Cardinality(Earlier(x))]
           list == Ordered(S, before)
<1>1. N \in Nat
  BY FS_CardinalityType
<1>2. ASSUME NEW x \in S
      PROVE  IsFiniteSet(Earlier(x)) /\ Cardinality(Earlier(x)) \in Nat /\ Cardinality(Earlier(x)) < N
  <2>1. Earlier(x) \in SUBSET S /\ Earlier(x) # S
    BY DEF StrictOrder
  <2>2. IsFiniteSet(Earlier(x)) /\ Cardinality(Earlier(x)) <= N /\ Cardinality(Earlier(x)) # N
    <3> HIDE DEF Earlier
    <3> QED BY <2>1, FS_Subset
  <2>3. Cardinality(Earlier(x)) \in Nat
    <3> HIDE DEF Earlier
    <3> QED BY <2>2, FS_CardinalityType
  <2> HIDE DEF Earlier, N
  <2> QED BY <1>1, <2>2, <2>3
<1>3. ASSUME NEW x \in S, NEW y \in S, <<x, y>> \in before
      PROVE  rank[x] < rank[y]
  <2>1. Earlier(x) \in SUBSET Earlier(y) /\ Earlier(x) # Earlier(y)
    BY <1>3 DEF StrictOrder
  <2>2. IsFiniteSet(Earlier(y)) /\ Cardinality(Earlier(x)) \in Nat /\ Cardinality(Earlier(y)) \in Nat
    BY <1>2
  <2>3. Cardinality(Earlier(x)) <= Cardinality(Earlier(y)) /\ Cardinality(Earlier(x)) # Cardinality(Earlier(y))
    <3> HIDE DEF Earlier
    <3> QED BY <2>1, <2>2, FS_Subset
  <2>4. rank[x] = Cardinality(Earlier(x)) /\ rank[y] = Cardinality(Earlier(y))
    OBVIOUS
  <2> HIDE DEF Earlier, rank
  <2> QED BY <2>2, <2>3, <2>4
<1>4. rank \in [S -> 0 .. N - 1] /\ \A x \in S : rank[x] \in Nat
  <2> HIDE DEF Earlier, N
  <2> QED BY <1>1, <1>2
<1>5. ASSUME NEW x \in S, NEW y \in S
      PROVE  /\ rank[x] = rank[y] => x = y
             /\ rank[x] < rank[y] => <<x, y>> \in before
  <2> HIDE DEF rank
  <2>1. rank[x] \in Nat /\ rank[y] \in Nat
    BY <1>4
  <2>2. x = y \/ <<x, y>> \in before \/ <<y, x>> \in before
    BY DEF StrictOrder
  <2> QED BY <1>3, <2>1, <2>2
<1>6. \A k \in 0 .. N - 1 : \E x \in S : rank[x] = k
  <2> HIDE DEF rank
  <2>1. rank \in Injection(S, 0 .. N - 1)
    BY <1>4, <1>5, Fun_IsInj
  <2>2. IsFiniteSet(0 .. N - 1) /\ Cardinality(0 .. N - 1) = N
    <3> HIDE DEF N
    <3>1. 0 \in Int /\ N - 1 \in Int
      BY <1>1
    <3>2. IsFiniteSet(0 .. N - 1) /\ Cardinality(0 .. N - 1) = IF 0 > N - 1 THEN 0 ELSE N - 1 - 0 + 1
      BY <3>1, FS_Interval
    <3> QED BY <1>1, <3>2
  <2>3. rank \in Surjection(S, 0 .. N - 1)
    BY <2>1, <2>2, FS_Injection
  <2> QED BY <2>3 DEF Surjection
<1>7. ASSUME NEW n \in 1 .. N
      PROVE  list[n] \in S /\ rank[list[n]] = n - 1
  <2>1. n - 1 \in 0 .. N - 1
    <3> HIDE DEF N
    <3> QED BY <1>1
  <2>2. list[n] = CHOOSE x \in S : Cardinality(Earlier(x)) = n - 1
    BY DEF Ordered
  <2>3. \E x \in S : Cardinality(Earlier(x)) = n - 1
    BY <1>6, <2>1
  <2> HIDE DEF Earlier, list
  <2> QED BY <2>2, <2>3
<1>8. list \in Seq(S) /\ Len(list) = N
  <2> DEFINE nth(n) == CHOOSE x \in S : Cardinality({y \in S : <<y, x>> \in before}) = n - 1
  <2>1. list = [n \in 1 .. N |-> nth(n)]
    BY DEF Ordered
  <2> HIDE DEF list, N, nth
  <2>2. list \in [1 .. N -> S]
    BY <1>7, <2>1
  <2> QED BY <1>1, <2>1, <2>2
<1>9. ASSUME NEW x \in S PROVE \E n \in 1 .. N : list[n] = x
  <2> DEFINE n == rank[x] + 1
  <2> HIDE DEF list, N, rank
  <2>1. n \in 1 .. N /\ n - 1 = rank[x]
    BY <1>1, <1>4
  <2> HIDE DEF n
  <2>2. list[n] = x
    BY <1>5, <1>7, <2>1
  <2> QED BY <2>1, <2>2
<1>10. ASSUME NEW m \in 1 .. N, NEW n \in 1 .. N, m < n
       PROVE  <<list[m], list[n]>> \in before
  <2> HIDE DEF list, N, rank
  <2>1. rank[list[m]] < rank[list[n]]
    BY <1>1, <1>7, <1>10
  <2> QED BY <1>5, <1>7, <2>1
<1> QED BY <1>8, <1>9, <1>10

LEMMA PagesApart ==
    ASSUME NEW limit \in Nat, NEW k \in Nat, NEW m \in Nat, k < m
    PROVE  k * limit \in Nat /\ m * limit \in Nat /\ k * limit + limit <= m * limit
<1> DEFINE d == m - k - 1
<1>1. d \in Nat /\ m = k + 1 + d
  OBVIOUS
<1> HIDE DEF d
<1>2. m * limit = k * limit + limit + d * limit
  BY <1>1
<1>3. k * limit \in Nat /\ d * limit \in Nat
  BY <1>1
<1> QED BY <1>2, <1>3

(* The pages show each row once, in their order, and nothing else. *)
ShownOnceInOrder(pages, S, before) ==
    /\ \A k \in Nat : pages[k] \in Seq(S)
    /\ \A x \in S : \E k \in Nat : \E n \in 1 .. Len(pages[k]) : pages[k][n] = x
    /\ \A k, m \in Nat : \A i \in 1 .. Len(pages[k]), j \in 1 .. Len(pages[m]) :
         /\ k < m \/ (k = m /\ i < j) => <<pages[k][i], pages[m][j]>> \in before
         /\ pages[k][i] = pages[m][j] => k = m /\ i = j

LEMMA OffsetPages ==
    ASSUME NEW S, IsFiniteSet(S), NEW before, StrictOrder(S, before), NEW limit \in Nat \ {0}
    PROVE  ShownOnceInOrder([k \in Nat |-> Page(Ordered(S, before), limit, k * limit)], S, before)
<1> DEFINE all == Ordered(S, before)
           N == Cardinality(S)
           pages == [k \in Nat |-> Page(Ordered(S, before), limit, k * limit)]
<1>1. /\ all \in Seq(S) /\ Len(all) = N
      /\ \A x \in S : \E n \in 1 .. N : all[n] = x
      /\ \A m, n \in 1 .. N : m < n => <<all[m], all[n]>> \in before
  BY OrderedLists
<1>2. N \in Nat
  BY FS_CardinalityType
<1> HIDE DEF N
<1>3. ASSUME NEW k \in Nat
      PROVE  /\ k * limit \in Nat
             /\ pages[k] \in Seq(S)
             /\ Len(pages[k]) = IF k * limit + limit < N THEN limit
                                ELSE IF k * limit < N THEN N - k * limit ELSE 0
             /\ \A n \in 1 .. Len(pages[k]) : k * limit + n \in 1 .. N /\ pages[k][n] = all[k * limit + n]
  <2> DEFINE b == k * limit
             e == IF b + limit < N THEN b + limit ELSE N
  <2>1. b \in Nat
    OBVIOUS
  <2>2. pages[k] = SubSeq(all, b + 1, e)
    <3>1. pages[k] = SubSeq(all, b + 1, IF b + limit < Len(all) THEN b + limit ELSE Len(all))
      BY DEF Page
    <3> QED BY <1>1, <3>1
  <2> HIDE DEF b, all, pages
  <2>3. e \in Nat /\ e <= N
    BY <1>2, <2>1
  <2>4. \A n \in b + 1 .. e : all[n] \in S
    BY <1>1, <1>2, <2>1, <2>3
  <2>5. /\ pages[k] \in Seq(S)
        /\ Len(pages[k]) = IF b + 1 <= e THEN e - (b + 1) + 1 ELSE 0
        /\ \A n \in 1 .. e - (b + 1) + 1 : pages[k][n] = all[b + 1 + n - 1]
    <3>1. b + 1 \in Int /\ e \in Int
      BY <2>1, <2>3
    <3> HIDE DEF e
    <3> QED BY <2>2, <2>4, <3>1, SubSeqProperties
  <2>6. Len(pages[k]) = IF b + limit < N THEN limit ELSE IF b < N THEN N - b ELSE 0
    BY <1>2, <2>1, <2>5
  <2>7. ASSUME NEW n \in 1 .. Len(pages[k])
        PROVE  b + n \in 1 .. N /\ pages[k][n] = all[b + n]
    <3>1. n \in 1 .. e - (b + 1) + 1 /\ b + 1 + n - 1 = b + n /\ b + n \in 1 .. N
      BY <1>2, <2>1, <2>3, <2>5
    <3> HIDE DEF e
    <3> QED BY <2>5, <3>1
  <2> QED BY <2>1, <2>5, <2>6, <2>7 DEF b
<1> HIDE DEF all, pages
<1>4. ASSUME NEW x \in S
      PROVE  \E k \in Nat : \E n \in 1 .. Len(pages[k]) : pages[k][n] = x
  <2>1. PICK p \in 1 .. N : all[p] = x
    BY <1>1
  <2> DEFINE T == {j \in Nat : p <= j * limit}
  <2>2. T \subseteq Nat /\ T # {}
    <3>1. p \in Nat /\ p * limit = p + p * (limit - 1) /\ p * (limit - 1) \in Nat
      BY <1>2
    <3>2. p \in T
      BY <3>1
    <3> QED BY <3>2
  <2>3. PICK j \in T : \A i \in T : j <= i
    <3> HIDE DEF T
    <3> QED BY <2>2, LeastNumber
  <2>4. j \in Nat /\ j # 0 /\ p <= j * limit
    BY <2>3, <1>2
  <2> DEFINE k == j - 1
  <2>5. k \in Nat /\ j = k + 1
    BY <2>4
  <2> HIDE DEF k
  <2>6. k \notin T
    <3> HIDE DEF T
    <3> QED BY <2>3, <2>5, <2>4
  <2>7. k * limit < p /\ p <= k * limit + limit /\ k * limit \in Nat
    <3>1. k * limit \in Nat /\ j * limit = k * limit + limit
      BY <2>5
    <3> QED BY <1>2, <2>4, <2>5, <2>6, <3>1
  <2> DEFINE n == p - k * limit
  <2>8. n \in 1 .. Len(pages[k]) /\ k * limit + n = p
    <3> DEFINE b == k * limit
    <3>1. b \in Nat /\ b < p /\ p <= b + limit /\ p \in 1 .. N
      BY <2>7
    <3>2. Len(pages[k]) = IF b + limit < N THEN limit ELSE IF b < N THEN N - b ELSE 0
      BY <1>3, <2>5
    <3> HIDE DEF b
    <3>3. p - b \in 1 .. Len(pages[k]) /\ b + (p - b) = p
      BY <1>2, <3>1, <3>2
    <3> QED BY <3>3 DEF b
  <2>9. pages[k][n] = x
    BY <1>3, <2>1, <2>5, <2>8
  <2> QED BY <2>5, <2>8, <2>9
<1>5. ASSUME NEW k \in Nat, NEW m \in Nat, NEW i \in 1 .. Len(pages[k]), NEW j \in 1 .. Len(pages[m]),
             k < m \/ (k = m /\ i < j)
      PROVE  <<pages[k][i], pages[m][j]>> \in before
  <2>1. /\ k * limit \in Nat /\ m * limit \in Nat /\ i \in Nat /\ j \in Nat /\ i <= limit /\ j >= 1
    <3> DEFINE b == k * limit
    <3>1. /\ b \in Nat /\ m * limit \in Nat /\ pages[k] \in Seq(S) /\ pages[m] \in Seq(S)
          /\ Len(pages[k]) = IF b + limit < N THEN limit ELSE IF b < N THEN N - b ELSE 0
      BY <1>3
    <3> HIDE DEF b
    <3>2. Len(pages[k]) \in Nat /\ Len(pages[m]) \in Nat /\ Len(pages[k]) <= limit
      BY <1>2, <3>1
    <3>3. i \in Nat /\ j \in Nat /\ i <= limit /\ j >= 1
      BY <3>2
    <3> QED BY <3>1, <3>3 DEF b
  <2>2. k * limit + i < m * limit + j
    <3>1. CASE k < m
      BY <2>1, <3>1, PagesApart
    <3>2. CASE k = m /\ i < j
      BY <2>1, <3>2
    <3> QED BY <1>5, <3>1, <3>2
  <2>3. /\ k * limit + i \in 1 .. N /\ pages[k][i] = all[k * limit + i]
        /\ m * limit + j \in 1 .. N /\ pages[m][j] = all[m * limit + j]
    BY <1>3
  <2> QED BY <1>1, <2>2, <2>3
<1>6. ASSUME NEW k \in Nat, NEW m \in Nat, NEW i \in 1 .. Len(pages[k]), NEW j \in 1 .. Len(pages[m]),
             pages[k][i] = pages[m][j]
      PROVE  k = m /\ i = j
  <2>1. pages[k][i] \in S /\ <<pages[k][i], pages[k][i]>> \notin before
    <3>1. pages[k] \in Seq(S)
      BY <1>3
    <3>2. pages[k][i] \in S
      BY <3>1
    <3> QED BY <3>2 DEF StrictOrder
  <2>2. ~(k < m \/ (k = m /\ i < j)) /\ ~(m < k \/ (m = k /\ j < i))
    BY <1>5, <1>6, <2>1
  <2>3. i \in Nat /\ j \in Nat
    OBVIOUS
  <2> QED BY <2>2, <2>3
<1>7. ShownOnceInOrder(pages, S, before)
  <2>1. \A k \in Nat : pages[k] \in Seq(S)
    BY <1>3
  <2>2. \A k, m \in Nat : \A i \in 1 .. Len(pages[k]), j \in 1 .. Len(pages[m]) :
          /\ k < m \/ (k = m /\ i < j) => <<pages[k][i], pages[m][j]>> \in before
          /\ pages[k][i] = pages[m][j] => k = m /\ i = j
    BY <1>5, <1>6
  <2> QED BY <1>4, <2>1, <2>2 DEF ShownOnceInOrder
<1> QED BY <1>7 DEF pages

(* Bookmarks: while nothing changes, the pages of any size show each       *)
(* bookmarked card the reader may see once, the last bookmarked first      *)
(* (queries.py:239-265), and no other.                                     *)
THEOREM BookmarksShownOnce ==
    ASSUME NEW table, IsFiniteSet(DOMAIN table), DOMAIN table \subseteq Nat, NEW viewer,
           NEW marks, \A i \in DOMAIN marks : marks[i] \in Nat, NEW limit \in Nat \ {0}
    PROVE  LET due == Found(table, viewer) \cap DOMAIN marks
               lastFirst == {p \in due \X due :
                 \/ marks[p[1]] > marks[p[2]]
                 \/ marks[p[1]] = marks[p[2]] /\ p[1] < p[2]}
           IN  ShownOnceInOrder([k \in Nat |-> BookmarkPage(table, viewer, marks, limit, k * limit)],
                                due, lastFirst)
<1> DEFINE due == Found(table, viewer) \cap DOMAIN marks
           lastFirst == {p \in due \X due :
             \/ marks[p[1]] > marks[p[2]]
             \/ marks[p[1]] = marks[p[2]] /\ p[1] < p[2]}
<1>1. due \in SUBSET DOMAIN table /\ \A i \in due : i \in Nat /\ marks[i] \in Nat
  BY DEF Found
<1>2. IsFiniteSet(due)
  <2> HIDE DEF due
  <2> QED BY <1>1, FS_Subset
<1>3. StrictOrder(due, lastFirst)
  <2>1. ASSUME NEW i \in due, NEW j \in due
        PROVE  <<i, j>> \in lastFirst <=> (marks[i] > marks[j] \/ (marks[i] = marks[j] /\ i < j))
    <3> HIDE DEF due
    <3> QED OBVIOUS
  <2> HIDE DEF due, lastFirst
  <2> QED BY <1>1, <2>1 DEF StrictOrder
<1>4. \A k : BookmarkPage(table, viewer, marks, limit, k * limit) =
               Page(Ordered(due, lastFirst), limit, k * limit)
  BY DEF BookmarkPage, BookmarkOrder
<1> HIDE DEF due, lastFirst
<1>5. ShownOnceInOrder([k \in Nat |-> BookmarkPage(table, viewer, marks, limit, k * limit)],
                       due, lastFirst)
  <2>1. ShownOnceInOrder([k \in Nat |-> Page(Ordered(due, lastFirst), limit, k * limit)],
                         due, lastFirst)
    BY <1>2, <1>3, OffsetPages
  <2> QED BY <1>4, <2>1
<1> QED BY <1>5 DEF due, lastFirst

(* Notifications likewise, all or only the unread, the newest first        *)
(* (social.py:273-305).                                                    *)
THEOREM NotificationsShownOnce ==
    ASSUME NEW rows, IsFiniteSet(DOMAIN rows), DOMAIN rows \subseteq Nat,
           \A n \in DOMAIN rows : rows[n].created \in Nat,
           NEW user, NEW unreadOnly \in BOOLEAN, NEW limit \in Nat \ {0}
    PROVE  LET listed == IF unreadOnly THEN Unread(rows, user)
                         ELSE {n \in DOMAIN rows : rows[n].user = user}
               newestFirst == {p \in listed \X listed :
                                 \/ rows[p[1]].created > rows[p[2]].created
                                 \/ rows[p[1]].created = rows[p[2]].created /\ p[1] > p[2]}
           IN  ShownOnceInOrder(
                 [k \in Nat |-> ListNotifications(rows, user, unreadOnly, limit, k * limit).items],
                 listed, newestFirst)
<1> DEFINE listed == IF unreadOnly THEN Unread(rows, user)
                     ELSE {n \in DOMAIN rows : rows[n].user = user}
           newestFirst == {p \in listed \X listed :
                             \/ rows[p[1]].created > rows[p[2]].created
                             \/ rows[p[1]].created = rows[p[2]].created /\ p[1] > p[2]}
<1>1. listed \in SUBSET DOMAIN rows /\ \A n \in listed : n \in Nat /\ rows[n].created \in Nat
  BY DEF Unread
<1>2. IsFiniteSet(listed)
  <2> HIDE DEF listed
  <2> QED BY <1>1, FS_Subset
<1>3. StrictOrder(listed, newestFirst)
  <2>1. ASSUME NEW i \in listed, NEW j \in listed
        PROVE  <<i, j>> \in newestFirst <=>
                 \/ rows[i].created > rows[j].created
                 \/ rows[i].created = rows[j].created /\ i > j
    OBVIOUS
  <2> HIDE DEF listed, newestFirst
  <2> QED BY <1>1, <2>1 DEF StrictOrder
<1>4. \A k : ListNotifications(rows, user, unreadOnly, limit, k * limit).items =
               Page(Ordered(listed, newestFirst), limit, k * limit)
  BY DEF ListNotifications, NotificationOrder
<1> HIDE DEF listed, newestFirst
<1>5. ShownOnceInOrder(
        [k \in Nat |-> ListNotifications(rows, user, unreadOnly, limit, k * limit).items],
        listed, newestFirst)
  BY <1>2, <1>3, <1>4, OffsetPages
<1> QED BY <1>5 DEF listed, newestFirst

(* The list of tags has each tag of a card that is found once, with the    *)
(* number of those cards, the most used first and the rest in the order    *)
(* of the text type (queries.py:202-219).                                  *)
THEOREM TagsMostUsedFirst ==
    ASSUME NEW table, IsFiniteSet(DOMAIN table), NEW viewer, NEW rank,
           IsFiniteSet(DOMAIN TagCounts(table, viewer)),
           \A a \in DOMAIN TagCounts(table, viewer) : rank[a] \in Nat,
           \A a, b \in DOMAIN TagCounts(table, viewer) : rank[a] = rank[b] => a = b
    PROVE  LET tags == TagList(table, viewer, rank)
               count == TagCounts(table, viewer)
           IN  /\ \A a \in DOMAIN count : \E n \in 1 .. Len(tags) : tags[n].tag = a
               /\ \A n \in 1 .. Len(tags) :
                    tags[n].tag \in DOMAIN count /\ tags[n].count = count[tags[n].tag]
               /\ \A m, n \in 1 .. Len(tags) : m < n =>
                    \/ tags[m].count > tags[n].count
                    \/ tags[m].count = tags[n].count /\ rank[tags[m].tag] < rank[tags[n].tag]
<1> DEFINE count == TagCounts(table, viewer)
           names == DOMAIN count
           usedFirst == {p \in names \X names :
             \/ count[p[1]] > count[p[2]]
             \/ count[p[1]] = count[p[2]] /\ rank[p[1]] < rank[p[2]]}
           order == Ordered(names, usedFirst)
           tags == TagList(table, viewer, rank)
<1>1. ASSUME NEW a \in names PROVE count[a] \in Nat
  <2> DEFINE tagged == {i \in Found(table, viewer) : a \in table[i].tags}
  <2>1. count[a] = Cardinality(tagged)
    BY DEF TagCounts
  <2>2. tagged \in SUBSET DOMAIN table
    BY DEF Found
  <2> HIDE DEF tagged
  <2> QED BY <2>1, <2>2, FS_Subset, FS_CardinalityType
<1>2. tags = [n \in DOMAIN order |-> [tag |-> order[n], count |-> count[order[n]]]]
  BY DEF TagList, MostUsedFirst
<1>3. IsFiniteSet(names) /\ (\A a \in names : rank[a] \in Nat)
      /\ (\A a, b \in names : rank[a] = rank[b] => a = b)
  OBVIOUS
<1>4. ASSUME NEW a \in names, NEW b \in names
      PROVE  <<a, b>> \in usedFirst <=> (count[a] > count[b] \/ (count[a] = count[b] /\ rank[a] < rank[b]))
  <2> HIDE DEF names, count
  <2> QED OBVIOUS
<1> HIDE DEF names, usedFirst
<1>5. StrictOrder(names, usedFirst)
  <2> HIDE DEF count
  <2> QED BY <1>1, <1>3, <1>4 DEF StrictOrder
<1>6. /\ order \in Seq(names) /\ Len(order) = Cardinality(names)
      /\ \A a \in names : \E n \in 1 .. Cardinality(names) : order[n] = a
      /\ \A m, n \in 1 .. Cardinality(names) : m < n => <<order[m], order[n]>> \in usedFirst
  BY <1>3, <1>5, OrderedLists
<1> HIDE DEF order, tags, count
<1>7. DOMAIN order = 1 .. Len(order) /\ Len(order) \in Nat /\ \A n \in 1 .. Len(order) : order[n] \in names
  BY <1>6
<1>8. Len(tags) = Len(order) /\ \A n \in 1 .. Len(order) :
        tags[n].tag = order[n] /\ tags[n].count = count[order[n]]
  BY <1>2, <1>7
<1>9. \A a \in names : \E n \in 1 .. Len(tags) : tags[n].tag = a
  BY <1>6, <1>8
<1>10. ASSUME NEW m \in 1 .. Len(tags), NEW n \in 1 .. Len(tags), m < n
       PROVE  \/ tags[m].count > tags[n].count
              \/ tags[m].count = tags[n].count /\ rank[tags[m].tag] < rank[tags[n].tag]
  <2>1. order[m] \in names /\ order[n] \in names /\ <<order[m], order[n]>> \in usedFirst
    BY <1>6, <1>7, <1>8, <1>10
  <2>2. \/ count[order[m]] > count[order[n]]
        \/ count[order[m]] = count[order[n]] /\ rank[order[m]] < rank[order[n]]
    BY <1>4, <2>1
  <2> QED BY <1>8, <2>2
<1> QED BY <1>7, <1>8, <1>9, <1>10 DEF tags, count, names
=============================================================================
