---------------------------- MODULE CatalogQueries ----------------------------
(***************************************************************************)
(* The questions of core/connectors/queries.py, each one SELECT, as        *)
(* functions of the tables: the list with its filters, the detail page,    *)
(* the tags, the statistics and the bookmarks; and VISIBLE_PREDICATE in    *)
(* full (CatalogPaging merges scope and visible teams).  No state.         *)
(*                                                                         *)
(* The table connectors is a function from ids to rows with their tags,    *)
(* visible teams and health; a session is Nobody or [id, teams].  words    *)
(* are the lexemes of name and summary.                                    *)
(***************************************************************************)
EXTENDS SequencesExt, RowOrder

Missing == "missing"                \* no row in connector_health_checks; NULL
Nobody == [id |-> "", teams |-> {}] \* viewer_scope and viewer_params without a session

(* VISIBLE_PREDICATE *)
Shows(row, viewer) ==
    \/ row.scope = "global"
    \/ row.creator = viewer.id
    \/ row.scope = "team" /\ row.team \in viewer.teams
    \/ row.guests \cap viewer.teams # {}

Found(table, viewer) == {i \in DOMAIN table : Shows(table[i], viewer) /\ ~table[i].archived}

(* plainto_tsquery demands every lexeme and matches nothing if there is none. *)
MatchesText(row, q) ==
    \/ q.lexemes # {} /\ q.lexemes \subseteq row.words
    \/ q.lower \in row.tags

(* count(DISTINCT tag) = len(set(tags)) *)
MatchesTags(row, tags) ==
    Cardinality({tag \in row.tags : Contains(tags, tag)}) = Cardinality(Range(tags))

(* list_connectors without order and cursor, which are in CatalogPaging; q *)
(* is <<>> or <<text>>.                                                    *)
Listed(table, viewer, q, tags) ==
    {i \in Found(table, viewer) : /\ \A text \in Range(q) : MatchesText(table[i], text)
                                  /\ tags # <<>> => MatchesTags(table[i], tags)}

(* get_connector: the rows found, one or none; an archived card keeps its  *)
(* page.                                                                   *)
Detail(table, viewer, i) ==
    IF i \in DOMAIN table /\ Shows(table[i], viewer) THEN <<table[i]>> ELSE <<>>

(* list_tags: how many cards each tag has; count DESC, tag ASC; rank is    *)
(* the order of the text type.                                             *)
TagCounts(table, viewer) ==
    LET found == Found(table, viewer)
    IN  [tag \in UNION {table[i].tags : i \in found} |->
           Cardinality({i \in found : tag \in table[i].tags})]
MostUsedFirst(count, rank) ==
    LET tags == DOMAIN count
        order == Ordered(tags, {p \in tags \X tags :
                    \/ count[p[1]] > count[p[2]]
                    \/ count[p[1]] = count[p[2]] /\ rank[p[1]] < rank[p[2]]})
    IN  [n \in DOMAIN order |-> [tag |-> order[n], count |-> count[order[n]]]]
TagList(table, viewer, rank) == MostUsedFirst(TagCounts(table, viewer), rank)

(* catalog_stats: COALESCE(health_status, 'unknown'), and no row for none. *)
StatusOf(row) == IF row.health = Missing THEN "unknown" ELSE row.health
Stats(table, viewer) ==
    LET found == Found(table, viewer)
        byHealth == [s \in {StatusOf(table[i]) : i \in found} |->
                       Cardinality({i \in found : StatusOf(table[i]) = s})]
    IN  [total |-> FoldFunction(+, 0, byHealth), byHealth |-> byHealth]

(* list_bookmarked: marks is a function from the cards the viewer has      *)
(* bookmarked to created_at; ORDER BY created_at DESC, connector_id.       *)
BookmarkOrder(table, viewer, marks) ==
    LET found == Found(table, viewer) \cap DOMAIN marks
    IN  Ordered(found, {p \in found \X found :
           \/ marks[p[1]] > marks[p[2]]
           \/ marks[p[1]] = marks[p[2]] /\ p[1] < p[2]})
BookmarkPage(table, viewer, marks, limit, offset) ==
    Page(BookmarkOrder(table, viewer, marks), limit, offset)

(* can_edit; without a session user_id is NULL, kept here as "". *)
CanEdit(row, viewer) == viewer.id # "" /\ row.creator = viewer.id
=============================================================================
