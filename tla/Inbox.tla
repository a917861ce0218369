--------------------------------- MODULE Inbox ---------------------------------
(***************************************************************************)
(* The statements of core/connectors/social.py that are a transaction each *)
(* and need no other row: stars and bookmarks, and what a person does with *)
(* notifications.  Each is a function of its table.                        *)
(*                                                                         *)
(* A reaction table is a set of pairs <<card, user>>, its primary key; the *)
(* notifications are a function from ids to rows; a notification is asked  *)
(* for as <<id>>, all of them as <<>>.                                     *)
(***************************************************************************)
EXTENDS SequencesExt, RowOrder

Never == 0          \* read_at IS NULL; times are 1, 2, ...

(* set_reaction: INSERT ... ON CONFLICT DO NOTHING, or DELETE *)
SetReaction(table, card, user, on) ==
    IF on THEN table \cup {<<card, user>>} ELSE table \ {<<card, user>>}

(* count_reaction *)
CountReaction(table, card) == Cardinality({row \in table : row[1] = card})

(* The handlers' _set: set, commit, count. *)
React(table, card, user, on) ==
    LET after == SetReaction(table, card, user, on)
    IN  [table |-> after, on |-> on, count |-> CountReaction(after, card)]

Unread(rows, user) == {n \in DOMAIN rows : rows[n].user = user /\ rows[n].readAt = Never}

(* mark_read, and how many it changed *)
Covered(rows, user, wanted) == {n \in Unread(rows, user) : wanted = <<>> \/ n = wanted[1]}
MarkRead(rows, user, wanted, now) ==
    [n \in DOMAIN rows |->
       IF n \in Covered(rows, user, wanted) THEN [rows[n] EXCEPT !.readAt = now] ELSE rows[n]]
CountRead(rows, user, wanted) == Cardinality(Covered(rows, user, wanted))

(* list_notifications: ORDER BY created_at DESC, notification_id DESC *)
NotificationOrder(rows, listed) ==
    Ordered(listed, {p \in listed \X listed :
       \/ rows[p[1]].created > rows[p[2]].created
       \/ rows[p[1]].created = rows[p[2]].created /\ p[1] > p[2]})
ListNotifications(rows, user, unreadOnly, limit, offset) ==
    LET listed == IF unreadOnly THEN Unread(rows, user)
                  ELSE {n \in DOMAIN rows : rows[n].user = user}
    IN  [items |-> Page(NotificationOrder(rows, listed), limit, offset),
         unread |-> Cardinality(Unread(rows, user))]
=============================================================================
