------------------------------ MODULE Discussion ------------------------------
(***************************************************************************)
(* Comments and notifications (core/connectors/social.py, the handlers of  *)
(* api/connectors/social_router.py and api/notifications/router.py).       *)
(*                                                                         *)
(* A handler reads the card, reads a comment, writes and commits, reads    *)
(* back.  Under READ COMMITTED each statement sees what is committed by    *)
(* then, so these are separate steps; the writes of one transaction show   *)
(* at its commit.  Card and comment rows may go in between, cards by a     *)
(* DELETE that cascades, comments by a soft delete.                        *)
(*                                                                         *)
(* A response of 404 before anything is written changes no state: the      *)
(* request just ends.  Who may see a card is not modelled: a request whose *)
(* viewer may not see it is one that never opens.                          *)
(***************************************************************************)
EXTENDS FiniteSets

CONSTANTS
    Users,
    Cards,
    CommentIds,     \* bound: the comments ever written
    Requests,       \* requests that may be open at once
    Owner,          \* creator_user_id of each card
    Moderators,     \* connector_moderators
    None,           \* no such comment yet; no parent; nobody
    Gone            \* a comment that went with its card

ASSUME DiscussionAssumption ==
    /\ Owner \in [Cards -> Users]
    /\ Moderators \subseteq Users
    /\ None \notin Users \cup Cards \cup CommentIds
    /\ None # Gone
    /\ \A x \in {None, Gone} :
         x \notin [card : Cards, parent : CommentIds \cup {None}, author : Users,
                   words : Users \cup {None}, deleted : BOOLEAN]

VARIABLES
    cards,          \* connectors: the cards that exist
    comments,       \* connector_comments
    inbox,          \* connector_notifications
    request         \* the handler of each open request

discussionVars == <<cards, comments, inbox, request>>

(* words: who wrote the text in body (None: body is empty). *)
Rows == [card : Cards, parent : CommentIds \cup {None}, author : Users,
         words : Users \cup {None}, deleted : BOOLEAN]
Notifications == [user : Users, comment : CommentIds, card : Cards,
                  kind : {"comment", "comment_reply"}]
Handlers == [kind : {"none", "create", "edit", "delete", "list"},
             stage : {"idle", "opened", "checked", "committed", "listing"},
             user : Users \cup {None}, card : Cards \cup {None},
             comment : CommentIds \cup {None},     \* created, edited or deleted
             parent : CommentIds \cup {None}, parentAuthor : Users \cup {None},
             roots : SUBSET CommentIds,            \* the threads a listing has read,
             known : SUBSET CommentIds]            \* history: live when they were read
Idle == [kind |-> "none", stage |-> "idle", user |-> None, card |-> None,
         comment |-> None, parent |-> None, parentAuthor |-> None,
         roots |-> {}, known |-> {}]

TypeOK ==
    /\ cards \subseteq Cards
    /\ comments \in [CommentIds -> Rows \cup {None, Gone}]
    /\ inbox \subseteq Notifications
    /\ request \in [Requests -> Handlers]

Init ==
    /\ cards = Cards
    /\ comments = [c \in CommentIds |-> None]
    /\ inbox = {}
    /\ request = [r \in Requests |-> Idle]

Exists(c) == comments[c] \notin {None, Gone}
Live(c) == Exists(c) /\ ~comments[c].deleted
On(k) == {c \in CommentIds : Exists(c) /\ comments[c].card = k}

To(r, h) == request' = [request EXCEPT ![r] = h]
At(r, kind, stage) == request[r].kind = kind /\ request[r].stage = stage

(* Every handler starts by reading the card (_visible_connector). *)
Open(r, kind) ==
    /\ request[r].stage = "idle"
    /\ \E u \in Users, k \in cards :
         To(r, [Idle EXCEPT !.kind = kind, !.stage = "opened", !.user = u, !.card = k])
    /\ UNCHANGED <<cards, comments, inbox>>

-----------------------------------------------------------------------------
(* POST /connectors/{id}/comments *)

(* Mutant: the parent may be a reply itself. *)
MayReplyToNested(p, k) == Live(p) /\ comments[p].card = k

MayReplyTo(p, k) == Live(p) /\ comments[p].card = k /\ comments[p].parent = None

(* A comment of its own, or a reply to one that is live, on this card and  *)
(* not a reply itself.                                                     *)
CheckParent(r) ==
    /\ At(r, "create", "opened")
    /\ \/ To(r, [request[r] EXCEPT !.stage = "checked"])
       \/ \E p \in CommentIds :
            /\ MayReplyTo(p, request[r].card)
            /\ To(r, [request[r] EXCEPT !.stage = "checked", !.parent = p,
                                        !.parentAuthor = comments[p].author])
    /\ UNCHANGED <<cards, comments, inbox>>

(* Mutants: the owner is told even when the parent's author was (and is    *)
(* the same person); the parent's author is told when there is no parent.  *)
NoticesTwice(h, c) ==
    LET notice(u, kind) == [user |-> u, comment |-> c, card |-> h.card, kind |-> kind]
    IN  {n \in {notice(h.parentAuthor, "comment_reply"), notice(Owner[h.card], "comment")} :
           n.user \notin {h.user, None}}
NoticesToNobody(h, c) ==
    {[user |-> u, comment |-> c, card |-> h.card,
      kind |-> IF u = h.parentAuthor THEN "comment_reply" ELSE "comment"] :
        u \in {h.parentAuthor, Owner[h.card]} \ {h.user}}

(* notify skips whoever acts; the owner is not told twice. *)
Notices(h, c) ==
    {[user |-> u, comment |-> c, card |-> h.card,
      kind |-> IF u = h.parentAuthor THEN "comment_reply" ELSE "comment"] :
        u \in {h.parentAuthor, Owner[h.card]} \ {h.user, None}}

(* The comment and its notifications, in one transaction.  The foreign     *)
(* keys turn it away when the card, and the parent with it, is gone.       *)
CreateComment(r) ==
    /\ At(r, "create", "checked")
    /\ request[r].card \in cards
    /\ \E c \in CommentIds :
         /\ comments[c] = None
         /\ comments' = [comments EXCEPT ![c] =
              [card |-> request[r].card, parent |-> request[r].parent,
               author |-> request[r].user, words |-> request[r].user, deleted |-> FALSE]]
         /\ inbox' = inbox \cup Notices(request[r], c)
         /\ To(r, [request[r] EXCEPT !.stage = "committed", !.comment = c])
    /\ UNCHANGED cards

-----------------------------------------------------------------------------
(* PATCH and DELETE /connectors/{id}/comments/{comment} *)

MayAct(h, c) ==
    comments[c].author = h.user \/ (h.kind = "delete" /\ h.user \in Moderators)

(* _owned_comment, and the question who asks. *)
CheckComment(r) ==
    /\ request[r].kind \in {"edit", "delete"} /\ request[r].stage = "opened"
    /\ \E c \in On(request[r].card) :
         /\ Live(c)
         /\ MayAct(request[r], c)
         /\ To(r, [request[r] EXCEPT !.stage = "checked", !.comment = c])
    /\ UNCHANGED <<cards, comments, inbox>>

(* Mutant: the UPDATE of an edit has no WHERE deleted_at IS NULL. *)
EditedAlways(row, u) == [row EXCEPT !.words = u]

Edited(row, u) == IF row.deleted THEN row ELSE [row EXCEPT !.words = u]
Erased(row) == [row EXCEPT !.words = None, !.deleted = TRUE]

(* An UPDATE of a row that went with its card finds nothing to change. *)
Rewrite(c, row) == comments' = [comments EXCEPT ![c] = IF Exists(c) THEN row ELSE @]

UpdateComment(r) ==
    /\ At(r, "edit", "checked")
    /\ Rewrite(request[r].comment, Edited(comments[request[r].comment], request[r].user))
    /\ To(r, [request[r] EXCEPT !.stage = "committed"])
    /\ UNCHANGED <<cards, inbox>>

(* Mutant: a DELETE that takes the replies along. *)
SoftDeleteCommentWithReplies(r) ==
    /\ At(r, "delete", "checked")
    /\ comments' = [c \in CommentIds |->
         IF Exists(c) /\ request[r].comment \in {c, comments[c].parent}
           THEN Erased(comments[c]) ELSE comments[c]]
    /\ To(r, Idle)
    /\ UNCHANGED <<cards, inbox>>

SoftDeleteComment(r) ==
    /\ At(r, "delete", "checked")
    /\ Rewrite(request[r].comment, Erased(comments[request[r].comment]))
    /\ To(r, Idle)
    /\ UNCHANGED <<cards, inbox>>

(* Both POST and PATCH answer with the row read anew (None: an assertion    *)
(* fails) and end.                                                         *)
ReadBack(r) == IF Exists(request[r].comment) THEN comments[request[r].comment] ELSE None

-----------------------------------------------------------------------------
(* GET /connectors/{id}/comments: first the threads, then their replies. *)

RepliesTo(p) == {c \in CommentIds : Exists(c) /\ comments[c].parent = p}

(* Mutant: a deleted comment is never listed. *)
ListedIfLive(c) == Live(c)

(* _LIVE: a deleted comment stays while a live reply hangs on it. *)
Listed(c) == Live(c) \/ \E d \in RepliesTo(c) : Live(d)

Threads(k) == {c \in On(k) : comments[c].parent = None /\ Listed(c)}

ListRoots(r) ==
    /\ At(r, "list", "opened")
    /\ LET k == request[r].card IN
         To(r, [request[r] EXCEPT !.stage = "listing", !.roots = Threads(k),
                  !.known = {c \in On(k) : Live(c)}])
    /\ UNCHANGED <<cards, comments, inbox>>

(* The replies a listing reads now, before it ends. *)
Replies(r) == {c \in CommentIds : Live(c) /\ comments[c].parent \in request[r].roots}

-----------------------------------------------------------------------------
(* The last read is done and the response is out, or there is none: a 404, *)
(* an error, a crash of the process; what was not committed is gone.       *)
End(r) ==
    /\ request[r].stage # "idle"
    /\ To(r, Idle)
    /\ UNCHANGED <<cards, comments, inbox>>

(* The owner deletes a card; comments and notifications go with it. *)
DeleteConnector(k) ==
    /\ k \in cards
    /\ cards' = cards \ {k}
    /\ comments' = [c \in CommentIds |-> IF c \in On(k) THEN Gone ELSE comments[c]]
    /\ inbox' = {n \in inbox : n.card # k}
    /\ UNCHANGED request

Next ==
    \/ \E k \in Cards : DeleteConnector(k)
    \/ \E r \in Requests :
         \/ \E kind \in {"create", "edit", "delete", "list"} : Open(r, kind)
         \/ CheckParent(r) \/ CreateComment(r)
         \/ CheckComment(r) \/ UpdateComment(r) \/ SoftDeleteComment(r)
         \/ ListRoots(r)
         \/ End(r)

Spec == Init /\ [][Next]_discussionVars

-----------------------------------------------------------------------------
(* The screen renders two levels (social_router.py:83-85): whatever has    *)
(* happened since the parent was checked, a reply hangs on a comment of    *)
(* the same card that is no reply itself.                                  *)
TwoLevels ==
    \A c \in CommentIds :
      Exists(c) /\ comments[c].parent # None =>
        LET p == comments[c].parent
        IN  Exists(p) /\ comments[p].parent = None /\ comments[p].card = comments[c].card

(* The words under a name are that person's (social_router.py:144-145), and *)
(* a deleted comment has lost them for good (social.py:178-179): an edit   *)
(* that was checked before the deletion brings nothing back.               *)
OwnWordsOrNone ==
    \A c \in CommentIds : Exists(c) =>
      comments[c].words = IF comments[c].deleted THEN None ELSE comments[c].author

(* Who should hear of comment c: the owner of the card and the author of   *)
(* the parent, but not whoever wrote it.                                   *)
Audience(c) ==
    LET parent == comments[c].parent
    IN  ({Owner[comments[c].card]} \cup (IF parent = None THEN {} ELSE {comments[parent].author}))
          \ {comments[c].author}

(* Every comment in the table has told its whole audience, each once, and  *)
(* every notification is of a comment that is there (social_router.py:81,  *)
(* 115; social.py:251).                                                    *)
ToldOnce ==
    /\ \A n \in inbox : Exists(n.comment)
    /\ \A c \in CommentIds : Exists(c) =>
         /\ \A n, m \in inbox : n.comment = c /\ m.comment = c /\ n.user = m.user => n = m
         /\ {n.user : n \in {m \in inbox : m.comment = c}} = Audience(c)

(* Who is about to do something *)
Visit(r) ==
    IF request[r].stage \in {"opened", "checked"}
    THEN [user |-> request[r].user, card |-> request[r].card, purpose |-> request[r].kind]
    ELSE [user |-> None, card |-> None, purpose |-> "none"]

Table == INSTANCE Forum WITH visit <- [r \in Requests |-> Visit(r)]

(* Handlers check in one statement and write in another, while comments    *)
(* are edited and deleted and cards go; still each does, in one step, what *)
(* its user may do to the comments as they are then, and nothing else      *)
(* (social_router.py:103-189, social.py:150-182).                          *)
ImplementsForum == Table!ForumSpec

(* A comment is taken from the readers only by its author, by a moderator, *)
(* or with its card: no deletion takes the comments of others along        *)
(* (social.py:178).                                                        *)
DeletionSparesOthers ==
    [][\A c \in CommentIds : Live(c) /\ ~Live(c)' /\ cards' = cards =>
         \E r \in Requests :
           /\ At(r, "delete", "checked") /\ request[r].comment = c
           /\ request[r].user \in {comments[c].author} \cup Moderators]_discussionVars

(* A listing read in two statements loses nothing that stayed: a comment   *)
(* that was live when the threads were read and is live when the replies   *)
(* are read is in the response, as a thread or in one (social.py:38-39).   *)
ListingLosesNothing ==
    \A r \in Requests : At(r, "list", "listing") =>
      \A c \in request[r].known : Live(c) => c \in request[r].roots \cup Replies(r)

(* "The row just written is there" (the assertion of social_router.py:128, *)
(* and again at 153).                                                      *)
CreatedIsReadBack ==
    \A r \in Requests : At(r, "create", "committed") => ReadBack(r) # None
=============================================================================
