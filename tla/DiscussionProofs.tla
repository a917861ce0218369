---------------------------- MODULE DiscussionProofs ----------------------------
(***************************************************************************)
(* The comments and their notifications for any number of people, cards,   *)
(* comments and requests.  What makes the invariant inductive is that the  *)
(* card, the parent and the author of a comment never change, and that a   *)
(* card takes all its comments along (Steady): what a handler has checked  *)
(* stays true, or its comment is gone.                                     *)
(***************************************************************************)
EXTENDS Discussion, Inbox, FiniteSetTheorems, WellFoundedInduction, TLAPS

USE DiscussionAssumption

(* What the handler of r knows of the comments it has read *)
CreateOk(r) ==
    request[r].kind = "create" =>
      /\ request[r].parent = None => request[r].parentAuthor = None
      /\ request[r].parent # None =>
           /\ request[r].parent \in CommentIds
           /\ comments[request[r].parent] # None
           /\ request[r].card \in cards => Exists(request[r].parent)
           /\ Exists(request[r].parent) =>
                /\ comments[request[r].parent].card = request[r].card
                /\ comments[request[r].parent].parent = None
                /\ comments[request[r].parent].author = request[r].parentAuthor

ChangeOk(r) ==
    request[r].kind \in {"edit", "delete"} /\ request[r].stage = "checked" =>
      /\ request[r].comment \in CommentIds
      /\ comments[request[r].comment] # None
      /\ Exists(request[r].comment) =>
           /\ MayAct(request[r], request[r].comment)
           /\ comments[request[r].comment].card = request[r].card

ListOk(r) ==
    At(r, "list", "listing") =>
      \A c \in request[r].known :
        /\ comments[c] # None
        /\ Exists(c) => IF comments[c].parent = None THEN c \in request[r].roots
                        ELSE comments[c].parent \in request[r].roots

RequestOk(r) ==
    /\ request[r].stage # "idle" => request[r].user \in Users /\ request[r].card \in Cards
    /\ CreateOk(r) /\ ChangeOk(r) /\ ListOk(r)

RowsOk ==
    /\ \A c \in CommentIds : Exists(c) => comments[c].card \in cards
    /\ \A n \in inbox : n.card = comments[n.comment].card

Inv ==
    /\ TypeOK
    /\ RowsOk /\ TwoLevels /\ OwnWordsOrNone /\ ToldOnce
    /\ \A r \in Requests : RequestOk(r)

(* What no step does to comment c *)
Steady(c) ==
    /\ comments[c] # None => comments'[c] # None
    /\ Exists(c) /\ comments[c].card \in cards' => Exists(c)'
    /\ comments[c] # None /\ Exists(c)' =>
         /\ Exists(c)
         /\ comments'[c].card = comments[c].card
         /\ comments'[c].parent = comments[c].parent
         /\ comments'[c].author = comments[c].author

AllSteady == cards' \subseteq cards /\ \A c \in CommentIds : Steady(c)

LEMMA UnchangedIsSteady ==
    ASSUME UNCHANGED <<cards, comments>>
    PROVE  AllSteady
BY DEF AllSteady, Steady, Exists

(* A request that waits keeps what it knows. *)
LEMMA RequestKept ==
    ASSUME TypeOK, AllSteady, NEW r \in Requests, RequestOk(r), request'[r] = request[r]
    PROVE  RequestOk(r)'
<1>1. request[r] \in Handlers
  BY DEF TypeOK
<1>2. CreateOk(r)'
  BY <1>1 DEF RequestOk, CreateOk, AllSteady, Steady
<1>3. ChangeOk(r)'
  BY <1>1 DEF RequestOk, ChangeOk, MayAct, AllSteady, Steady
<1>4. ListOk(r)'
  <2> SUFFICES ASSUME At(r, "list", "listing")', NEW c \in request'[r].known
               PROVE  /\ comments'[c] # None
                      /\ Exists(c)' => IF comments'[c].parent = None THEN c \in request'[r].roots
                                       ELSE comments'[c].parent \in request'[r].roots
    BY DEF ListOk
  <2>1. c \in CommentIds /\ c \in request[r].known /\ At(r, "list", "listing")
    BY <1>1 DEF Handlers, At
  <2>2. Steady(c)
    BY <2>1 DEF AllSteady
  <2> QED
    BY <2>1, <2>2 DEF RequestOk, ListOk, Steady
<1> QED
  BY <1>1, <1>2, <1>3, <1>4 DEF RequestOk

(* A request that is over knows nothing. *)
LEMMA IdleIsOk ==
    ASSUME NEW r \in Requests, request'[r] = Idle
    PROVE  RequestOk(r)'
BY DEF RequestOk, CreateOk, ChangeOk, ListOk, At, Idle

LEMMA IdleIsHandler == Idle \in Handlers
BY DEF Idle, Handlers

(* Rows keep their part when neither table changes. *)
LEMMA RowsKept ==
    ASSUME UNCHANGED <<cards, comments, inbox>>, RowsOk, TwoLevels, OwnWordsOrNone, ToldOnce
    PROVE  (RowsOk /\ TwoLevels /\ OwnWordsOrNone /\ ToldOnce)'
BY DEF RowsOk, TwoLevels, OwnWordsOrNone, ToldOnce, Exists, Audience

(* The same for a step of one request that only reads *)
LEMMA ReadKeeps ==
    ASSUME Inv, UNCHANGED <<cards, comments, inbox>>, NEW r \in Requests, NEW h \in Handlers,
           To(r, h), RequestOk(r)'
    PROVE  Inv'
<1>1. TypeOK'
  BY DEF Inv, TypeOK, To
<1>2. ASSUME NEW q \in Requests PROVE RequestOk(q)'
  <2>1. CASE q = r
    BY <2>1
  <2>2. CASE q # r
    <3>1. request'[q] = request[q]
      BY <2>2 DEF To, Inv, TypeOK
    <3> QED
      BY <3>1, UnchangedIsSteady, RequestKept DEF Inv
  <2> QED
    BY <2>1, <2>2
<1> QED
  BY <1>1, <1>2, RowsKept DEF Inv

-----------------------------------------------------------------------------
(* Steps that only read *)

LEMMA OpenKeeps ==
    ASSUME Inv, NEW r \in Requests, NEW kind \in {"create", "edit", "delete", "list"}, Open(r, kind)
    PROVE  Inv'
<1>1. PICK u \in Users, k \in cards :
        To(r, [Idle EXCEPT !.kind = kind, !.stage = "opened", !.user = u, !.card = k])
  BY DEF Open
<1> DEFINE h == [Idle EXCEPT !.kind = kind, !.stage = "opened", !.user = u, !.card = k]
<1>2. h \in Handlers /\ k \in Cards
  BY DEF Idle, Handlers, Inv, TypeOK
<1>3. request'[r] = h
  BY <1>1 DEF To, Inv, TypeOK
<1>4. RequestOk(r)'
  BY <1>2, <1>3 DEF RequestOk, CreateOk, ChangeOk, ListOk, At, Idle
<1> QED
  BY <1>1, <1>2, <1>4, ReadKeeps DEF Open

LEMMA CheckParentKeeps ==
    ASSUME Inv, NEW r \in Requests, CheckParent(r)
    PROVE  Inv'
<1>0. request[r] \in Handlers /\ At(r, "create", "opened") /\ RequestOk(r)
      /\ request \in [Requests -> Handlers]
      /\ UNCHANGED <<cards, comments, inbox>>
  BY DEF Inv, TypeOK, CheckParent
<1>1. CASE To(r, [request[r] EXCEPT !.stage = "checked"])
  <2> DEFINE h == [request[r] EXCEPT !.stage = "checked"]
  <2>1. h \in Handlers
    BY <1>0 DEF Handlers
  <2>2. request'[r] = h
    BY <1>0, <1>1 DEF To
  <2>3. /\ h.kind = "create" /\ h.stage = "checked" /\ h.user = request[r].user
        /\ h.card = request[r].card /\ h.parent = request[r].parent
        /\ h.parentAuthor = request[r].parentAuthor
    BY <1>0 DEF Handlers, At
  <2> HIDE DEF h
  <2>4. RequestOk(r)'
    BY <1>0, <2>2, <2>3 DEF RequestOk, CreateOk, ChangeOk, ListOk, At, Exists
  <2> QED
    BY <1>0, <1>1, <2>1, <2>4, ReadKeeps DEF h
<1>2. ASSUME NEW p \in CommentIds, MayReplyTo(p, request[r].card),
             To(r, [request[r] EXCEPT !.stage = "checked", !.parent = p,
                                      !.parentAuthor = comments[p].author])
      PROVE  Inv'
  <2> DEFINE h == [request[r] EXCEPT !.stage = "checked", !.parent = p,
                                     !.parentAuthor = comments[p].author]
  <2>1. comments[p] \in Rows /\ Exists(p)
    BY <1>2 DEF MayReplyTo, Live, Exists, Inv, TypeOK
  <2>2. h \in Handlers
    BY <1>0, <2>1 DEF Handlers, Rows
  <2>3. request'[r] = h
    BY <1>0, <1>2 DEF To
  <2>4. /\ h.kind = "create" /\ h.stage = "checked" /\ h.user = request[r].user
        /\ h.card = request[r].card /\ h.parent = p
        /\ h.parentAuthor = comments[p].author
    BY <1>0 DEF Handlers, At
  <2> HIDE DEF h
  <2>5. RequestOk(r)'
    BY <1>0, <1>2, <2>1, <2>3, <2>4
       DEF RequestOk, CreateOk, ChangeOk, ListOk, At, Exists, MayReplyTo
  <2> QED
    BY <1>0, <1>2, <2>2, <2>5, ReadKeeps DEF h
<1> QED
  BY <1>1, <1>2 DEF CheckParent

LEMMA CheckCommentKeeps ==
    ASSUME Inv, NEW r \in Requests, CheckComment(r)
    PROVE  Inv'
<1>0. request[r] \in Handlers /\ RequestOk(r) /\ request[r].stage = "opened"
      /\ request[r].kind \in {"edit", "delete"}
      /\ request \in [Requests -> Handlers]
      /\ UNCHANGED <<cards, comments, inbox>>
  BY DEF Inv, TypeOK, CheckComment
<1>1. PICK c \in On(request[r].card) :
        /\ Live(c) /\ MayAct(request[r], c)
        /\ To(r, [request[r] EXCEPT !.stage = "checked", !.comment = c])
  BY DEF CheckComment
<1> DEFINE h == [request[r] EXCEPT !.stage = "checked", !.comment = c]
<1>2. h \in Handlers /\ c \in CommentIds
  BY <1>0 DEF Handlers, On
<1>3. request'[r] = h
  BY <1>0, <1>1 DEF To
<1>4. /\ h.kind = request[r].kind /\ h.stage = "checked" /\ h.user = request[r].user
      /\ h.card = request[r].card /\ h.comment = c
  BY <1>0 DEF Handlers
<1> HIDE DEF h
<1>5. RequestOk(r)'
  BY <1>0, <1>1, <1>2, <1>3, <1>4
     DEF RequestOk, CreateOk, ChangeOk, ListOk, At, Exists, Live, MayAct, On
<1> QED
  BY <1>0, <1>1, <1>2, <1>5, ReadKeeps DEF h

(* A thread is listed while a live reply hangs on it, so a live reply's    *)
(* thread is among those that were read.                                   *)
LEMMA ListRootsKeeps ==
    ASSUME Inv, NEW r \in Requests, ListRoots(r)
    PROVE  Inv'
<1> DEFINE k == request[r].card
           h == [request[r] EXCEPT !.stage = "listing", !.roots = Threads(k),
                                   !.known = {c \in On(k) : Live(c)}]
<1>0. request[r] \in Handlers /\ RequestOk(r) /\ At(r, "list", "opened")
      /\ request \in [Requests -> Handlers]
      /\ UNCHANGED <<cards, comments, inbox>> /\ To(r, h)
  BY DEF Inv, TypeOK, ListRoots
<1>1. h \in Handlers
  BY <1>0 DEF Handlers, Threads, On
<1>2. request'[r] = h
  BY <1>0 DEF To
<1>3. /\ h.kind = "list" /\ h.stage = "listing" /\ h.user = request[r].user
      /\ h.card = k /\ h.roots = Threads(k) /\ h.known = {c \in On(k) : Live(c)}
  BY <1>0 DEF Handlers, At
<1>4. ASSUME NEW c \in On(k), Live(c)
      PROVE  /\ comments[c] # None
             /\ IF comments[c].parent = None THEN c \in Threads(k)
                ELSE comments[c].parent \in Threads(k)
  <2>1. c \in CommentIds /\ Exists(c) /\ comments[c].card = k /\ comments[c] \in Rows
    BY <1>4 DEF On, Inv, TypeOK, Exists
  <2>2. CASE comments[c].parent = None
    BY <1>4, <2>1, <2>2 DEF Threads, Listed, Exists
  <2>3. CASE comments[c].parent # None
    <3>1. PICK p \in CommentIds : p = comments[c].parent
      BY <2>1, <2>3 DEF Rows
    <3>2. Exists(p) /\ comments[p].parent = None /\ comments[p].card = k
      BY <2>1, <2>3, <3>1 DEF Inv, TwoLevels
    <3>3. c \in RepliesTo(p)
      BY <2>1, <3>1 DEF RepliesTo
    <3> QED
      BY <1>4, <2>1, <2>3, <3>1, <3>2, <3>3 DEF Threads, Listed, On, Exists
  <2> QED
    BY <2>2, <2>3
<1> HIDE DEF h
<1>5. RequestOk(r)'
  BY <1>0, <1>2, <1>3, <1>4
     DEF RequestOk, CreateOk, ChangeOk, ListOk, At, Exists
<1> QED
  BY <1>0, <1>1, <1>5, ReadKeeps

LEMMA EndKeeps ==
    ASSUME Inv, NEW r \in Requests, End(r)
    PROVE  Inv'
<1>1. request'[r] = Idle
  BY DEF End, To, Inv, TypeOK
<1> QED
  BY <1>1, IdleIsOk, IdleIsHandler, ReadKeeps DEF End

-----------------------------------------------------------------------------
(* Steps that write *)

(* Whoever waits keeps what it knows when the rows are steady. *)
LEMMA OthersKept ==
    ASSUME Inv, AllSteady, NEW r \in Requests, NEW h \in Handlers, To(r, h), RequestOk(r)'
    PROVE  \A q \in Requests : RequestOk(q)'
<1> SUFFICES ASSUME NEW q \in Requests, q # r PROVE RequestOk(q)'
  OBVIOUS
<1>1. request'[q] = request[q]
  BY DEF To, Inv, TypeOK
<1> QED
  BY <1>1, RequestKept DEF Inv

(* The notices of a new comment go to its audience, each once. *)
LEMMA NoticesToAudience ==
    ASSUME NEW h \in Handlers, h.card \in Cards, h.user \in Users, NEW c \in CommentIds
    PROVE  /\ Notices(h, c) \subseteq Notifications
           /\ \A n \in Notices(h, c) : n.comment = c /\ n.card = h.card
           /\ \A n, m \in Notices(h, c) : n.user = m.user => n = m
           /\ {n.user : n \in Notices(h, c)} = {h.parentAuthor, Owner[h.card]} \ {h.user, None}
<1>1. h.parentAuthor \in Users \cup {None} /\ Owner[h.card] \in Users
  BY DEF Handlers
<1> DEFINE told == {h.parentAuthor, Owner[h.card]} \ {h.user, None}
           notice(u) == [user |-> u, comment |-> c, card |-> h.card,
                         kind |-> IF u = h.parentAuthor THEN "comment_reply" ELSE "comment"]
<1>2. told \subseteq Users
  BY <1>1
<1>3. Notices(h, c) = {notice(u) : u \in told}
  BY DEF Notices
<1>4. \A u \in told : notice(u) \in Notifications /\ notice(u).user = u
                      /\ notice(u).comment = c /\ notice(u).card = h.card
  BY <1>2 DEF Notifications
<1> HIDE DEF notice, told
<1>5. {n.user : n \in Notices(h, c)} = told
  BY <1>3, <1>4
<1>6. \A n, m \in Notices(h, c) : n.user = m.user => n = m
  BY <1>3, <1>4
<1> QED
  BY <1>3, <1>4, <1>5, <1>6 DEF told

LEMMA CreateCommentKeeps ==
    ASSUME Inv, NEW r \in Requests, CreateComment(r)
    PROVE  Inv'
<1>0. PICK h \in Handlers : h = request[r]
  BY DEF Inv, TypeOK
<1>1. PICK c \in CommentIds :
        /\ comments[c] = None
        /\ comments' = [comments EXCEPT ![c] =
              [card |-> h.card, parent |-> h.parent,
               author |-> h.user, words |-> h.user, deleted |-> FALSE]]
        /\ inbox' = inbox \cup Notices(h, c)
        /\ To(r, [h EXCEPT !.stage = "committed", !.comment = c])
  BY <1>0 DEF CreateComment
<1> DEFINE row == [card |-> h.card, parent |-> h.parent,
                   author |-> h.user, words |-> h.user, deleted |-> FALSE]
<1>2. /\ h.kind = "create" /\ h.stage = "checked" /\ h.card \in cards
      /\ cards' = cards /\ cards \subseteq Cards /\ RequestOk(r)
      /\ comments \in [CommentIds -> Rows \cup {None, Gone}]
      /\ request \in [Requests -> Handlers] /\ inbox \subseteq Notifications
  BY <1>0 DEF CreateComment, At, Inv, TypeOK
<1>3. h.user \in Users /\ h.card \in Cards
  BY <1>0, <1>2 DEF RequestOk
<1>4. row \in Rows /\ row \notin {None, Gone}
  BY <1>0, <1>3 DEF Handlers, Rows
<1>5. /\ comments'[c] = row
      /\ \A d \in CommentIds \ {c} : comments'[d] = comments[d]
      /\ ~Exists(c) /\ Exists(c)'
      /\ \A d \in CommentIds \ {c} : Exists(d)' <=> Exists(d)
  BY <1>1, <1>2, <1>4 DEF Exists
<1>6. AllSteady
  <2> SUFFICES ASSUME NEW d \in CommentIds PROVE Steady(d)
    BY <1>2 DEF AllSteady
  <2> QED
    BY <1>1, <1>5 DEF Steady
<1>7. \A q \in Requests : RequestOk(q)'
  <2> DEFINE g == [h EXCEPT !.stage = "committed", !.comment = c]
  <2>1. g \in Handlers
    BY <1>0 DEF Handlers
  <2>2. request'[r] = g
    BY <1>1, <1>2 DEF To
  <2>3. /\ g.kind = "create" /\ g.stage = "committed" /\ g.user = h.user
        /\ g.card = h.card /\ g.parent = h.parent /\ g.parentAuthor = h.parentAuthor
    BY <1>0, <1>2 DEF Handlers
  <2> HIDE DEF g
  <2>4. h.parent # None => h.parent # c /\ h.parent \in CommentIds
    BY <1>0, <1>1, <1>2 DEF RequestOk, CreateOk
  <2>5. CreateOk(r)'
    BY <1>0, <1>2, <1>5, <2>2, <2>3, <2>4 DEF RequestOk, CreateOk
  <2>6. RequestOk(r)'
    BY <1>3, <2>2, <2>3, <2>5 DEF RequestOk, ChangeOk, ListOk, At
  <2> QED
    BY <1>1, <1>6, <2>1, <2>6, OthersKept DEF g
<1>8. h.parent # None =>
        /\ h.parent \in CommentIds \ {c} /\ Exists(h.parent)
        /\ comments[h.parent].card = h.card /\ comments[h.parent].parent = None
        /\ comments[h.parent].author = h.parentAuthor
  BY <1>0, <1>1, <1>2 DEF RequestOk, CreateOk
<1>9. \A d \in CommentIds : Exists(d) /\ comments[d].parent # None =>
        comments[d].parent \in CommentIds \ {c}
  BY <1>2, <1>5 DEF Inv, TwoLevels, Exists, Rows
<1>10. TwoLevels'
  <2> SUFFICES ASSUME NEW d \in CommentIds, Exists(d)', comments'[d].parent # None
               PROVE  (LET p == comments[d].parent
                       IN  Exists(p) /\ comments[p].parent = None
                             /\ comments[p].card = comments[d].card)'
    BY DEF TwoLevels
  <2>1. CASE d = c
    BY <1>5, <1>8, <2>1
  <2>2. CASE d # c
    BY <1>5, <1>9, <2>2 DEF Inv, TwoLevels
  <2> QED
    BY <2>1, <2>2
<1>11. /\ Notices(h, c) \subseteq Notifications
       /\ \A n \in Notices(h, c) : n.comment = c /\ n.card = h.card
       /\ \A n, m \in Notices(h, c) : n.user = m.user => n = m
       /\ {n.user : n \in Notices(h, c)} = {h.parentAuthor, Owner[h.card]} \ {h.user, None}
  BY <1>3, NoticesToAudience
<1>12. \A n \in inbox : n.comment \in CommentIds \ {c} /\ Exists(n.comment)
  BY <1>2, <1>5 DEF Inv, ToldOnce, Notifications
<1>13. RowsOk'
  <2>1. \A d \in CommentIds : Exists(d)' => comments'[d].card \in cards'
    BY <1>2, <1>5 DEF Inv, RowsOk
  <2>2. \A n \in inbox' : n.card = comments'[n.comment].card
    BY <1>1, <1>5, <1>11, <1>12 DEF Inv, RowsOk
  <2> QED
    BY <2>1, <2>2 DEF RowsOk
<1>14. OwnWordsOrNone'
  BY <1>5 DEF Inv, OwnWordsOrNone
<1>15. ToldOnce'
  <2>1. \A n \in inbox' : Exists(n.comment)'
    BY <1>1, <1>5, <1>11, <1>12
  <2>2. ASSUME NEW d \in CommentIds, Exists(d)'
        PROVE  /\ \A n, m \in inbox' :
                    n.comment = d /\ m.comment = d /\ n.user = m.user => n = m
               /\ {n.user : n \in {m \in inbox' : m.comment = d}} = Audience(d)'
    <3>1. CASE d = c
      <4>1. {m \in inbox' : m.comment = c} = Notices(h, c)
        BY <1>1, <1>11, <1>12
      <4>2. Audience(c)' = ({Owner[h.card]} \cup (IF h.parent = None THEN {}
                              ELSE {h.parentAuthor})) \ {h.user}
        BY <1>5, <1>8 DEF Audience
      <4>3. h.parent = None => h.parentAuthor = None
        BY <1>0, <1>2 DEF RequestOk, CreateOk
      <4>4. None \notin Users /\ Owner[h.card] \in Users /\ h.parentAuthor \in Users \cup {None}
        BY <1>3 DEF Handlers
      <4>5. h.parent # None => h.parentAuthor # None
        BY <1>2, <1>8, <4>4 DEF Exists, Rows
      <4>6. Audience(c)' = {h.parentAuthor, Owner[h.card]} \ {h.user, None}
        BY <4>2, <4>3, <4>4, <4>5
      <4>7. \A n, m \in inbox' : n.comment = c /\ m.comment = c /\ n.user = m.user => n = m
        BY <1>11, <4>1
      <4> QED
        BY <1>11, <3>1, <4>1, <4>6, <4>7
    <3>2. CASE d # c
      <4>1. {m \in inbox' : m.comment = d} = {m \in inbox : m.comment = d}
        BY <1>1, <1>11, <3>2
      <4>2. Exists(d) /\ comments'[d] = comments[d]
        BY <1>5, <2>2, <3>2
      <4>3. comments[d].parent # None =>
              comments'[comments[d].parent] = comments[comments[d].parent]
        BY <1>5, <1>9, <4>2
      <4>4. Audience(d)' = Audience(d)
        BY <4>2, <4>3 DEF Audience
      <4>5. \A n, m \in inbox : n.comment = d /\ m.comment = d /\ n.user = m.user => n = m
        BY <4>2 DEF Inv, ToldOnce
      <4>6. {n.user : n \in {m \in inbox : m.comment = d}} = Audience(d)
        BY <4>2 DEF Inv, ToldOnce
      <4> QED
        BY <4>1, <4>4, <4>5, <4>6
    <3> QED
      BY <3>1, <3>2
  <2> QED
    BY <2>1, <2>2 DEF ToldOnce
<1>16. TypeOK'
  <2>1. [h EXCEPT !.stage = "committed", !.comment = c] \in Handlers
    BY <1>0 DEF Handlers
  <2> QED
    BY <1>1, <1>2, <1>4, <1>11, <2>1 DEF TypeOK, To
<1> QED
  BY <1>7, <1>10, <1>13, <1>14, <1>15, <1>16 DEF Inv

(* An UPDATE of one row that changes neither card, parent nor author keeps *)
(* everything that is known of it.                                         *)
LEMMA RewriteKeeps ==
    ASSUME Inv, NEW r \in Requests, NEW h \in Handlers, NEW c \in CommentIds, NEW row,
           Rewrite(c, row), UNCHANGED <<cards, inbox>>, To(r, h),
           Exists(c) =>
             /\ row \in Rows
             /\ row.card = comments[c].card /\ row.parent = comments[c].parent
             /\ row.author = comments[c].author
             /\ row.words = IF row.deleted THEN None ELSE row.author,
           AllSteady => RequestOk(r)'
    PROVE  Inv'
<1>0. comments \in [CommentIds -> Rows \cup {None, Gone}] /\ inbox \subseteq Notifications
  BY DEF Inv, TypeOK
<1>1. /\ \A d \in CommentIds \ {c} : comments'[d] = comments[d]
      /\ comments'[c] = IF Exists(c) THEN row ELSE comments[c]
      /\ comments' \in [CommentIds -> Rows \cup {None, Gone}]
  BY <1>0 DEF Rewrite
<1>2. row \in Rows => row \notin {None, Gone}
  BY DEF Rows
<1>3. \A d \in CommentIds : Exists(d)' <=> Exists(d)
  BY <1>1, <1>2 DEF Exists
<1>4. \A d \in CommentIds : Exists(d) =>
        /\ comments'[d].card = comments[d].card
        /\ comments'[d].parent = comments[d].parent
        /\ comments'[d].author = comments[d].author
  BY <1>1
<1>5. AllSteady
  <2> SUFFICES ASSUME NEW d \in CommentIds PROVE Steady(d)
    BY DEF AllSteady
  <2>1. comments[d] # None => comments'[d] # None
    BY <1>1, <1>2
  <2>2. comments[d] # None /\ Exists(d)' => Exists(d)
    BY <1>3
  <2> QED
    BY <1>3, <1>4, <2>1, <2>2 DEF Steady
<1>6. \A q \in Requests : RequestOk(q)'
  BY <1>5, OthersKept
<1>7. RowsOk'
  BY <1>0, <1>3, <1>4 DEF Inv, RowsOk, ToldOnce, Notifications
<1>8. \A d \in CommentIds : Exists(d) /\ comments[d].parent # None =>
        /\ comments[d].parent \in CommentIds /\ Exists(comments[d].parent)
        /\ comments[comments[d].parent].parent = None
        /\ comments[comments[d].parent].card = comments[d].card
  BY <1>0 DEF Inv, TwoLevels, Exists, Rows
<1>9. TwoLevels'
  <2> SUFFICES ASSUME NEW d \in CommentIds, Exists(d)', comments'[d].parent # None
               PROVE  (LET p == comments[d].parent
                       IN  Exists(p) /\ comments[p].parent = None
                             /\ comments[p].card = comments[d].card)'
    BY DEF TwoLevels
  <2> QED
    BY <1>3, <1>4, <1>8
<1>10. OwnWordsOrNone'
  BY <1>1, <1>3 DEF Inv, OwnWordsOrNone
<1>11. \A d \in CommentIds : Exists(d) => Audience(d)' = Audience(d)
  BY <1>4, <1>8 DEF Audience
<1>12. ToldOnce'
  BY <1>0, <1>3, <1>11 DEF Inv, ToldOnce, Notifications
<1>13. TypeOK'
  BY <1>1 DEF Inv, TypeOK, To
<1> QED
  BY <1>6, <1>7, <1>9, <1>10, <1>12, <1>13 DEF Inv

LEMMA UpdateCommentKeeps ==
    ASSUME Inv, NEW r \in Requests, UpdateComment(r)
    PROVE  Inv'
<1>0. PICK h \in Handlers : h = request[r]
  BY DEF Inv, TypeOK
<1>1. /\ h.kind = "edit" /\ h.stage = "checked" /\ RequestOk(r)
      /\ comments \in [CommentIds -> Rows \cup {None, Gone}]
      /\ request \in [Requests -> Handlers]
  BY <1>0 DEF UpdateComment, At, Inv, TypeOK
<1>2. PICK c \in CommentIds : c = h.comment
  BY <1>0, <1>1 DEF RequestOk, ChangeOk
<1>3. h.user \in Users /\ h.card \in Cards /\ (Exists(c) => comments[c].author = h.user)
  BY <1>0, <1>1, <1>2 DEF RequestOk, ChangeOk, MayAct
<1>4. PICK row : row = Edited(comments[c], h.user)
  OBVIOUS
<1>5. ASSUME Exists(c)
      PROVE  /\ row \in Rows
             /\ row.card = comments[c].card /\ row.parent = comments[c].parent
             /\ row.author = comments[c].author
             /\ row.words = IF row.deleted THEN None ELSE row.author
  <2>1. comments[c] \in Rows
    BY <1>1, <1>5 DEF Exists
  <2>2. comments[c].words = IF comments[c].deleted THEN None ELSE comments[c].author
    BY <1>5 DEF Inv, OwnWordsOrNone
  <2> QED
    BY <1>3, <1>4, <1>5, <2>1, <2>2 DEF Edited, Rows
<1> DEFINE g == [h EXCEPT !.stage = "committed"]
<1>6. g \in Handlers
  BY <1>0 DEF Handlers
<1>7. g.kind = "edit" /\ g.stage = "committed" /\ g.user = h.user /\ g.card = h.card
  BY <1>0, <1>1 DEF Handlers
<1> HIDE DEF g
<1>8. request'[r] = g /\ To(r, g) /\ Rewrite(c, row) /\ UNCHANGED <<cards, inbox>>
  BY <1>0, <1>1, <1>2, <1>4 DEF UpdateComment, To, g
<1>9. RequestOk(r)'
  BY <1>3, <1>7, <1>8 DEF RequestOk, CreateOk, ChangeOk, ListOk, At
<1> QED
  BY <1>5, <1>6, <1>8, <1>9, RewriteKeeps

LEMMA SoftDeleteCommentKeeps ==
    ASSUME Inv, NEW r \in Requests, SoftDeleteComment(r)
    PROVE  Inv'
<1>1. /\ request[r].kind = "delete" /\ request[r].stage = "checked" /\ RequestOk(r)
      /\ comments \in [CommentIds -> Rows \cup {None, Gone}]
      /\ request \in [Requests -> Handlers]
  BY DEF SoftDeleteComment, At, Inv, TypeOK
<1>2. PICK c \in CommentIds : c = request[r].comment
  BY <1>1 DEF RequestOk, ChangeOk
<1>3. PICK row : row = Erased(comments[c])
  OBVIOUS
<1>4. ASSUME Exists(c)
      PROVE  /\ row \in Rows
             /\ row.card = comments[c].card /\ row.parent = comments[c].parent
             /\ row.author = comments[c].author
             /\ row.words = IF row.deleted THEN None ELSE row.author
  <2>1. comments[c] \in Rows
    BY <1>1, <1>4 DEF Exists
  <2> QED
    BY <1>3, <2>1 DEF Erased, Rows
<1>5. request'[r] = Idle /\ To(r, Idle) /\ Rewrite(c, row) /\ UNCHANGED <<cards, inbox>>
  BY <1>1, <1>2, <1>3 DEF SoftDeleteComment, To
<1> QED
  BY <1>4, <1>5, IdleIsOk, IdleIsHandler, RewriteKeeps

(* A card takes its comments along, replies with their threads, and their  *)
(* notifications; the others notice nothing.                               *)
LEMMA DeleteConnectorKeeps ==
    ASSUME Inv, NEW k \in Cards, DeleteConnector(k)
    PROVE  Inv'
<1>0. /\ comments \in [CommentIds -> Rows \cup {None, Gone}] /\ inbox \subseteq Notifications
      /\ cards \subseteq Cards /\ cards' = cards \ {k} /\ request' = request
      /\ inbox' = {n \in inbox : n.card # k}
      /\ comments' = [c \in CommentIds |-> IF c \in On(k) THEN Gone ELSE comments[c]]
  BY DEF Inv, TypeOK, DeleteConnector
<1>1. /\ \A c \in CommentIds : Exists(c)' <=> Exists(c) /\ comments[c].card # k
      /\ \A c \in CommentIds : Exists(c)' => comments'[c] = comments[c]
      /\ \A c \in CommentIds : comments'[c] = None <=> comments[c] = None
  BY <1>0 DEF Exists, On
<1>2. AllSteady
  BY <1>0, <1>1 DEF AllSteady, Steady
<1>3. \A q \in Requests : RequestOk(q)'
  BY <1>0, <1>2, RequestKept DEF Inv
<1>4. \A n \in inbox : n.comment \in CommentIds /\ Exists(n.comment)
                       /\ n.card = comments[n.comment].card
  BY <1>0 DEF Inv, RowsOk, ToldOnce, Notifications
<1>5. \A n \in inbox : n \in inbox' <=> Exists(n.comment)'
  BY <1>0, <1>1, <1>4
<1>6. RowsOk'
  BY <1>0, <1>1, <1>4 DEF Inv, RowsOk
<1>7. \A c \in CommentIds : Exists(c)' /\ comments[c].parent # None =>
        /\ comments[c].parent \in CommentIds /\ Exists(comments[c].parent)'
        /\ comments[comments[c].parent].parent = None
        /\ comments[comments[c].parent].card = comments[c].card
        /\ comments'[comments[c].parent] = comments[comments[c].parent]
  BY <1>0, <1>1 DEF Inv, TwoLevels, Exists, Rows
<1>8. TwoLevels'
  BY <1>1, <1>7 DEF TwoLevels
<1>9. OwnWordsOrNone'
  BY <1>1 DEF Inv, OwnWordsOrNone
<1>10. ToldOnce'
  <2>1. \A n \in inbox' : Exists(n.comment)'
    BY <1>0, <1>5
  <2>2. ASSUME NEW c \in CommentIds, Exists(c)'
        PROVE  /\ \A n, m \in inbox' :
                    n.comment = c /\ m.comment = c /\ n.user = m.user => n = m
               /\ {n.user : n \in {m \in inbox' : m.comment = c}} = Audience(c)'
    <3>1. Exists(c) /\ comments'[c] = comments[c]
      BY <1>1, <2>2
    <3>2. {m \in inbox' : m.comment = c} = {m \in inbox : m.comment = c}
      BY <1>0, <1>5, <2>2
    <3>3. Audience(c)' = Audience(c)
      BY <1>7, <2>2, <3>1 DEF Audience
    <3>4. \A n, m \in inbox : n.comment = c /\ m.comment = c /\ n.user = m.user => n = m
      BY <3>1 DEF Inv, ToldOnce
    <3>5. {n.user : n \in {m \in inbox : m.comment = c}} = Audience(c)
      BY <3>1 DEF Inv, ToldOnce
    <3> QED
      BY <3>2, <3>3, <3>4, <3>5
  <2> QED
    BY <2>1, <2>2 DEF ToldOnce
<1>11. TypeOK'
  BY <1>0 DEF Inv, TypeOK
<1> QED
  BY <1>3, <1>6, <1>8, <1>9, <1>10, <1>11 DEF Inv

-----------------------------------------------------------------------------
(* The invariant *)

LEMMA InitInv == Init => Inv
<1> SUFFICES ASSUME Init PROVE Inv
  OBVIOUS
<1>1. \A c \in CommentIds : ~Exists(c)
  BY DEF Init, Exists
<1>2. TypeOK
  BY IdleIsHandler DEF Init, TypeOK
<1>3. \A r \in Requests : RequestOk(r)
  BY DEF Init, RequestOk, CreateOk, ChangeOk, ListOk, At, Idle
<1>4. RowsOk /\ TwoLevels /\ OwnWordsOrNone /\ ToldOnce
  BY <1>1 DEF Init, RowsOk, TwoLevels, OwnWordsOrNone, ToldOnce
<1> QED
  BY <1>2, <1>3, <1>4 DEF Inv

LEMMA NextInv == Inv /\ [Next]_discussionVars => Inv'
<1> SUFFICES ASSUME Inv, [Next]_discussionVars PROVE Inv'
  OBVIOUS
<1>1. CASE UNCHANGED discussionVars
  BY <1>1, RowsKept, UnchangedIsSteady, RequestKept DEF discussionVars, Inv, TypeOK
<1>2. ASSUME NEW k \in Cards, DeleteConnector(k) PROVE Inv'
  BY <1>2, DeleteConnectorKeeps
<1>3. ASSUME NEW r \in Requests, NEW kind \in {"create", "edit", "delete", "list"}, Open(r, kind)
      PROVE  Inv'
  BY <1>3, OpenKeeps
<1>4. ASSUME NEW r \in Requests, CheckParent(r) PROVE Inv'
  BY <1>4, CheckParentKeeps
<1>5. ASSUME NEW r \in Requests, CreateComment(r) PROVE Inv'
  BY <1>5, CreateCommentKeeps
<1>6. ASSUME NEW r \in Requests, CheckComment(r) PROVE Inv'
  BY <1>6, CheckCommentKeeps
<1>7. ASSUME NEW r \in Requests, UpdateComment(r) PROVE Inv'
  BY <1>7, UpdateCommentKeeps
<1>8. ASSUME NEW r \in Requests, SoftDeleteComment(r) PROVE Inv'
  BY <1>8, SoftDeleteCommentKeeps
<1>9. ASSUME NEW r \in Requests, ListRoots(r) PROVE Inv'
  BY <1>9, ListRootsKeeps
<1>10. ASSUME NEW r \in Requests, End(r) PROVE Inv'
  BY <1>10, EndKeeps
<1> QED
  BY <1>1, <1>2, <1>3, <1>4, <1>5, <1>6, <1>7, <1>8, <1>9, <1>10 DEF Next

LEMMA InvHolds == Spec => []Inv
BY InitInv, NextInv, PTL DEF Spec

-----------------------------------------------------------------------------
(* Type correctness *)
THEOREM TypeCorrect == Spec => []TypeOK
BY InvHolds, PTL DEF Inv

(* The screen's two levels are kept by any number of writers, deletions of *)
(* comments and of cards included (social_router.py:83-99).                *)
THEOREM ThreadsHaveTwoLevels == Spec => []TwoLevels
BY InvHolds, PTL DEF Inv

(* Words stay their author's and erased words stay erased, whatever edit   *)
(* was checked before the deletion (social.py:165-187).                    *)
THEOREM WordsStayOwn == Spec => []OwnWordsOrNone
BY InvHolds, PTL DEF Inv

(* Owner and parent's author hear of every comment once, nobody hears of a *)
(* comment that is not there (social_router.py:101-125).                   *)
THEOREM EverybodyToldOnce == Spec => []ToldOnce
BY InvHolds, PTL DEF Inv

(* A listing in two statements loses nothing that stayed (social.py:38-39).*)
THEOREM ListingsAreComplete == Spec => []ListingLosesNothing
<1>1. Inv => ListingLosesNothing
  <2> SUFFICES ASSUME Inv, NEW r \in Requests, At(r, "list", "listing"),
                      NEW c \in request[r].known, Live(c)
               PROVE  c \in request[r].roots \cup Replies(r)
    BY DEF ListingLosesNothing
  <2>1. request[r] \in Handlers /\ RequestOk(r)
    BY DEF Inv, TypeOK
  <2>2. c \in CommentIds
    BY <2>1 DEF Handlers
  <2> QED
    BY <2>1, <2>2 DEF RequestOk, ListOk, Live, Replies
<1> QED
  BY <1>1, InvHolds, PTL

(* A comment goes only by its author, a moderator or with its card         *)
(* (social.py:175-187, mutations.py:120).                                  *)
THEOREM OthersAreSpared == Spec => DeletionSparesOthers
<1> DEFINE Spared(c) ==
      Live(c) /\ ~Live(c)' /\ cards' = cards =>
         \E r \in Requests :
           /\ At(r, "delete", "checked") /\ request[r].comment = c
           /\ request[r].user \in {comments[c].author} \cup Moderators
<1>1. Inv /\ [Next]_discussionVars => [\A c \in CommentIds : Spared(c)]_discussionVars
  <2> SUFFICES ASSUME Inv, Next, NEW c \in CommentIds, Live(c), ~Live(c)', cards' = cards
               PROVE  \E r \in Requests :
                        /\ At(r, "delete", "checked") /\ request[r].comment = c
                        /\ request[r].user \in {comments[c].author} \cup Moderators
    OBVIOUS
  <2>0. comments \in [CommentIds -> Rows \cup {None, Gone}]
    BY DEF Inv, TypeOK
  <2>1. CASE UNCHANGED comments
    BY <2>1 DEF Live, Exists
  <2>2. ASSUME NEW k \in Cards, DeleteConnector(k) PROVE FALSE
    BY <2>2 DEF DeleteConnector
  <2>3. ASSUME NEW r \in Requests, CreateComment(r) PROVE FALSE
    <3>1. PICK d \in CommentIds :
            /\ comments[d] = None
            /\ comments' = [comments EXCEPT ![d] =
                 [card |-> request[r].card, parent |-> request[r].parent,
                  author |-> request[r].user, words |-> request[r].user, deleted |-> FALSE]]
      BY <2>3 DEF CreateComment
    <3>2. c # d
      BY <3>1 DEF Live, Exists
    <3> QED
      BY <2>0, <3>1, <3>2 DEF Live, Exists
  <2>4. ASSUME NEW r \in Requests, UpdateComment(r) PROVE FALSE
    <3>1. PICK d : d = request[r].comment
      OBVIOUS
    <3>2. comments' = [comments EXCEPT ![d] =
             IF Exists(d) THEN Edited(comments[d], request[r].user) ELSE @]
      BY <2>4, <3>1 DEF UpdateComment, Rewrite
    <3>3. CASE c = d
      <4>1. comments[c] \in Rows /\ ~comments[c].deleted
        BY <2>0 DEF Live, Exists
      <4>2. comments'[c] = [comments[c] EXCEPT !.words = request[r].user]
        BY <2>0, <3>2, <3>3, <4>1 DEF Live, Edited
      <4>3. comments'[c] \in [card : Cards, parent : CommentIds \cup {None}, author : Users,
                              words : Users \cup {None}, deleted : BOOLEAN]
            /\ comments'[c].deleted = comments[c].deleted
        <5>1. RequestOk(r) /\ At(r, "edit", "checked")
          BY <2>4 DEF Inv, UpdateComment
        <5>2. request[r].user \in Users
          BY <5>1 DEF RequestOk, At
        <5> QED
          BY <4>1, <4>2, <5>2 DEF Rows
      <4> QED
        BY <4>1, <4>3 DEF Live, Exists
    <3>4. CASE c # d
      BY <2>0, <3>2, <3>4 DEF Live, Exists
    <3> QED
      BY <3>3, <3>4
  <2>5. ASSUME NEW r \in Requests, SoftDeleteComment(r)
        PROVE  /\ At(r, "delete", "checked") /\ request[r].comment = c
               /\ request[r].user \in {comments[c].author} \cup Moderators
    <3>1. RequestOk(r) /\ At(r, "delete", "checked")
      BY <2>5 DEF Inv, SoftDeleteComment
    <3>2. request[r].comment \in CommentIds
      BY <3>1 DEF RequestOk, ChangeOk, At
    <3>3. c = request[r].comment
      BY <2>0, <2>5, <3>2 DEF SoftDeleteComment, Rewrite, Live, Exists
    <3> QED
      BY <3>1, <3>3 DEF RequestOk, ChangeOk, At, MayAct, Live
  <2> QED
    BY <2>1, <2>2, <2>3, <2>4, <2>5
       DEF Next, Open, CheckParent, CheckComment, ListRoots, End
<1> QED
  BY <1>1, InvHolds, PTL DEF Spec, DeletionSparesOthers

-----------------------------------------------------------------------------
(***************************************************************************)
(* Refinement.  A visitor of Forum is there while a handler has not yet    *)
(* written: what it has checked by then is part of Inv, so the write is    *)
(* one that Forum allows at that moment.                                   *)
(***************************************************************************)
VisitOf(h) ==
    IF h.stage \in {"opened", "checked"}
    THEN [user |-> h.user, card |-> h.card, purpose |-> h.kind]
    ELSE [user |-> None, card |-> None, purpose |-> "none"]

(* One request goes on to h, all others are where they were. *)
LEMMA OneVisit ==
    ASSUME TypeOK, NEW r \in Requests, NEW h, To(r, h)
    PROVE  [q \in Requests |-> Visit(q)]' =
             [[q \in Requests |-> Visit(q)] EXCEPT ![r] = VisitOf(h)]
<1>1. \A q \in Requests : request'[q] = IF q = r THEN h ELSE request[q]
  BY DEF To, TypeOK
<1>2. \A q \in Requests : Visit(q)' = IF q = r THEN VisitOf(h) ELSE Visit(q)
  BY <1>1 DEF Visit, VisitOf
<1> QED
  BY <1>2

LEMMA GoneIsLeft ==
    ASSUME TypeOK, NEW r \in Requests, NEW h, To(r, h), h.stage \notin {"opened", "checked"}
    PROVE  Table!Leaves(r)
<1>1. VisitOf(h) = Table!Nobody
  BY DEF VisitOf, Table!Nobody, Table!Visitor
<1> QED
  BY <1>1, OneVisit DEF Table!Leaves

LEMMA StillThere ==
    ASSUME TypeOK, NEW r \in Requests, NEW h, To(r, h), VisitOf(h) = Visit(r),
           UNCHANGED <<cards, comments, inbox>>
    PROVE  UNCHANGED Table!forumVars
BY OneVisit DEF Table!forumVars

LEMMA OpenRefines ==
    ASSUME Inv, NEW r \in Requests, NEW kind \in {"create", "edit", "delete", "list"}, Open(r, kind)
    PROVE  Table!Come(r)
<1>1. PICK u \in Users, k \in cards :
        To(r, [Idle EXCEPT !.kind = kind, !.stage = "opened", !.user = u, !.card = k])
  BY DEF Open
<1>2. VisitOf([Idle EXCEPT !.kind = kind, !.stage = "opened", !.user = u, !.card = k])
        = [user |-> u, card |-> k, purpose |-> kind]
  BY DEF VisitOf, Idle
<1>3. [q \in Requests |-> Visit(q)]' =
        [[q \in Requests |-> Visit(q)] EXCEPT ![r] = [user |-> u, card |-> k, purpose |-> kind]]
  BY <1>1, <1>2, OneVisit DEF Inv
<1>4. Visit(r) = Table!Nobody
  BY DEF Open, Visit, Table!Nobody, Table!Visitor
<1> DEFINE v == [q \in Requests |-> Visit(q)]
<1>5. v'[r] = [user |-> u, card |-> k, purpose |-> kind]
  BY <1>3
<1>6. v'[r] \in [user : Users, card : cards, purpose : {"create", "edit", "delete", "list"}]
  BY <1>5
<1>7. v' = [v EXCEPT ![r] = v'[r]] /\ v[r] = Table!Nobody
  BY <1>3, <1>4, <1>5
<1> QED
  BY <1>6, <1>7 DEF Table!Come, Open

LEMMA CheckParentRefines ==
    ASSUME Inv, NEW r \in Requests, CheckParent(r)
    PROVE  UNCHANGED Table!forumVars
<1>0. request[r] \in Handlers /\ At(r, "create", "opened") /\ UNCHANGED <<cards, comments, inbox>>
  BY DEF Inv, TypeOK, CheckParent
<1>1. PICK p \in CommentIds \cup {None} : \E a :
        To(r, [request[r] EXCEPT !.stage = "checked", !.parent = p, !.parentAuthor = a])
  <2>1. request[r] = [request[r] EXCEPT !.parent = request[r].parent,
                                        !.parentAuthor = request[r].parentAuthor]
    BY <1>0 DEF Handlers
  <2>2. [request[r] EXCEPT !.stage = "checked"] =
          [request[r] EXCEPT !.stage = "checked", !.parent = request[r].parent,
                             !.parentAuthor = request[r].parentAuthor]
    BY <1>0 DEF Handlers
  <2>3. request[r].parent \in CommentIds \cup {None}
    BY <1>0 DEF Handlers
  <2> QED
    BY <2>2, <2>3 DEF CheckParent
<1>2. PICK a : To(r, [request[r] EXCEPT !.stage = "checked", !.parent = p, !.parentAuthor = a])
  BY <1>1
<1>3. VisitOf([request[r] EXCEPT !.stage = "checked", !.parent = p, !.parentAuthor = a]) = Visit(r)
  BY <1>0 DEF VisitOf, Visit, At, Handlers
<1> QED
  BY <1>0, <1>2, <1>3, StillThere DEF Inv

LEMMA CheckCommentRefines ==
    ASSUME Inv, NEW r \in Requests, CheckComment(r)
    PROVE  UNCHANGED Table!forumVars
<1>0. request[r] \in Handlers /\ request[r].stage = "opened" /\ UNCHANGED <<cards, comments, inbox>>
  BY DEF Inv, TypeOK, CheckComment
<1>1. PICK c : To(r, [request[r] EXCEPT !.stage = "checked", !.comment = c])
  BY DEF CheckComment
<1>2. VisitOf([request[r] EXCEPT !.stage = "checked", !.comment = c]) = Visit(r)
  BY <1>0 DEF VisitOf, Visit, Handlers
<1> QED
  BY <1>0, <1>1, <1>2, StillThere DEF Inv

(* The notices of a handler whose parent has been checked are those Forum  *)
(* sends for an answer to that parent's author.                            *)
LEMMA CreateRefines ==
    ASSUME Inv, NEW r \in Requests, CreateComment(r)
    PROVE  Table!Post(r)
<1>0. PICK h \in Handlers : h = request[r]
  BY DEF Inv, TypeOK
<1>1. PICK c \in CommentIds :
        /\ comments[c] = None
        /\ comments' = [comments EXCEPT ![c] =
              [card |-> h.card, parent |-> h.parent,
               author |-> h.user, words |-> h.user, deleted |-> FALSE]]
        /\ inbox' = inbox \cup Notices(h, c)
        /\ To(r, [h EXCEPT !.stage = "committed", !.comment = c])
  BY <1>0 DEF CreateComment
<1>2. /\ h.kind = "create" /\ h.stage = "checked" /\ h.card \in cards /\ cards' = cards
      /\ RequestOk(r) /\ TypeOK
  BY <1>0 DEF CreateComment, At, Inv
<1>3. /\ Visit(r).purpose = "create" /\ Visit(r).card = h.card /\ Visit(r).user = h.user
  BY <1>0, <1>2 DEF Visit
<1>4. Table!Leaves(r)
  <2> DEFINE g == [h EXCEPT !.stage = "committed", !.comment = c]
  <2>1. g.stage = "committed" /\ To(r, g)
    BY <1>0, <1>1 DEF Handlers
  <2> HIDE DEF g
  <2> QED
    BY <1>2, <2>1, GoneIsLeft
<1>5. comments' = [comments EXCEPT ![c] = Table!Comment(h.card, h.parent, h.user)]
  BY <1>1 DEF Table!Comment
<1>6. Notices(h, c) = Table!Told(c, h.card, h.parentAuthor, h.user)
  BY DEF Notices, Table!Told
<1>7. CASE h.parent = None
  <2>1. h.parentAuthor = None
    BY <1>0, <1>2, <1>7 DEF RequestOk, CreateOk
  <2> QED
    BY <1>1, <1>2, <1>3, <1>4, <1>5, <1>6, <1>7, <2>1 DEF Table!Post
<1>8. CASE h.parent # None
  <2>1. PICK p \in CommentIds : p = h.parent
    BY <1>0, <1>8 DEF Handlers
  <2>2. /\ Exists(p) /\ comments[p].card = h.card /\ comments[p].parent = None
        /\ comments[p].author = h.parentAuthor
    BY <1>0, <1>2, <1>8, <2>1 DEF RequestOk, CreateOk
  <2>3. Table!OnTheSpot(r, p)
    BY <1>3, <2>2 DEF Table!OnTheSpot, Table!Stands, Exists
  <2> QED
    BY <1>1, <1>2, <1>3, <1>4, <1>5, <1>6, <2>1, <2>2, <2>3 DEF Table!Post
<1> QED
  BY <1>7, <1>8

LEMMA UpdateRefines ==
    ASSUME Inv, NEW r \in Requests, UpdateComment(r)
    PROVE  Table!Edit(r) \/ Table!Leave(r)
<1>0. PICK h \in Handlers : h = request[r]
  BY DEF Inv, TypeOK
<1>1. /\ h.kind = "edit" /\ h.stage = "checked" /\ RequestOk(r) /\ TypeOK
      /\ comments \in [CommentIds -> Rows \cup {None, Gone}] /\ UNCHANGED <<cards, inbox>>
  BY <1>0 DEF UpdateComment, At, Inv, TypeOK
<1>2. PICK c \in CommentIds : c = h.comment
  BY <1>0, <1>1 DEF RequestOk, ChangeOk
<1>3. /\ Exists(c) => comments[c].author = h.user /\ comments[c].card = h.card
      /\ h.user \in Users
  BY <1>0, <1>1, <1>2 DEF RequestOk, ChangeOk, MayAct
<1>4. Visit(r).purpose = "edit" /\ Visit(r).card = h.card /\ Visit(r).user = h.user
  BY <1>0, <1>1 DEF Visit
<1>5. Table!Leaves(r)
  <2> DEFINE g == [h EXCEPT !.stage = "committed"]
  <2>1. g.stage = "committed" /\ To(r, g)
    BY <1>0 DEF Handlers, UpdateComment
  <2> HIDE DEF g
  <2> QED
    BY <1>1, <2>1, GoneIsLeft
<1>6. comments' = [comments EXCEPT ![c] = IF Exists(c) THEN Edited(comments[c], h.user) ELSE @]
  BY <1>0, <1>2 DEF UpdateComment, Rewrite
<1>7. CASE Live(c)
  <2>1. comments[c] \in Rows /\ Exists(c) /\ ~comments[c].deleted
    BY <1>1, <1>7 DEF Live, Exists
  <2>2. Edited(comments[c], h.user) = Table!Comment(h.card, comments[c].parent, h.user)
    BY <1>3, <2>1 DEF Edited, Rows, Table!Comment
  <2>3. comments' = [comments EXCEPT ![c] = Table!Comment(h.card, comments[c].parent, h.user)]
    BY <1>6, <2>1, <2>2
  <2>4. Table!OnTheSpot(r, c)
    BY <1>3, <1>4, <2>1 DEF Table!OnTheSpot, Table!Stands, Exists
  <2> QED
    BY <1>1, <1>3, <1>4, <1>5, <2>1, <2>3, <2>4 DEF Table!Edit
<1>8. CASE ~Live(c)
  <2>1. comments' = comments
    BY <1>1, <1>6, <1>8 DEF Live, Edited
  <2> QED
    BY <1>1, <1>5, <2>1 DEF Table!Leave
<1> QED
  BY <1>7, <1>8

LEMMA SoftDeleteRefines ==
    ASSUME Inv, NEW r \in Requests, SoftDeleteComment(r)
    PROVE  Table!Erase(r) \/ Table!Leave(r)
<1>0. PICK h \in Handlers : h = request[r]
  BY DEF Inv, TypeOK
<1>1. /\ h.kind = "delete" /\ h.stage = "checked" /\ RequestOk(r) /\ TypeOK
      /\ comments \in [CommentIds -> Rows \cup {None, Gone}] /\ UNCHANGED <<cards, inbox>>
  BY <1>0 DEF SoftDeleteComment, At, Inv, TypeOK
<1>2. PICK c \in CommentIds : c = h.comment
  BY <1>0, <1>1 DEF RequestOk, ChangeOk
<1>3. Visit(r).purpose = "delete" /\ Visit(r).card = h.card /\ Visit(r).user = h.user
  BY <1>0, <1>1 DEF Visit
<1>4. Table!Leaves(r)
  BY <1>1, GoneIsLeft DEF SoftDeleteComment, Idle
<1>5. comments' = [comments EXCEPT ![c] = IF Exists(c) THEN Erased(comments[c]) ELSE @]
  BY <1>0, <1>2 DEF SoftDeleteComment, Rewrite
<1>6. CASE Exists(c)
  <2>1. comments[c] \in Rows /\ comments[c].card = h.card
        /\ h.user \in {comments[c].author} \cup Moderators
    BY <1>0, <1>1, <1>2, <1>6 DEF RequestOk, ChangeOk, MayAct, Exists
  <2>2. Erased(comments[c]) = [card |-> comments[c].card, parent |-> comments[c].parent,
                               author |-> comments[c].author, words |-> None, deleted |-> TRUE]
    <3>1. PICK row \in Rows : row = comments[c]
      BY <2>1
    <3>2. [row EXCEPT !.words = None, !.deleted = TRUE] =
            [card |-> row.card, parent |-> row.parent, author |-> row.author,
             words |-> None, deleted |-> TRUE]
      <4> DEFINE e == [row EXCEPT !.words = None, !.deleted = TRUE]
      <4>1. e \in Rows /\ e.deleted = TRUE
        BY DEF Rows
      <4>2. e.card = row.card /\ e.parent = row.parent /\ e.author = row.author /\ e.words = None
        BY DEF Rows
      <4> HIDE DEF e
      <4>3. e = [card |-> e.card, parent |-> e.parent, author |-> e.author,
                 words |-> e.words, deleted |-> e.deleted]
        BY <4>1 DEF Rows
      <4> QED
        BY <4>1, <4>2, <4>3 DEF e
    <3> QED
      BY <3>1, <3>2 DEF Erased
  <2>3. Table!OnTheSpot(r, c)
    BY <1>3, <1>6, <2>1 DEF Table!OnTheSpot, Table!Stands, Exists
  <2> QED
    BY <1>1, <1>3, <1>4, <1>5, <1>6, <2>1, <2>2, <2>3 DEF Table!Erase
<1>7. CASE ~Exists(c)
  <2>1. comments' = comments
    BY <1>1, <1>5, <1>7
  <2> QED
    BY <1>1, <1>4, <2>1 DEF Table!Leave
<1> QED
  BY <1>6, <1>7

LEMMA ListRootsRefines ==
    ASSUME Inv, NEW r \in Requests, ListRoots(r)
    PROVE  Table!Leave(r)
<1>0. request[r] \in Handlers /\ TypeOK
  BY DEF Inv, TypeOK
<1>1. PICK h : /\ h.stage = "listing" /\ To(r, h)
  <2> DEFINE k == request[r].card
             g == [request[r] EXCEPT !.stage = "listing", !.roots = Threads(k),
                     !.known = {c \in On(k) : Live(c)}]
  <2>1. g.stage = "listing" /\ To(r, g)
    BY <1>0 DEF Handlers, ListRoots
  <2> HIDE DEF g
  <2> QED
    BY <2>1
<1> QED
  BY <1>0, <1>1, GoneIsLeft DEF Table!Leave, ListRoots

LEMMA EndRefines ==
    ASSUME Inv, NEW r \in Requests, End(r)
    PROVE  Table!Leave(r)
BY GoneIsLeft DEF Table!Leave, End, Inv, Idle

LEMMA DeleteConnectorRefines ==
    ASSUME NEW k \in Cards, DeleteConnector(k)
    PROVE  Table!Close(k)
<1>1. comments' = [c \in CommentIds |->
                     IF Table!Stands(c) /\ comments[c].card = k THEN Gone ELSE comments[c]]
  BY DEF DeleteConnector, On, Exists, Table!Stands
<1>2. \A q \in Requests : Visit(q)' = Visit(q)
  BY DEF DeleteConnector, Visit
<1>3. UNCHANGED [q \in Requests |-> Visit(q)]
  BY <1>2
<1> QED
  BY <1>1, <1>3 DEF DeleteConnector, Table!Close

LEMMA InitRefines == Init => Table!ForumInit
<1> SUFFICES ASSUME Init PROVE Table!ForumInit
  OBVIOUS
<1>1. \A r \in Requests : Visit(r) = Table!Nobody
  BY DEF Init, Idle, Visit, Table!Nobody, Table!Visitor
<1> QED
  BY <1>1 DEF Init, Table!ForumInit

LEMMA NextRefines ==
    Inv /\ [Next]_discussionVars => [Table!ForumNext]_Table!forumVars
<1> SUFFICES ASSUME Inv, [Next]_discussionVars PROVE [Table!ForumNext]_Table!forumVars
  OBVIOUS
<1>1. CASE UNCHANGED discussionVars
  <2>1. \A q \in Requests : Visit(q)' = Visit(q)
    BY <1>1 DEF discussionVars, Visit
  <2> QED
    BY <1>1, <2>1 DEF discussionVars, Table!forumVars
<1>2. ASSUME NEW k \in Cards, DeleteConnector(k) PROVE Table!ForumNext
  BY <1>2, DeleteConnectorRefines DEF Table!ForumNext
<1>3. ASSUME NEW r \in Requests, NEW kind \in {"create", "edit", "delete", "list"}, Open(r, kind)
      PROVE  Table!ForumNext
  BY <1>3, OpenRefines DEF Table!ForumNext
<1>4. ASSUME NEW r \in Requests, CheckParent(r) PROVE UNCHANGED Table!forumVars
  BY <1>4, CheckParentRefines
<1>5. ASSUME NEW r \in Requests, CreateComment(r) PROVE Table!ForumNext
  BY <1>5, CreateRefines DEF Table!ForumNext
<1>6. ASSUME NEW r \in Requests, CheckComment(r) PROVE UNCHANGED Table!forumVars
  BY <1>6, CheckCommentRefines
<1>7. ASSUME NEW r \in Requests, UpdateComment(r) PROVE Table!ForumNext
  BY <1>7, UpdateRefines DEF Table!ForumNext
<1>8. ASSUME NEW r \in Requests, SoftDeleteComment(r) PROVE Table!ForumNext
  BY <1>8, SoftDeleteRefines DEF Table!ForumNext
<1>9. ASSUME NEW r \in Requests, ListRoots(r) PROVE Table!ForumNext
  BY <1>9, ListRootsRefines DEF Table!ForumNext
<1>10. ASSUME NEW r \in Requests, End(r) PROVE Table!ForumNext
  BY <1>10, EndRefines DEF Table!ForumNext
<1> QED
  BY <1>1, <1>2, <1>3, <1>4, <1>5, <1>6, <1>7, <1>8, <1>9, <1>10 DEF Next

(* Each handler, though it checks in one statement and writes in another,  *)
(* does in one step what its user may do to the comments as they are then, *)
(* for any number of users, cards, comments and requests                   *)
(* (social_router.py:103-189, social.py:150-182).                          *)
THEOREM Refinement == Spec => ImplementsForum
BY InvHolds, InitRefines, NextRefines, PTL DEF Spec, ImplementsForum, Table!ForumSpec

-----------------------------------------------------------------------------
(***************************************************************************)
(* Stars, bookmarks and notifications (Inbox): sequences of requests of    *)
(* any length, by induction on how many have been answered.  The induction *)
(* is that a smallest number at which a claim fails does not exist.        *)
(***************************************************************************)

LEMMA LeastNumber ==
    ASSUME NEW T, T \subseteq Nat, T # {}
    PROVE  \E m \in T : \A k \in T : m <= k
<1> DEFINE R == {ss \in Nat \X Nat : ss[1] < ss[2]}
<1>1. IsWellFoundedOn(R, Nat)
  BY NatLessThanWellFounded DEF OpToRel
<1>2. \E m \in T : \A k \in T : ~ (<<k, m>> \in R)
  <2> HIDE DEF R
  <2> QED BY <1>1, WFMin
<1>3. PICK m \in T : \A k \in T : ~ (<<k, m>> \in R)
  BY <1>2
<1>4. ASSUME NEW k \in T PROVE m <= k
  <2>1. k \in Nat /\ m \in Nat
    OBVIOUS
  <2>2. ~ (k < m)
    BY <1>3, <2>1
  <2> QED BY <2>1, <2>2
<1> QED BY <1>4

(* Whatever is clicked twice, taken back and asked for again: a card has   *)
(* the star of those whose last word was for it (social.py:5-7,            *)
(* social_router.py:211-216).                                              *)
THEOREM LastWordCounts ==
    ASSUME NEW n \in Nat, NEW click, NEW table, table[0] = {},
           \A k \in 1 .. n :
             table[k] = React(table[k - 1], click[k].card, click[k].user, click[k].on).table
    PROVE  \A card, user :
             <<card, user>> \in table[n] <=>
               \E k \in 1 .. n :
                 /\ click[k].card = card /\ click[k].user = user /\ click[k].on
                 /\ \A j \in k + 1 .. n : click[j].card # card \/ click[j].user # user
<1> SUFFICES ASSUME NEW card, NEW user
             PROVE  <<card, user>> \in table[n] <=>
                      \E k \in 1 .. n :
                        /\ click[k].card = card /\ click[k].user = user /\ click[k].on
                        /\ \A j \in k + 1 .. n : click[j].card # card \/ click[j].user # user
  OBVIOUS
<1> DEFINE Says(k) == click[k].card = card /\ click[k].user = user
           Wanted(m) == \E k \in 1 .. m : /\ Says(k) /\ click[k].on
                                          /\ \A j \in k + 1 .. m : ~Says(j)
           Wrong == {m \in 0 .. n : ~(<<card, user>> \in table[m] <=> Wanted(m))}
<1>1. ASSUME NEW m \in 1 .. n
      PROVE  <<card, user>> \in table[m] <=>
               IF Says(m) THEN click[m].on ELSE <<card, user>> \in table[m - 1]
  <2> DEFINE row == <<click[m].card, click[m].user>>
  <2>1. table[m] = React(table[m - 1], click[m].card, click[m].user, click[m].on).table
    BY <1>1
  <2>2. table[m] = IF click[m].on THEN table[m - 1] \cup {row} ELSE table[m - 1] \ {row}
    BY <2>1 DEF React, SetReaction
  <2>3. <<card, user>> = row <=> Says(m)
    OBVIOUS
  <2> HIDE DEF row, Says
  <2>4. CASE click[m].on
    BY <2>2, <2>3, <2>4
  <2>5. CASE ~click[m].on
    BY <2>2, <2>3, <2>5
  <2> QED BY <2>4, <2>5
<1>2. ASSUME NEW m \in 1 .. n
      PROVE  Wanted(m) <=> IF Says(m) THEN click[m].on ELSE Wanted(m - 1)
  <2>1. CASE Says(m)
    <3>1. \A k \in 1 .. m - 1 : m \in k + 1 .. m
      OBVIOUS
    <3> QED BY <2>1, <3>1
  <2>2. CASE ~Says(m)
    <3>1. \A k \in 1 .. m - 1 : k + 1 .. m = (k + 1 .. m - 1) \cup {m}
      OBVIOUS
    <3>2. 1 .. m = (1 .. m - 1) \cup {m}
      OBVIOUS
    <3> QED BY <2>2, <3>1, <3>2
  <2> QED BY <2>1, <2>2
<1>3. Wrong = {}
  <2> SUFFICES ASSUME Wrong # {} PROVE FALSE
    OBVIOUS
  <2>1. PICK m \in Wrong : \A k \in Wrong : m <= k
    <3>1. Wrong \subseteq Nat
      OBVIOUS
    <3> HIDE DEF Wrong
    <3> QED BY <3>1, LeastNumber
  <2>2. m # 0
    OBVIOUS
  <2>3. m \in 1 .. n /\ m - 1 \in 0 .. n /\ m - 1 \notin Wrong
    BY <2>1, <2>2
  <2> HIDE DEF Says, Wanted
  <2> QED BY <1>1, <1>2, <2>3
<1> QED BY <1>3

Mails == [user : Users, created : Nat, readAt : Nat]

LEMMA MarkReadMarks ==
    ASSUME NEW Ids, NEW rows \in [Ids -> Mails], NEW user, NEW wanted, NEW time \in Nat
    PROVE  /\ MarkRead(rows, user, wanted, time) \in [Ids -> Mails]
           /\ \A i \in Ids :
                LET after == MarkRead(rows, user, wanted, time)[i]
                IN  /\ after.user = rows[i].user /\ after.created = rows[i].created
                    /\ after.readAt = IF rows[i].user = user /\ rows[i].readAt = Never
                                         /\ (wanted = <<>> \/ i = wanted[1])
                                      THEN time ELSE rows[i].readAt
<1>1. DOMAIN rows = Ids
  OBVIOUS
<1>2. \A i \in Ids : i \in Covered(rows, user, wanted) <=>
        rows[i].user = user /\ rows[i].readAt = Never /\ (wanted = <<>> \/ i = wanted[1])
  BY <1>1 DEF Covered, Unread
<1> QED
  BY <1>1, <1>2 DEF MarkRead, Mails

(* A notification was read when its owner first asked for it, one by one   *)
(* or with all others, however many tabs say so again; nobody else's       *)
(* request touches it (social.py:315-320, notifications/router.py:49-53).  *)
THEOREM ReadOnce ==
    ASSUME NEW n \in Nat, NEW asked, NEW time, \A k \in 1 .. n : time[k] \in Nat \ {Never},
           NEW Ids, NEW rows, rows[0] \in [Ids -> Mails], \A i \in Ids : rows[0][i].readAt = Never,
           \A k \in 1 .. n :
             rows[k] = MarkRead(rows[k - 1], asked[k].user, asked[k].wanted, time[k])
    PROVE  LET covers(k, i) == /\ asked[k].user = rows[0][i].user
                               /\ asked[k].wanted = <<>> \/ i = asked[k].wanted[1]
           IN  \A i \in Ids :
                 \/ /\ rows[n][i].readAt = Never
                    /\ \A k \in 1 .. n : ~covers(k, i)
                 \/ \E k \in 1 .. n :
                      /\ rows[n][i].readAt = time[k] /\ covers(k, i)
                      /\ \A j \in 1 .. k - 1 : ~covers(j, i)
<1> DEFINE covers(k, i) == /\ asked[k].user = rows[0][i].user
                           /\ asked[k].wanted = <<>> \/ i = asked[k].wanted[1]
           First(m, i) == \/ /\ rows[m][i].readAt = Never
                             /\ \A k \in 1 .. m : ~covers(k, i)
                          \/ \E k \in 1 .. m :
                               /\ rows[m][i].readAt = time[k] /\ covers(k, i)
                               /\ \A j \in 1 .. k - 1 : ~covers(j, i)
           Right(m) == /\ rows[m] \in [Ids -> Mails]
                       /\ \A i \in Ids : rows[m][i].user = rows[0][i].user
                       /\ \A i \in Ids : First(m, i)
           Wrong == {m \in 0 .. n : ~Right(m)}
<1>1. ASSUME NEW m \in 1 .. n, Right(m - 1) PROVE Right(m)
  <2>1. /\ rows[m] = MarkRead(rows[m - 1], asked[m].user, asked[m].wanted, time[m])
        /\ time[m] \in Nat /\ time[m] # Never /\ rows[m - 1] \in [Ids -> Mails]
    BY <1>1
  <2>2. rows[m] \in [Ids -> Mails]
    BY <2>1, MarkReadMarks
  <2>3. ASSUME NEW i \in Ids
        PROVE  /\ rows[m][i].user = rows[m - 1][i].user
               /\ rows[m][i].readAt = IF covers(m, i) /\ rows[m - 1][i].readAt = Never
                                      THEN time[m] ELSE rows[m - 1][i].readAt
    <3>1. rows[m - 1][i].user = rows[0][i].user
      BY <1>1
    <3> QED BY <2>1, <3>1, MarkReadMarks
  <2>4. ASSUME NEW i \in Ids PROVE First(m, i)
    <3>1. 1 .. m = (1 .. m - 1) \cup {m} /\ m \in 1 .. m
      OBVIOUS
    <3>2. CASE rows[m - 1][i].readAt = Never /\ \A k \in 1 .. m - 1 : ~covers(k, i)
      <4> HIDE DEF covers
      <4> QED BY <2>3, <3>1, <3>2
    <3>3. CASE \E k \in 1 .. m - 1 :
                 /\ rows[m - 1][i].readAt = time[k] /\ covers(k, i)
                 /\ \A j \in 1 .. k - 1 : ~covers(j, i)
      <4> HIDE DEF covers
      <4>1. PICK k \in 1 .. m - 1 : /\ rows[m - 1][i].readAt = time[k] /\ covers(k, i)
                                    /\ \A j \in 1 .. k - 1 : ~covers(j, i)
        BY <3>3
      <4>2. time[k] # Never
        OBVIOUS
      <4>3. rows[m][i].readAt = time[k] /\ k \in 1 .. m
        BY <2>3, <4>1, <4>2
      <4> QED BY <4>1, <4>3
    <3>4. First(m - 1, i)
      BY <1>1
    <3> QED BY <3>2, <3>3, <3>4
  <2>5. \A i \in Ids : rows[m][i].user = rows[0][i].user
    BY <1>1, <2>3
  <2> HIDE DEF First
  <2> QED BY <2>2, <2>4, <2>5
<1>2. Right(0)
  OBVIOUS
<1>3. Wrong = {}
  <2> SUFFICES ASSUME Wrong # {} PROVE FALSE
    OBVIOUS
  <2> HIDE DEF Right
  <2>1. PICK m \in Wrong : \A k \in Wrong : m <= k
    <3>1. Wrong \subseteq Nat
      OBVIOUS
    <3> HIDE DEF Wrong
    <3> QED BY <3>1, LeastNumber
  <2>2. m # 0
    BY <1>2
  <2>3. m \in 1 .. n /\ m - 1 \in 0 .. n /\ m - 1 \notin Wrong
    BY <2>1, <2>2
  <2> QED BY <1>1, <2>3
<1> QED BY <1>3

(* The badge goes down by as many as a request says it has read, and by    *)
(* none for anybody else (notifications/router.py:33-34, 49-53).           *)
THEOREM BadgeDropsByWhatWasRead ==
    ASSUME NEW Ids, IsFiniteSet(Ids), NEW rows \in [Ids -> Mails], NEW user, NEW wanted,
           NEW time \in Nat \ {Never}
    PROVE  LET after == MarkRead(rows, user, wanted, time)
           IN  /\ Cardinality(Unread(after, user)) =
                    Cardinality(Unread(rows, user)) - CountRead(rows, user, wanted)
               /\ \A other : other # user => Unread(after, other) = Unread(rows, other)
<1> DEFINE after == MarkRead(rows, user, wanted, time)
           all == Unread(rows, user)
           read == Covered(rows, user, wanted)
<1>1. DOMAIN rows = Ids /\ DOMAIN after = Ids
  BY DEF MarkRead
<1>2. \A i \in Ids : /\ after[i].user = rows[i].user
                     /\ after[i].readAt = IF i \in read THEN time ELSE rows[i].readAt
  BY <1>1, MarkReadMarks DEF Covered, Unread
<1>3. read \subseteq all /\ all \subseteq Ids
  BY <1>1 DEF Covered, Unread
<1>4. \A other : Unread(after, other) = Unread(rows, other) \ read
  BY <1>1, <1>2 DEF Unread
<1>5. \A other : other # user => Unread(rows, other) \ read = Unread(rows, other)
  BY DEF Covered, Unread
<1> HIDE DEF after, all, read
<1>6. IsFiniteSet(all) /\ IsFiniteSet(read)
  BY <1>3, FS_Subset
<1>7. all \cap read = read
  BY <1>3
<1>8. Cardinality(all \ read) = Cardinality(all) - Cardinality(read)
  BY <1>6, <1>7, FS_Difference
<1> QED BY <1>4, <1>5, <1>8 DEF CountRead, after, all, read
=============================================================================
