-------------------------------- MODULE Forum --------------------------------
(***************************************************************************)
(* What the comments of cards promise to those who write them.             *)
(*                                                                         *)
(* Somebody comes to a card, to write, to edit, to delete or to read, and  *)
(* does it in one step with the forum as it is in that step, or leaves.    *)
(* What one may do depends on the comments that are there then.  There is  *)
(* one thing a forum without checks made earlier would not have: a reply   *)
(* may still be put under a comment that was just deleted, because the     *)
(* place of a deleted comment is kept.                                     *)
(***************************************************************************)
CONSTANTS Users, Cards, CommentIds, Requests, Owner, Moderators, None, Gone

VARIABLES
    cards,      \* the cards that are there
    comments,   \* what is under each number: None, a comment, or Gone
    inbox,      \* who was told of which comment
    visit       \* who has come, to which card and what for

forumVars == <<cards, comments, inbox, visit>>

Visitor(user, card, purpose) == [user |-> user, card |-> card, purpose |-> purpose]
Nobody == Visitor(None, None, "none")

Comment(card, parent, author) ==
    [card |-> card, parent |-> parent, author |-> author, words |-> author,
     deleted |-> FALSE]

ForumInit ==
    /\ cards = Cards
    /\ comments = [c \in CommentIds |-> None]
    /\ inbox = {}
    /\ visit = [r \in Requests |-> Nobody]

Stands(c) == comments[c] \notin {None, Gone}

(* What a visitor to this card may answer to or act upon *)
OnTheSpot(r, c) == Stands(c) /\ comments[c].card = visit[r].card

Leaves(r) == visit' = [visit EXCEPT ![r] = Nobody]

Come(r) ==
    /\ visit[r] = Nobody
    /\ visit'[r] \in [user : Users, card : cards,
                      purpose : {"create", "edit", "delete", "list"}]
    /\ visit' = [visit EXCEPT ![r] = visit'[r]]
    /\ UNCHANGED <<cards, comments, inbox>>

Leave(r) == Leaves(r) /\ UNCHANGED <<cards, comments, inbox>>

(* The author of the comment that is answered, and the owner, but nobody   *)
(* twice and not the writer                                                *)
Told(c, card, answered, writer) ==
    {[user |-> u, comment |-> c, card |-> card,
      kind |-> IF u = answered THEN "comment_reply" ELSE "comment"] :
        u \in {answered, Owner[card]} \ {writer, None}}

Post(r) ==
    /\ visit[r].purpose = "create" /\ visit[r].card \in cards
    /\ \E c \in CommentIds :
         /\ comments[c] = None
         /\ \/ /\ comments' = [comments EXCEPT ![c] =
                                 Comment(visit[r].card, None, visit[r].user)]
               /\ inbox' = inbox \cup Told(c, visit[r].card, None, visit[r].user)
            \/ \E p \in CommentIds :
                 /\ OnTheSpot(r, p) /\ comments[p].parent = None
                 /\ comments' = [comments EXCEPT ![c] =
                                   Comment(visit[r].card, p, visit[r].user)]
                 /\ inbox' = inbox \cup Told(c, visit[r].card, comments[p].author, visit[r].user)
    /\ Leaves(r)
    /\ UNCHANGED cards

(* One's own words for one's own words; a comment that is deleted has none. *)
Edit(r) ==
    /\ visit[r].purpose = "edit"
    /\ \E c \in CommentIds :
         /\ OnTheSpot(r, c) /\ comments[c].author = visit[r].user /\ ~comments[c].deleted
         /\ comments' = [comments EXCEPT ![c] =
                           Comment(visit[r].card, comments[c].parent, visit[r].user)]
    /\ Leaves(r)
    /\ UNCHANGED <<cards, inbox>>

Erase(r) ==
    /\ visit[r].purpose = "delete"
    /\ \E c \in CommentIds :
         /\ OnTheSpot(r, c)
         /\ visit[r].user \in {comments[c].author} \cup Moderators
         /\ comments' = [comments EXCEPT ![c] =
              [card |-> comments[c].card, parent |-> comments[c].parent,
               author |-> comments[c].author, words |-> None, deleted |-> TRUE]]
    /\ Leaves(r)
    /\ UNCHANGED <<cards, inbox>>

(* A card goes, with all that was written under it and told of it. *)
Close(k) ==
    /\ k \in cards
    /\ cards' = cards \ {k}
    /\ comments' = [c \in CommentIds |->
                      IF Stands(c) /\ comments[c].card = k THEN Gone ELSE comments[c]]
    /\ inbox' = {n \in inbox : n.card # k}
    /\ UNCHANGED visit

ForumNext ==
    \/ \E k \in Cards : Close(k)
    \/ \E r \in Requests : Come(r) \/ Leave(r) \/ Post(r) \/ Edit(r) \/ Erase(r)

ForumSpec == ForumInit /\ [][ForumNext]_forumVars
=============================================================================
