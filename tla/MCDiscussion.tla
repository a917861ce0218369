----------------------------- MODULE MCDiscussion -----------------------------
(***************************************************************************)
(* Instances of Discussion for TLC.  Every card has the same owner; the    *)
(* moderator owns no card.  MCInbox brings TLC.                            *)
(***************************************************************************)
EXTENDS Discussion, MCInbox

CONSTANT owner

OneOwner == [k \in Cards |-> owner]
Interchangeable ==
    Permutations(Cards) \cup Permutations(CommentIds) \cup Permutations(Requests)

(* Bounds: requests that are open at once are for the same card, and where *)
(* three comments were written, those left are not a moderator's.          *)
OnOneCard ==
    \A r, s \in Requests :
      request[r].kind # "none" /\ request[s].kind # "none" => request[r].card = request[s].card
ThreeByOthers ==
    \/ Cardinality({c \in CommentIds : comments[c] # None}) <= 2
    \/ \A c \in CommentIds : Exists(c) => comments[c].author \notin Moderators
=============================================================================
