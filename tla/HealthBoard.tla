----------------------------- MODULE HealthBoard -----------------------------
(***************************************************************************)
(* What the health of connectors promises to those who read the badge.     *)
(*                                                                         *)
(* The board has a row per registered connector: the last result, how many *)
(* failures in a row it closes, and how many results were ever posted.  A  *)
(* prober looks at rows and later posts a result or walks away.  A         *)
(* foreground prober (a person pressed the button) may always post.  A     *)
(* background prober may post only on a row where nothing was posted since *)
(* it looked.  No prober opens or removes a row.                           *)
(***************************************************************************)
EXTENDS Naturals

CONSTANTS Cards, Background, Foreground, None

VARIABLES
    board,      \* the row of each card, or None
    look        \* the card a prober looked at, and the posts it counted there

boardVars == <<board, look>>

Blank == [status |-> "unknown", fails |-> 0, posts |-> 0]

BoardInit ==
    /\ board = [c \in Cards |-> None]
    /\ look = [a \in Background \cup Foreground |-> None]

Open(c) ==
    /\ board[c] = None
    /\ board' = [board EXCEPT ![c] = Blank]
    /\ UNCHANGED look

Remove(c) ==
    /\ board[c] # None
    /\ board' = [board EXCEPT ![c] = None]
    /\ UNCHANGED look

(* Only a background prober counts the posts. *)
Counted(a, c) == [card |-> c, posts |-> IF a \in Background THEN board[c].posts ELSE 0]

(* Some probers look at rows that are there; others walk away. *)
LookOrLeave ==
    /\ \A a \in Background \cup Foreground :
         look'[a] # look[a] =>
           \/ look'[a] = None
           \/ \E c \in Cards : board[c] # None /\ look'[a] = Counted(a, c)
    /\ UNCHANGED board

After(row, healthy) ==
    [status |-> IF healthy THEN "healthy" ELSE "unhealthy",
     fails |-> IF healthy THEN 0 ELSE row.fails + 1,
     posts |-> row.posts + 1]

Post(a) ==
    /\ look[a] # None
    /\ board[look[a].card] # None
    /\ a \in Background => board[look[a].card].posts = look[a].posts
    /\ \E healthy \in BOOLEAN :
         board' = [board EXCEPT ![look[a].card] = After(@, healthy)]
    /\ look' = [look EXCEPT ![a] = None]

BoardNext ==
    \/ \E c \in Cards : Open(c) \/ Remove(c)
    \/ LookOrLeave
    \/ \E a \in Background \cup Foreground : Post(a)

BoardSpec == BoardInit /\ [][BoardNext]_boardVars
=============================================================================
