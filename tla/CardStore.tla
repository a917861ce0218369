------------------------------ MODULE CardStore ------------------------------
(***************************************************************************)
(* What the writers of cards promise to those who read them.               *)
(*                                                                         *)
(* The store has a shelf for each card: its columns, its tags and visible  *)
(* teams, which rows hang on it, and whether its health was ever recorded. *)
(* A request wishes something of a card.  It is granted in one step, that  *)
(* changes the shelf as a whole and fulfils the wish, or it is given up    *)
(* and changes nothing.  Nothing comes to a shelf that is empty but by a   *)
(* registration, and what was removed stays away with all that hung on it. *)
(* There are no statements here, no locks and no order among requests.     *)
(*                                                                         *)
(* One column has two writers.  Who talks to the endpoint of a card may    *)
(* put the transport it found there along with what it records.  That it   *)
(* is the transport of the address that stands there now is not promised:  *)
(* the owner may have changed the address since.                           *)
(***************************************************************************)
CONSTANTS Cards, Requests, Bodies, Addressed, Reachable, Childless, None

VARIABLES
    shelf,      \* what there is of each card
    wish        \* what each request wants, or None

storeVars == <<shelf, wish>>

(* The tags, or teams, that come with a body *)
Named(b) == IF b \in Childless THEN {} ELSE {b}

(* The transport that comes with a body, and one it may have later *)
Given(b) == IF b \in Reachable THEN "written" ELSE "none"
Later(b, transport) == {transport} \cup (IF b \in Addressed THEN {"found"} ELSE {})

(* A card is the body it came from, but for the transport in all its parts. *)
Whole(b, transport, kids, checked) ==
    [life |-> "live", body |-> b, transport |-> transport, tags |-> Named(b),
     teams |-> Named(b), kids |-> kids, checked |-> checked]

Void(life) == [life |-> life, body |-> None, transport |-> "none", tags |-> {}, teams |-> {},
               kids |-> {}, checked |-> FALSE]

Wished(kind, c, b) == [kind |-> kind, card |-> c, body |-> b]

StoreInit ==
    /\ shelf = [c \in Cards |-> Void("unborn")]
    /\ wish = [r \in Requests |-> None]

There(c) == shelf[c].life = "live"

Put(c, card) == shelf' = [shelf EXCEPT ![c] = card]
Fulfilled(r) == wish' = [wish EXCEPT ![r] = None]

Ask(r) ==
    /\ UNCHANGED shelf
    /\ wish[r] = None
    /\ \E c \in Cards :
         /\ There(c)
         /\ \/ \E kind \in {"recheck", "refresh", "delete"} :
                 wish' = [wish EXCEPT ![r] = Wished(kind, c, None)]
            \/ \E b \in Bodies : wish' = [wish EXCEPT ![r] = Wished("patch", c, b)]

(* The card is there as a whole, and its request may go on to fetch tools. *)
Register(r) ==
    /\ wish[r] = None
    /\ \E c \in Cards, b \in Bodies :
         /\ shelf[c] = Void("unborn")
         /\ Put(c, Whole(b, Given(b), {"health"}, FALSE))
         /\ wish' = wish \/ wish' = [wish EXCEPT ![r] = Wished("create", c, None)]

Replace(r) ==
    /\ wish[r] # None /\ wish[r].kind = "patch"
    /\ There(wish[r].card)
    /\ LET card == shelf[wish[r].card]
           b == wish[r].body
       IN  Put(wish[r].card, Whole(b, Given(b), card.kids, card.checked))
    /\ Fulfilled(r)

Remove(r) ==
    /\ wish[r] # None /\ wish[r].kind = "delete"
    /\ There(wish[r].card)
    /\ Put(wish[r].card, Void("gone"))
    /\ Fulfilled(r)

RecordHealth(c) ==
    /\ There(c)
    /\ \E transport \in Later(shelf[c].body, shelf[c].transport) :
         Put(c, Whole(shelf[c].body, transport, shelf[c].kids, TRUE))

SaveTools(c) ==
    /\ There(c)
    /\ \E transport \in Later(shelf[c].body, shelf[c].transport) :
         Put(c, Whole(shelf[c].body, transport, shelf[c].kids \cup {"cache"},
                      shelf[c].checked))

Answer(r) ==
    /\ wish[r] # None
    /\ \/ wish[r].kind = "recheck" /\ RecordHealth(wish[r].card)
       \/ wish[r].kind \in {"refresh", "create"} /\ SaveTools(wish[r].card)
    /\ Fulfilled(r)

(* The background sweep has no wishes of its own. *)
Sweep == (\E c \in Cards : RecordHealth(c)) /\ UNCHANGED wish

GiveUp ==
    /\ UNCHANGED shelf
    /\ \E those \in SUBSET Requests :
         wish' = [r \in Requests |-> IF r \in those THEN None ELSE wish[r]]

StoreNext ==
    \/ GiveUp
    \/ \E r \in Requests : Ask(r) \/ Register(r) \/ Replace(r) \/ Remove(r) \/ Answer(r)
    \/ Sweep

StoreSpec == StoreInit /\ [][StoreNext]_storeVars
=============================================================================
