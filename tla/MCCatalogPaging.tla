---------------------------- MODULE MCCatalogPaging ----------------------------
(***************************************************************************)
(* Instances of CatalogPaging for TLC.  The reader is in team t1; a card   *)
(* is public or for team t2 only.                                          *)
(***************************************************************************)
EXTENDS CatalogPaging, MCCatalogQueries

CONSTANTS t1, t2

TeamsOfReader == [u \in Viewers |-> {t1}]
PublicOrNot == {[global |-> TRUE, teams |-> {}], [global |-> FALSE, teams |-> {t2}]}
PublicOrOurs == {[global |-> TRUE, teams |-> {}], [global |-> FALSE, teams |-> {t1}]}

(* Bound: nothing follows a walk that is over.  Another would start as the *)
(* first one does, from cards that the first one could start from.         *)
OneWalk == walk.over => walk.list = "none"
=============================================================================
