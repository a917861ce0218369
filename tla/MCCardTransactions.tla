------------------------- MODULE MCCardTransactions -------------------------
(***************************************************************************)
(* An instance of CardTransactions for TLC.                                *)
(***************************************************************************)
EXTENDS CardTransactions, MCCardBody

TwoCards == {1, 2}
=============================================================================
