-------------------------- MODULE MCConnectorHealth --------------------------
(***************************************************************************)
(* Instances of ConnectorHealth for TLC.                                   *)
(***************************************************************************)
EXTENDS ConnectorHealth, TLC

OneCard == {1}

(* Replicas run the same code, and so do requests; nothing chooses one.  A *)
(* transport is only compared with another.                                *)
Interchangeable ==
    Permutations(Workers) \cup Permutations(Requests) \cup Permutations(Transports)
=============================================================================
