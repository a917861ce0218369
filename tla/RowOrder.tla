-------------------------------- MODULE RowOrder --------------------------------
(***************************************************************************)
(* ORDER BY, LIMIT and OFFSET of a SELECT.  The order is a set of pairs of *)
(* rows; a row stands behind as many as come before it.                    *)
(***************************************************************************)
EXTENDS Naturals, Sequences, FiniteSets

Ordered(rows, before) ==
    [n \in 1 .. Cardinality(rows) |->
       CHOOSE x \in rows : Cardinality({y \in rows : <<y, x>> \in before}) = n - 1]

Page(all, limit, offset) ==
    SubSeq(all, offset + 1, IF offset + limit < Len(all) THEN offset + limit ELSE Len(all))
=============================================================================
