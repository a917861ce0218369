-------------------------- MODULE MCIntrospectCache --------------------------
(***************************************************************************)
(* An instance of IntrospectCache for TLC: callers are interchangeable.    *)
(***************************************************************************)
EXTENDS IntrospectCache, TLC

Interchangeable == Permutations(Calls)
=============================================================================
