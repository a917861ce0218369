----------------------------- MODULE MCRateLimit -----------------------------
(***************************************************************************)
(* Instances of RateLimit for TLC: users and threads are interchangeable.  *)
(***************************************************************************)
EXTENDS RateLimit, TLC

Interchangeable == Permutations(Users) \cup Permutations(Threads)
=============================================================================
