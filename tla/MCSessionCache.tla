--------------------------- MODULE MCSessionCache ----------------------------
(* SessionCache with one or two tools at a time, which are alike.            *)
EXTENDS SessionCache, TLC

Symmetry == Permutations(Procs) \cup Permutations(Sids) \cup Permutations(Items)
=============================================================================
