---------------------------- MODULE MCSessionFs -----------------------------
(* SessionFs with three files and folders, two names and one contact.        *)
EXTENDS SessionFs, TLC

Symmetry == Permutations(Handles) \cup Permutations(Names)
=============================================================================
