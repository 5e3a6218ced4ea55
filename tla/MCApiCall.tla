----------------------------- MODULE MCApiCall ------------------------------
(* ApiCall with the delays of the code and two commands, the second after whatever the first left.                     *)
EXTENDS ApiCall
=============================================================================
