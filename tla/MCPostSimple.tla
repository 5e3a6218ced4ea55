---------------------------- MODULE MCPostSimple ----------------------------
(* PostSimple: three requests to two hosts, over ints of eight values        *)
(* (-4 .. 3) and a size limit of 2 in place of 2^32 and 256 MiB.             *)
EXTENDS PostSimple

PromiseSpec == Promise!Spec
=============================================================================
