----------------------------- MODULE MCTransfers -----------------------------
(***************************************************************************)
(* Download, Upload and ChunkedMac side by side.  They share no state: the *)
(* first state decides which of them runs, and the others stay as they are *)
(* at first.  Their properties are checked as they stand there.            *)
(***************************************************************************)
EXTENDS Download, Upload, ChunkedMac, TLC

VARIABLE part       \* "download", "upload" or "mac"

Symmetry == Permutations(Tools)

PartInit ==
    /\ part \in {"download", "upload", "mac"}
    /\ Init /\ (part # "download" => remote = << >> /\ files = [p \in Paths |-> None])
    /\ UploadInit /\ (part # "upload" => local = << >>)
    /\ MacInit /\ (part # "mac" => ~mac.sealed)

PartNext ==
    \/ part = "download" /\ Next /\ UNCHANGED <<part, uploadVars, macVars>>
    \/ part = "upload" /\ UploadNext /\ UNCHANGED <<part, vars, macVars>>
    \/ part = "mac" /\ MacNext /\ UNCHANGED <<part, vars, uploadVars>>

PartSpec == PartInit /\ [][PartNext]_<<part, vars, uploadVars, macVars>>
=============================================================================
