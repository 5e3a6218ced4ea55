------------------------------ MODULE MacBlocks -------------------------------
(***************************************************************************)
(* What the chunked MAC takes of a file: whole blocks, the last one padded *)
(* with zeros (libtools/oldmega.c: chunked_cbc_mac_finish).                *)
(***************************************************************************)
EXTENDS Integers, SequencesExt

CONSTANT Block      \* AES_BLOCK_SIZE: 16

ASSUME BlockAssumption == Block \in Nat \ {0}

\* The position at the end of its block.
BlockEnd(position) == ((position + Block - 1) \div Block) * Block

Padded(bytes) ==
    [i \in 1 .. BlockEnd(Len(bytes)) |-> IF i <= Len(bytes) THEN bytes[i] ELSE 0]
=============================================================================
