----------------------------- MODULE ChunkedMac ------------------------------
(***************************************************************************)
(* The MAC of a file (mega/mega-chunked-cbc-mac.c, and its copy in         *)
(* libtools/oldmega.c): the bytes arrive in pieces of any length, are      *)
(* taken in blocks and chunks, a chunk's CBC-MAC is folded into the MAC of *)
(* the file when the chunk is full, and finish pads and closes the last.   *)
(*                                                                         *)
(* AES is an injection: a chunk's MAC is the bytes that went into it, the  *)
(* file's the chunks' MACs in order.                                       *)
(***************************************************************************)
EXTENDS MacBlocks

CONSTANTS
    Unit,       \* blocks in the first chunk: 8192
    Growth,     \* the chunk from which they grow no more: 8
    NoResult,   \* before finish
    MaxMac,     \* bound: bytes of a file
    MaxFiles    \* bound: files one after the other

Bytes == {0, 1}

ASSUME MacAssumption ==
    /\ Unit \in Nat \ {0} /\ Growth \in Nat \ {0}
    /\ MaxMac \in Nat /\ MaxFiles \in Nat
    /\ NoResult \notin Seq(Seq(Bytes))

VARIABLES
    mac,        \* MegaChunkedCbcMacPrivate, chunked_cbc_mac
    pending,    \* the rest of the data of an update
    data,       \* all bytes since setup
    result,     \* what finish returned, if it did since setup
    setups      \* calls of setup

macVars == <<mac, pending, data, result, setups>>

\* get_chunk_size.
ChunkSize(i) == (IF i < Growth THEN i + 1 ELSE Growth) * Unit * Block

\* setup, chunked_cbc_mac_init.  sealed tells the copies apart: setup of the
\* object (mega/) does not reset finished, that of the other clears all.
Fresh(sealed, finished) ==
    [chunkIdx |-> 0, nextBoundary |-> ChunkSize(0), position |-> 0,
     chunkMac |-> << >>, metaMac |-> << >>, finished |-> finished, sealed |-> sealed]

CloseChunk(m) ==
    [m EXCEPT !.metaMac = Append(@, m.chunkMac), !.chunkMac = << >>,
              !.chunkIdx = @ + 1, !.nextBoundary = @ + ChunkSize(m.chunkIdx + 1)]

\* One turn of update's loop.
Taken(m, byte) ==
    LET fed == [m EXCEPT !.chunkMac = Append(@, byte), !.position = @ + 1]
    IN IF fed.position = fed.nextBoundary THEN CloseChunk(fed) ELSE fed

PaddedMac(m) ==
    LET zeros == BlockEnd(m.position) - m.position
    IN [m EXCEPT !.chunkMac = @ \o [i \in 1 .. zeros |-> 0], !.position = @ + zeros]

\* The body of finish: padding, and the last chunk if it has begun.
Finished(m) ==
    LET p == PaddedMac(m)
        last == IF p.position > p.nextBoundary - ChunkSize(p.chunkIdx)
                THEN CloseChunk(p) ELSE p
    IN [last EXCEPT !.finished = TRUE]

-----------------------------------------------------------------------------
\* mega_chunked_cbc_mac_setup; the copy in oldmega.c clears everything.
Setup ==
    /\ setups < MaxFiles /\ pending = << >>
    /\ mac' = Fresh(mac.sealed, mac.sealed /\ mac.finished)
    /\ data' = << >> /\ result' = NoResult /\ setups' = setups + 1
    /\ UNCHANGED pending

\* A call of mega_chunked_cbc_mac_update, which a sealed object refuses.
Update(bytes) ==
    /\ pending = << >> /\ result = NoResult /\ ~mac.finished
    /\ Len(data) + Len(bytes) <= MaxMac
    /\ pending' = bytes /\ data' = data \o bytes
    /\ UNCHANGED <<mac, result, setups>>

\* Mutant of Feed: the boundary is only looked at when the call is over.
FeedAtEnd ==
    /\ pending # << >>
    /\ LET fed == [mac EXCEPT !.chunkMac = Append(@, Head(pending)), !.position = @ + 1]
       IN mac' = IF Tail(pending) = << >> /\ fed.position >= fed.nextBoundary
                 THEN CloseChunk(fed) ELSE fed
    /\ pending' = Tail(pending)
    /\ UNCHANGED <<data, result, setups>>

\* Its loop, a byte at a time.
Feed ==
    /\ pending # << >>
    /\ mac' = Taken(mac, Head(pending))
    /\ pending' = Tail(pending)
    /\ UNCHANGED <<data, result, setups>>

\* mega_chunked_cbc_mac_finish, chunked_cbc_mac_finish.
Finish ==
    /\ pending = << >> /\ result = NoResult
    /\ IF mac.finished
       THEN result' = mac.metaMac /\ UNCHANGED mac
       ELSE mac' = Finished(mac) /\ result' = mac'.metaMac
    /\ UNCHANGED <<pending, data, setups>>

MacInit ==
    /\ \E sealed \in BOOLEAN : mac = Fresh(sealed, FALSE)
    /\ pending = << >> /\ data = << >>
    /\ result = NoResult /\ setups = 1

Pieces == UNION {[1 .. n -> Bytes] : n \in 0 .. MaxMac}

MacNext == Setup \/ (\E bytes \in Pieces : Update(bytes)) \/ Feed \/ Finish

MacSpec == MacInit /\ [][MacNext]_macVars

-----------------------------------------------------------------------------
(* The definition the two copies share in words only: get_chunk_off, in     *)
(* comments or unused in the code.                                          *)

\* get_chunk_off.
ChunkOff == LET off[i \in Nat] == IF i = 0 THEN 0 ELSE off[i - 1] + ChunkSize(i - 1) IN off

\* The padded file cut at the offsets.
Reference(bytes) ==
    LET all == Padded(bytes)
        chunks == CHOOSE n \in 0 .. Len(all) :
                      /\ ChunkOff[n] >= Len(all)
                      /\ n = 0 \/ ChunkOff[n - 1] < Len(all)
        end(i) == IF ChunkOff[i] < Len(all) THEN ChunkOff[i] ELSE Len(all)
    IN [i \in 1 .. chunks |-> SubSeq(all, ChunkOff[i - 1] + 1, end(i))]

\* However a file was cut into updates, its MAC is that of its bytes: every
\* chunk is closed once, at its boundary, by its last byte or by padding.  An
\* object that is sealed gives it for its first file only.
MacOfBytes == result # NoResult /\ (mac.sealed => setups = 1) => result = Reference(data)

\* Two files have one MAC exactly if they differ in nothing but zeros within
\* the last block (what Download assumes of the comparison).
MacTellsApart ==
    result # NoResult /\ (mac.sealed => setups = 1) =>
        \A other \in Pieces :
            result = Reference(other) <=> Padded(other) = Padded(data)

\* The MAC identifies the bytes, up to their padding.
MacIdentifies == MacOfBytes /\ MacTellsApart
=============================================================================
