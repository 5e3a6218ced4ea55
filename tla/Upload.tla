------------------------------- MODULE Upload --------------------------------
(***************************************************************************)
(* The data path of an upload (libtools/oldmega.c: mega_session_put after  *)
(* its checks of the remote path, which are SessionFs!Put; create_preview; *)
(* libtools/http.c: http_post_stream_upload; tools/put.c).  The size of    *)
(* the local file is read once and announced, the file is read piece by    *)
(* piece while another process may change it, and the node that is made in *)
(* the end carries the MAC of the bytes read, not of those stored.         *)
(*                                                                         *)
(* The MAC is represented as in Download.  libcurl and the storage server  *)
(* are external: libcurl asks for Buffer bytes at a time and stops when it *)
(* has sent what was announced or gets nothing; the server keeps what was  *)
(* announced and answers with a handle only if it got that much.           *)
(***************************************************************************)
EXTENDS MacBlocks

CONSTANTS
    Buffer,     \* bytes libcurl asks for at a time
    MaxUpload,  \* bound: bytes of the local file
    MaxChanges, \* bound: changes of the local file
    MaxRuns,    \* bound: times the server carries out one 'p' command
    MaxNodes    \* bound: nodes made

ASSUME UploadAssumption ==
    /\ Buffer \in Nat \ {0}
    /\ MaxUpload \in Nat /\ MaxChanges \in Nat /\ MaxRuns \in Nat /\ MaxNodes \in Nat

LocalFiles == UNION {[1 .. n -> {0, 1}] : n \in 0 .. MaxUpload}

VARIABLES
    local,      \* the local file
    changes,    \* how often it was changed
    up,         \* the upload
    nodes,      \* the nodes it made on the server
    listed      \* nodes appended to s->fs_nodes

uploadVars == <<local, changes, up, nodes, listed>>

\* source, grown and touched are of the model: the file as it was opened, and
\* whether it was longer, or other, at any moment since.
NoUpload == [pc |-> "idle", size |-> 0, sent |-> << >>, mac |-> << >>, stored |-> << >>,
             fa |-> FALSE, runs |-> 0, source |-> << >>, grown |-> FALSE, touched |-> FALSE]

UploadGo(pc) == up' = [up EXCEPT !.pc = pc]
Fail == up' = NoUpload

-----------------------------------------------------------------------------
\* The file is opened and its size taken.
Open ==
    /\ up.pc = "idle" /\ Len(nodes) < MaxNodes
    /\ up' = [NoUpload EXCEPT !.pc = "url", !.size = Len(local), !.source = local]
    /\ UNCHANGED <<local, changes, nodes, listed>>

\* The 'u' command; the key, the counter and the MAC are set up.
AskUrl ==
    /\ up.pc = "url"
    /\ \/ UploadGo(IF up.size = 0 THEN "answer" ELSE "send")
       \/ Fail
    /\ UNCHANGED <<local, changes, nodes, listed>>

\* The bytes put_process_data gives for one request of libcurl.
Piece ==
    SubSeq(local, Len(up.sent) + 1,
           IF Len(up.sent) + Buffer < Len(local) THEN Len(up.sent) + Buffer ELSE Len(local))

\* Mutant of Send: the MAC takes the whole buffer, not the bytes read.
SendWholeBuffer ==
    LET sent == up.sent \o Piece
    IN /\ up.pc = "send"
       /\ up' = [up EXCEPT !.sent = sent,
                           !.mac = @ \o Piece \o [i \in 1 .. Buffer - Len(Piece) |-> 1],
                           !.pc = IF Piece = << >> \/ Len(sent) >= up.size THEN "answer" ELSE "send"]
       /\ UNCHANGED <<local, changes, nodes, listed>>

\* put_process_data: what was read is encrypted, added to the MAC and sent; a
\* read error gives nothing, as the end of the file does.  With more sent than
\* announced libcurl may stop or read on.
Send ==
    LET sent == up.sent \o Piece
    IN /\ up.pc = "send"
       /\ \/ \E pc \in {"send", "answer"} :
                /\ Piece = << >> \/ Len(sent) = up.size => pc = "answer"
                /\ Len(sent) < up.size /\ Piece # << >> => pc = "send"
                /\ up' = [up EXCEPT !.sent = sent, !.mac = @ \o Piece, !.pc = pc]
          \/ UploadGo("answer")
       /\ UNCHANGED <<local, changes, nodes, listed>>

\* The server's answer: a handle, an error number, something that is neither,
\* another status than 200, or nothing.
UploadAnswer ==
    /\ up.pc = "answer"
    /\ \/ /\ Len(up.sent) >= up.size
          /\ up' = [up EXCEPT !.pc = "preview", !.stored = SubSeq(up.sent, 1, up.size)]
       \/ Fail
    /\ UNCHANGED <<local, changes, nodes, listed>>

\* create_preview, with the 'ufa' command and its upload: whether it works or
\* not, the upload goes on.
Preview ==
    /\ up.pc = "preview"
    /\ \E fa \in BOOLEAN : up' = [up EXCEPT !.pc = "node", !.fa = fa]
    /\ UNCHANGED <<local, changes, nodes, listed>>

\* The server carries out the 'p' command, perhaps not for the first time.
Run ==
    /\ up.pc = "node" /\ up.runs < MaxRuns
    /\ nodes' = Append(nodes, [data |-> up.stored, mac |-> up.mac, fa |-> up.fa,
                               source |-> up.source, grown |-> up.grown, touched |-> up.touched])
    /\ up' = [up EXCEPT !.runs = @ + 1]
    /\ UNCHANGED <<local, changes, listed>>

\* Its answer with a valid node, or another or none.
PutNode ==
    /\ up.pc = "node" /\ Fail
    /\ \/ up.runs > 0 /\ listed' = listed + 1
       \/ UNCHANGED listed
    /\ UNCHANGED <<local, changes, nodes>>

\* Another process writes to the local file.
Change ==
    /\ changes < MaxChanges /\ changes' = changes + 1
    /\ \E c \in LocalFiles :
          /\ c # local /\ local' = c
          /\ up' = IF up.pc \in {"url", "send"}
                   THEN [up EXCEPT !.touched = TRUE, !.grown = @ \/ Len(c) > up.size]
                   ELSE up
    /\ UNCHANGED <<nodes, listed>>

UploadInit ==
    /\ local \in LocalFiles /\ changes = 0 /\ up = NoUpload
    /\ nodes = << >> /\ listed = 0

UploadNext == Open \/ AskUrl \/ Send \/ UploadAnswer \/ Preview \/ Run \/ PutNode \/ Change

UploadSpec == UploadInit /\ [][UploadNext]_uploadVars

-----------------------------------------------------------------------------
\* What was uploaded can be downloaded: the MAC in the node's key is that of
\* what the server stored, also when the file was cut or rewritten during the
\* upload.  A file that grows meanwhile is the exception: libcurl may read, and
\* the MAC then covers, bytes beyond the size that was announced.
NodeReadable ==
    \A i \in DOMAIN nodes : ~nodes[i].grown => Padded(nodes[i].mac) = Padded(nodes[i].data)

\* A file nobody wrote to meanwhile is stored as it was when it was opened, in
\* every node a repeated 'p' command made.
NodeIsFile ==
    \A i \in DOMAIN nodes : ~nodes[i].touched => nodes[i].data = nodes[i].source

\* What an upload leaves on the server is the file, and can be downloaded.
NodeIsSound == NodeReadable /\ NodeIsFile
=============================================================================
