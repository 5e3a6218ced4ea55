------------------------------- MODULE MCCopy --------------------------------
(***************************************************************************)
(* megacopy (Copy) and megadl (LinkDownload), both on a local directory    *)
(* with at most two levels: the first state decides which of them runs,    *)
(* and what only the other uses stays as it is at first.                   *)
(*                                                                         *)
(* The remote trees have names in common with the local directory, a name  *)
(* used twice, and a file where the other side has a directory.  megadl    *)
(* has up to three links: two files, one with a name the folder uses, a    *)
(* folder with a name used twice, and one with a node whose parent could   *)
(* not be imported.                                                        *)
(***************************************************************************)
EXTENDS Copy, LinkDownload

CONSTANTS R, A, B       \* the remote directory's name, and two names below it

MCPaths == {<< >>, <<A>>, <<B>>, <<A, A>>, <<A, B>>}
MCRemotePath == <<Slash, R, Slash>>

N(h, parent, name, type) == [h |-> h, parent |-> parent, name |-> name, type |-> type]
Root == N("r", None, R, "dir")

Above(d) == \A p \in MCPaths \ {<< >>} : d[p] # None => d[Front(p)] = "dir"
Dirs(kinds) == {d \in [MCPaths -> kinds \cup {None, "dir"}] : Above(d)}

DownRemotes == {
    <<Root, N("a", "r", A, "dir"), N("ab", "a", B, "file"), N("aa", "a", A, "dir"), N("b", "r", B, "file")>>,
    <<N("ab2", "a2", B, "file"), N("ab", "a", B, "file"), Root, N("a", "r", A, "dir"), N("a2", "r", A, "dir"), N("aa", "a2", A, "file")>>,
    <<Root, N("a", "r", A, "file"), N("a2", "r", A, "dir"), N("ab", "a2", B, "file")>>,
    <<N("x", None, A, "dir")>> }

UpRemotes == {
    <<Root>>,
    <<Root, N("a", "r", A, "dir"), N("ab", "a", B, "dir")>>,
    <<Root, N("a", "r", A, "file"), N("a2", "r", A, "dir")>>,
    <<N("r", None, R, "file")>> }

MCSides ==
    [download : {TRUE}, remote : DownRemotes, local : Dirs({User})]
        \cup [download : {FALSE}, remote : UpRemotes, local : Dirs({User, "other"})]

File(h, name) == [kind |-> "file", h |-> h, name |-> name, nodes |-> << >>]
Folder(nodes) == [kind |-> "folder", h |-> "none", name |-> None, nodes |-> nodes]
Junk == [kind |-> "junk", h |-> "none", name |-> None, nodes |-> << >>]

Twice == Folder(<<Root, N("ab", "a2", B, "file"), N("a", "r", A, "dir"),
                  N("a2", "r", A, "dir"), N("ab2", "a", B, "file"), N("b", "r", B, "file")>>)
Orphan == Folder(<<N("r2", None, R, "dir"), N("x", None, A, "dir")>>)

AllLinks == {File("f1", A), File("f2", B), Twice, Orphan, Junk}
MCCommandLines == [links : SeqOf(AllLinks, 3), stream : BOOLEAN]
OneLevel == {d \in Dirs({User}) : \A p \in MCPaths : Len(p) = 2 => d[p] = None}

-----------------------------------------------------------------------------
VARIABLE part       \* "copy" or "links"

ASSUME CopyAssumptions == CopyAssumption /\ UploadAssumption /\ LinkAssumption

copyOnly == <<download, pc, exit, foretold, saved, cut, skipped>>
linksOnly == <<links, stream, turn, callback, curFile, printed, notOpened, status>>

NoCopy ==
    /\ download = TRUE /\ pc = "start" /\ exit = None
    /\ foretold = {} /\ saved = {} /\ cut = {} /\ skipped = {}

NoLinks ==
    /\ links = << >> /\ stream = FALSE /\ turn = 1 /\ callback = TRUE /\ curFile = None
    /\ printed = {} /\ notOpened = {} /\ status = None

MCInit ==
    \/ part = "copy" /\ Init /\ NoLinks
    \/ part = "links" /\ LinkInit /\ NoCopy

MCNext ==
    \/ part = "copy" /\ Next /\ UNCHANGED <<part, linksOnly>>
    \/ part = "links" /\ LinkNext /\ UNCHANGED <<part, copyOnly>>

MCSpec == MCInit /\ [][MCNext]_<<part, vars, linkVars>>
=============================================================================
