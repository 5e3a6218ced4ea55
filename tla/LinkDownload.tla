---------------------------- MODULE LinkDownload -----------------------------
(***************************************************************************)
(* megadl (tools/dl.c): file and folder links of one command line, one     *)
(* after the other, over one session.  A file link leaves the session as   *)
(* it is; a folder link closes it and opens the exported folder in it, and *)
(* copies the folder (DownSync, whose functions dl.c repeats).             *)
(***************************************************************************)
EXTENDS DownSync

CONSTANTS
    CommandLines,   \* sequences of links, and whether the path is "-"
    Locals          \* what opt_path may be at first: functions on LocalPaths

\* What is taken of the links and of the local directory when they are proved about.
LinkAssumption ==
    /\ PathsAssumption /\ DownSyncAssumption
    /\ \A local \in Locals : OnDisk(local)
    /\ \A command \in CommandLines :
          /\ command.links \in Seq(Range(command.links))
          /\ \A link \in Range(command.links) :
                /\ link.kind = "file" => <<link.name>> \in LocalPaths
                /\ link.kind = "folder" => Fits(link.nodes)

VARIABLES
    links,      \* the links of the command line
    stream,     \* opt_stream
    turn,       \* the link at hand
    callback,   \* s->status_callback is set
    curFile,    \* cur_file
    printed,    \* for the file links that succeeded: the link, and the name printed
    notOpened,  \* folder links that could not be opened
    status      \* what main returns, None while it runs

linkVars == <<fs, disk, todo, said, failed, dry, broken, added,
          links, stream, turn, root, callback, curFile, printed, notOpened, status>>

Turn(kind) == status = None /\ todo = << >> /\ root = None /\ turn <= Len(links) /\ links[turn].kind = kind

\* No links, or several to one stream.
Refused ==
    /\ status = None /\ turn = 1 /\ (links = << >> \/ (stream /\ Len(links) # 1))
    /\ status' = 1 /\ turn' = Len(links) + 1
    /\ UNCHANGED <<fs, disk, todo, said, failed, dry, broken, added, links, stream, root,
                   callback, curFile, printed, notOpened>>

MayRun == links # << >> /\ (stream => Len(links) = 1)

\* Where mega_session_dl writes: below opt_path when that is a directory.
Target(name) == IF disk[<< >>] = "dir" THEN <<name>> ELSE << >>

\* The name comes with the status callback, if there is one.
Announced(name) == curFile' = IF callback THEN name ELSE curFile

FileLink ==
    /\ Turn("file") /\ MayRun
    /\ LET name == links[turn].name
       IN /\ stream \/ disk[Target(name)] = None
          /\ disk' = IF stream THEN disk ELSE [disk EXCEPT ![Target(name)] = links[turn].h]
          /\ Announced(name)
          /\ printed' = printed \cup {[at |-> turn, name |-> curFile']}
    /\ turn' = turn + 1
    /\ UNCHANGED <<fs, todo, said, failed, dry, broken, added, links, stream, root, callback, notOpened, status>>

\* Before the name is known, or after.
FileLinkFails ==
    /\ Turn("file") /\ MayRun
    /\ UNCHANGED curFile \/ Announced(links[turn].name)
    /\ broken' = TRUE
    /\ turn' = turn + 1
    /\ UNCHANGED <<fs, disk, todo, said, failed, dry, added, links, stream, root, callback, printed, notOpened, status>>

\* Mutant of OpenFolder: the callback is not set again.
OpenFolderUnwatched ==
    /\ Turn("folder") /\ MayRun /\ ~stream
    /\ fs' = links[turn].nodes /\ callback' = FALSE /\ failed' = {}
    /\ LET top == Ls(fs', <<Slash>>, FALSE)
       IN IF Len(top) = 1 /\ disk[<< >>] = "dir"
          THEN /\ root' = top[1].h
               /\ todo' = <<Task(top[1], << >>, NodePath(fs', top[1].h))>> /\ turn' = turn
          ELSE root' = None /\ todo' = << >> /\ turn' = turn + 1
    /\ UNCHANGED <<disk, said, dry, broken, added, links, stream, curFile, printed, notOpened, status>>

\* mega_session_close forgets the callback, which is set again once the folder
\* is open.  A folder with more than one node at its top is given up.
OpenFolder ==
    /\ Turn("folder") /\ MayRun /\ ~stream
    /\ fs' = links[turn].nodes /\ callback' = TRUE /\ failed' = {}
    /\ LET top == Ls(fs', <<Slash>>, FALSE)
       IN IF Len(top) = 1 /\ disk[<< >>] = "dir"
          THEN /\ root' = top[1].h
               /\ todo' = <<Task(top[1], << >>, NodePath(fs', top[1].h))>> /\ turn' = turn
          ELSE root' = None /\ todo' = << >> /\ turn' = turn + 1
    /\ UNCHANGED <<disk, said, dry, broken, added, links, stream, curFile, printed, notOpened, status>>

\* The session was closed before the folder could not be opened.
OpenFolderFails ==
    /\ Turn("folder") /\ MayRun /\ ~stream
    /\ fs' = << >> /\ callback' = FALSE
    /\ notOpened' = notOpened \cup {turn}
    /\ turn' = turn + 1
    /\ UNCHANGED <<disk, todo, said, failed, dry, broken, added, links, stream, root, curFile, printed, status>>

\* A step of the copy; mega_session_get announces the file it found.
CopyStep ==
    /\ root # None /\ DownStep
    /\ LET t == Head(todo)
           n == Stat(fs, t.rpath)
       IN IF t.node.type = "file" /\ disk[t.path] = None /\ n # None
          THEN Announced(n.name) ELSE UNCHANGED curFile
    /\ UNCHANGED <<links, stream, turn, root, callback, printed, notOpened, status>>

FolderDone ==
    /\ root # None /\ todo = << >>
    /\ root' = None /\ turn' = turn + 1
    /\ UNCHANGED <<fs, disk, todo, said, failed, dry, broken, added, links, stream, callback, curFile, printed, notOpened, status>>

\* Not a link of either form.
Skip ==
    /\ Turn("junk") /\ MayRun
    /\ turn' = turn + 1
    /\ UNCHANGED <<fs, disk, todo, said, failed, dry, broken, added, links, stream, root, callback, curFile, printed, notOpened, status>>

\* A folder cannot be streamed.
StreamFolder ==
    /\ Turn("folder") /\ MayRun /\ stream
    /\ status' = 1
    /\ UNCHANGED <<fs, disk, todo, said, failed, dry, broken, added, links, stream, turn, root, callback, curFile, printed, notOpened>>

\* The status counts the file links that failed.
Finish ==
    /\ status = None /\ root = None /\ turn > Len(links) /\ MayRun
    /\ status' = Cardinality({k \in DOMAIN links : links[k].kind = "file"}) - Cardinality(printed)
    /\ UNCHANGED <<fs, disk, todo, said, failed, dry, broken, added, links, stream, turn, root, callback, curFile, printed, notOpened>>

LinkUserWrites ==
    /\ UserAdds
    /\ UNCHANGED <<links, stream, turn, root, callback, curFile, printed, notOpened, status>>

LinkInitFrom(command, local) ==
    /\ links = command.links /\ stream = command.stream /\ disk = local
    /\ fs = << >> /\ todo = << >> /\ said = {} /\ failed = {} /\ dry = FALSE
    /\ broken = FALSE /\ added = 0
    /\ turn = 1 /\ root = None /\ callback = TRUE /\ curFile = None
    /\ printed = {} /\ notOpened = {} /\ status = None

LinkInit == \E command \in CommandLines, local \in Locals : LinkInitFrom(command, local)

LinkNext ==
    \/ Refused \/ FileLink \/ FileLinkFails \/ OpenFolder \/ OpenFolderFails
    \/ CopyStep \/ FolderDone \/ Skip \/ StreamFolder \/ Finish \/ LinkUserWrites

LinkSpec == LinkInit /\ [][LinkNext]_linkVars

-----------------------------------------------------------------------------
\* A folder link ends with every node of its folder on the disk or reported,
\* whatever the links before it left in the session and on the disk
\* (dl.c:69-145).
FolderAccounted == (turn \in DOMAIN links /\ root # None /\ todo = << >>) => Accounted

\* The name printed for a file link is the name of the file it downloaded
\* (docs/megadl.txt:43-44: "Print names/paths of successfully downloaded files"),
\* as long as every folder link before it could be opened: mega_session_close
\* drops the callback the name comes by, and main sets it again (dl.c:245).
PrintsWhileWatched ==
    \A p \in printed : p.name = links[p.at].name \/ \E k \in notOpened : k < p.at

\* What megadl leaves on the disk and what it prints agree.
LinksAccounted == FolderAccounted /\ PrintsWhileWatched
=============================================================================
