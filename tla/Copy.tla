-------------------------------- MODULE Copy ---------------------------------
(***************************************************************************)
(* megacopy (tools/copy.c): a local directory to a remote one, or the      *)
(* other way (DownSync); perhaps first with --dryrun and then for real.    *)
(* Exit is with status 0 whatever failed below the two directories.        *)
(***************************************************************************)
EXTENDS DownSync

CONSTANTS
    Sides,      \* what there may be at first: records of download (opt_download), remote (a
                \* list of nodes with the remote root) and local (a function on LocalPaths)
    RemotePath, \* opt_remote_path
    NewHandles  \* handles the server gives to new nodes

\* What is above something on the disk is a directory.
IsTree(local) ==
    \A p \in LocalPaths : local[p] # None =>
        \A k \in 0 .. Len(p) - 1 :
            SubSeq(p, 1, k) \in LocalPaths /\ local[SubSeq(p, 1, k)] = "dir"

\* What is taken of the two directories when a download is proved about, and of
\* the path: it is none that path_simplify makes NULL of.
CopyAssumption ==
    /\ PathsAssumption /\ DownSyncAssumption
    /\ \A side \in Sides : OnDisk(side.local) /\ (side.download => Fits(side.remote))
    /\ RemotePath \in Seq(Range(RemotePath))
    /\ None \notin Seq(Range(RemotePath) \cup {Slash, DotDot, Empty})

\* The names, handles and symbols there can be.
LocalNames == UNION {Range(p) : p \in LocalPaths}
AllHandles == NewHandles \cup (UNION {{n.h : n \in Range(side.remote)} : side \in Sides})
AllSymbols ==
    (UNION {Symbols(side.remote) : side \in Sides}) \cup LocalNames \cup Range(RemotePath)
        \cup {Slash, DotDot, Empty}

\* What is taken of them when an upload is proved about: the local directory is a
\* tree of finitely many paths, the server gives handles that are new, and each
\* local path has a remote one that fits into a path buffer.
UploadAssumption ==
    /\ PathsAssumption /\ DownSyncAssumption
    /\ IsFiniteSet(LocalPaths) /\ User \notin {"dir", "other", None}
    /\ \A p \in LocalPaths : p \in Seq(LocalNames)
    /\ LocalNames \cap {Slash, Dot, DotDot, Empty} = {}
    /\ \A side \in Sides :
          /\ side.remote \in Seq(Range(side.remote)) /\ Forest(side.remote)
          /\ \A n \in Range(side.remote) : n.h \notin NewHandles
          /\ ~side.download => IsTree(side.local)
    /\ RemotePath \in Seq(Range(RemotePath))
    /\ \A p \in LocalPaths : Len(Simplify(RemotePath \o TextOf(p))) < MaxPath
    /\ None \notin NewHandles /\ None \notin Seq(AllSymbols)
    /\ None \notin [h : NewHandles, parent : AllHandles, name : LocalNames, type : {"dir", "file"}]

VARIABLES
    download,   \* opt_download
    pc,         \* "start", "copy", "done", "again" (after a dry run)
    exit,       \* the exit status
    foretold,   \* after a dry run the one set of lines it said, none before
    saved,      \* mega_session_save: the handles in the cache
    cut,        \* local directories whose reading stopped at an error nobody saw
    skipped     \* the special files with a line "Skipping file", and what that line names

vars == <<fs, disk, todo, said, failed, dry, broken, added, download, root, pc, exit, foretold, saved, cut, skipped>>

-----------------------------------------------------------------------------
(* main.                                                                    *)

\* Mutant of Start: a dry run ends before it has said anything.
StartDryReturns ==
    /\ pc \in {"start", "again"}
    /\ LET n == Stat(fs, RemotePath)
       IN /\ n # None /\ ~IsFile(n)
          /\ download \/ disk[<< >>] = "dir"
          /\ root' = n.h
          /\ todo' = IF dry THEN << >> ELSE <<Task(n, << >>, RemotePath)>>
    /\ pc' = "copy"
    /\ UNCHANGED <<fs, disk, said, failed, dry, broken, added, download, exit, foretold, saved, cut, skipped>>

\* Both directories have to be there, but a local one to download to is made.
Start ==
    /\ pc \in {"start", "again"}
    /\ LET n == Stat(fs, RemotePath)
       IN /\ n # None /\ ~IsFile(n)
          /\ download \/ disk[<< >>] = "dir"
          /\ root' = n.h
          /\ todo' = <<Task(n, << >>, RemotePath)>>
    /\ pc' = "copy"
    /\ UNCHANGED <<fs, disk, said, failed, dry, broken, added, download, exit, foretold, saved, cut, skipped>>

StartFails ==
    /\ pc \in {"start", "again"}
    /\ LET n == Stat(fs, RemotePath)
       IN n = None \/ IsFile(n) \/ (~download /\ disk[<< >>] # "dir")
    /\ exit' = 1 /\ pc' = "done"
    /\ UNCHANGED <<fs, disk, todo, said, failed, dry, broken, added, download, root, foretold, saved, cut, skipped>>

\* Nothing is left to do; an upload saves the session.
End ==
    /\ pc = "copy" /\ todo = << >>
    /\ exit' = 0 /\ pc' = "done"
    /\ saved' = IF download THEN saved ELSE HandlesOf
    /\ UNCHANGED <<fs, disk, todo, said, failed, dry, broken, added, download, root, foretold, cut, skipped>>

\* After a dry run the user runs the tool for real.
Again ==
    /\ pc = "done" /\ dry /\ exit = 0
    /\ foretold' = {said} /\ said' = {} /\ failed' = {} /\ dry' = FALSE /\ exit' = None
    /\ pc' = "again" /\ cut' = {} /\ skipped' = {}
    /\ UNCHANGED <<fs, disk, todo, broken, added, download, root, saved>>

-----------------------------------------------------------------------------
(* up_sync_dir, up_sync_file.                                               *)

UpTurn == pc = "copy" /\ ~download /\ todo # << >>

\* The entries of a local directory, in an order the system chooses.
Entries(path) == {p \in LocalPaths : p # << >> /\ Front(p) = path /\ disk[p] # None}

UpTasks(t) ==
    {[i \in DOMAIN order |-> Task(None, order[i], t.rpath \o <<Slash, Last(order[i])>>)] :
        order \in SetToSeqs(Entries(t.path))}

\* The directory part of a path (g_path_get_dirname of the simplified path).
Parent(path) ==
    LET at == {i \in DOMAIN path : path[i] = Slash}
    IN SubSeq(path, 1, CHOOSE i \in at : \A k \in at : k <= i)

Directory(p) == IF Len(p) <= 1 THEN None ELSE Stat(fs, Front(p))
ParentNode(rpath) == Directory(Parent(Simplify(rpath)))

\* mega_session_mkdir and mega_session_put refuse the top level, and a parent
\* that is not there or is a file.  NewHandles bounds how many nodes are added.
IsDir(n) == n # None /\ ~IsFile(n)
MayAdd(rpath) == IsDir(ParentNode(rpath)) /\ NewHandles \ HandlesOf # {}

Added(rpath, type) ==
    LET h == CHOOSE h \in NewHandles : h \notin HandlesOf
    IN Append(fs, [h |-> h, parent |-> ParentNode(rpath).h, name |-> Last(Simplify(rpath)), type |-> type])

\* Mutant of UpDir: a directory the other side has is not entered.
UpDirOnce ==
    /\ UpTurn /\ disk[Head(todo).path] = "dir"
    /\ LET t == Head(todo)
           n == Stat(fs, t.rpath)
       IN /\ t.path # << >> /\ n = None => dry \/ MayAdd(t.rpath)
          /\ fs' = IF t.path # << >> /\ n = None /\ ~dry THEN Added(t.rpath, "dir") ELSE fs
          /\ said' = IF t.path # << >> /\ n = None THEN said \cup {<<"D", t.path>>} ELSE said
          /\ \E tasks \in UpTasks(t) :
                todo' = (IF t.path = << >> \/ n = None THEN tasks ELSE << >>) \o Tail(todo)
    /\ UNCHANGED <<disk, failed, dry, broken, added, download, root, pc, exit, foretold, saved, cut, skipped>>

\* A directory that is not remote yet is made; no question is asked about the
\* one the tool was started for.
MakeRemote(t) ==
    LET n == Stat(fs, t.rpath)
        new == t.path # << >> /\ n = None
    IN /\ t.path = << >> \/ ~IsFile(n)
       /\ new => dry \/ MayAdd(t.rpath)
       /\ fs' = IF new /\ ~dry THEN Added(t.rpath, "dir") ELSE fs
       /\ said' = IF new THEN said \cup {<<"D", t.path>>} ELSE said

\* Its entries follow.
UpDir ==
    /\ UpTurn /\ disk[Head(todo).path] = "dir"
    /\ MakeRemote(Head(todo))
    /\ \E tasks \in UpTasks(Head(todo)) : todo' = tasks \o Tail(todo)
    /\ UNCHANGED <<disk, failed, dry, broken, added, download, root, pc, exit, foretold, saved, cut, skipped>>

\* g_file_get_relative_path(root, file): none for the directory the tool was
\* started for, so a line about that one names nothing.
RelativePath(path) == IF path = << >> THEN None ELSE path

\* The directory cannot be made, or cannot be read.
UpDirFails ==
    /\ UpTurn /\ disk[Head(todo).path] = "dir"
    /\ LET t == Head(todo)
           n == Stat(fs, t.rpath)
           new == t.path # << >> /\ n = None
       IN /\ t.path = << >> \/ ~IsFile(n)
          /\ said' = IF new THEN said \cup {<<"D", t.path>>} ELSE said
          /\ \/ new /\ ~dry /\ fs' = fs
             \/ new /\ ~dry /\ MayAdd(t.rpath) /\ fs' = Added(t.rpath, "dir")
             \/ (~new \/ dry) /\ fs' = fs
          /\ failed' = failed \cup {RelativePath(t.path)}
    /\ todo' = Tail(todo) /\ broken' = TRUE
    /\ UNCHANGED <<disk, dry, added, download, root, pc, exit, foretold, saved, cut, skipped>>

\* g_file_enumerator_next_file fails after some entries, which looks like the end.
UpDirCut ==
    /\ UpTurn /\ disk[Head(todo).path] = "dir"
    /\ MakeRemote(Head(todo))
    /\ \E tasks \in UpTasks(Head(todo)) : \E k \in 0 .. Len(tasks) - 1 :
          todo' = SubSeq(tasks, 1, k) \o Tail(todo)
    /\ cut' = cut \cup {Head(todo).path} /\ broken' = TRUE
    /\ UNCHANGED <<disk, failed, dry, added, download, root, pc, exit, foretold, saved, skipped>>

\* Something with the name is remote already: a file for a directory, anything
\* for a file.
UpRefuse ==
    /\ UpTurn
    /\ LET t == Head(todo)
           n == Stat(fs, t.rpath)
       IN /\ \/ disk[t.path] = "dir" /\ t.path # << >> /\ IsFile(n)
             \/ disk[t.path] = User /\ n # None
          /\ Refuse(t)
    /\ UNCHANGED <<fs, dry, broken, added, download, root, pc, exit, foretold, saved, cut, skipped>>

\* What is neither a file nor a directory is skipped, with a line that names the
\* directory it is in.
UpSkip ==
    /\ UpTurn
    /\ LET path == Head(todo).path
       IN /\ disk[path] = "other"
          /\ skipped' = skipped \cup {<<path, RelativePath(Front(path))>>}
    /\ todo' = Tail(todo)
    /\ UNCHANGED <<fs, disk, said, failed, dry, broken, added, download, root, pc, exit, foretold, saved, cut>>

\* A file is uploaded when its path leads nowhere.
UpFile ==
    /\ UpTurn /\ disk[Head(todo).path] = User
    /\ LET t == Head(todo)
       IN /\ Stat(fs, t.rpath) = None
          /\ dry \/ MayAdd(t.rpath)
          /\ fs' = IF dry THEN fs ELSE Added(t.rpath, "file")
          /\ said' = said \cup {<<"F", t.path>>}
    /\ todo' = Tail(todo)
    /\ UNCHANGED <<disk, failed, dry, broken, added, download, root, pc, exit, foretold, saved, cut, skipped>>

\* mega_session_put fails.
UpFileFails ==
    /\ UpTurn /\ disk[Head(todo).path] = User /\ ~dry
    /\ LET t == Head(todo)
       IN /\ Stat(fs, t.rpath) = None
          /\ said' = said \cup {<<"F", t.path>>}
          /\ failed' = failed \cup {t.path}
    /\ todo' = Tail(todo) /\ broken' = TRUE
    /\ UNCHANGED <<fs, disk, dry, added, download, root, pc, exit, foretold, saved, cut, skipped>>

Down ==
    /\ pc = "copy" /\ download /\ DownStep
    /\ UNCHANGED <<download, root, pc, exit, foretold, saved, cut, skipped>>

UserWrites == UserAdds /\ UNCHANGED <<download, root, pc, exit, foretold, saved, cut, skipped>>

InitFrom(side, dryRun) ==
    /\ fs = side.remote /\ disk = side.local /\ download = side.download /\ dry = dryRun
    /\ todo = << >> /\ said = {} /\ failed = {} /\ broken = FALSE /\ added = 0
    /\ root = None /\ pc = "start" /\ exit = None /\ foretold = {} /\ saved = {} /\ cut = {} /\ skipped = {}

Init == \E side \in Sides, dryRun \in BOOLEAN : InitFrom(side, dryRun)

Next ==
    \/ Start \/ StartFails \/ End \/ Again
    \/ UpDir \/ UpDirFails \/ UpDirCut \/ UpRefuse \/ UpSkip \/ UpFile \/ UpFileFails
    \/ Down \/ UserWrites

Spec == Init /\ [][Next]_vars

-----------------------------------------------------------------------------
PathsDiffer == \A m, n \in Nodes : NamesOf(fs, m.h) = NamesOf(fs, n.h) => m = n

\* A download ends with every node below the remote directory on the disk, or
\* with an error printed for it or for a directory above it, though it exits
\* with 0 either way (copy.c:160-243 and 298-300).
DownloadAccounted ==
    (pc = "done" /\ exit = 0 /\ download /\ ~dry) => Accounted

\* An upload ends with every local file and directory remote, as a file or a
\* directory, and every special file skipped with a line that names the directory
\* it is in, if that has a name, unless there is an error for it or for a directory
\* above it or one that names nothing, or the reading of a directory stopped at an
\* error (copy.c:58-156).
UploadReported ==
    (pc = "done" /\ exit = 0 /\ ~download /\ ~dry /\ added = 0) =>
        \A p \in LocalPaths : disk[p] # None /\ p # << >> =>
            LET n == Stat(fs, RemotePath \o TextOf(p))
            IN \/ IF disk[p] = "other" THEN <<p, RelativePath(Front(p))>> \in skipped
                  ELSE n # None /\ (IsFile(n) <=> disk[p] = User)
               \/ \E k \in 0 .. Len(p) : SubSeq(p, 1, k) \in failed \cup cut
               \/ None \in failed

\* What an upload adds has a path that no other node has: nothing remote is
\* replaced or hidden (docs/megacopy.txt:19; the stat of the path in the
\* session's own list).
AddedApart ==
    \A m, n \in Nodes :
        m.h \in NewHandles /\ NodePath(fs, m.h) = NodePath(fs, n.h) => m = n

\* What is not there after an upload was reported, and what is there is apart.
UploadAccounted == UploadReported /\ AddedApart

\* A dry run changes nothing, in the local directory or in the remote one, but
\* what the user changes meanwhile (the opt_dryrun tests).
DryRunChangesNothing == dry => fs' = fs /\ (disk' = disk \/ added' # added)

\* The run that follows a dry run says what the dry run said, nothing after one
\* that said nothing, unless a call fails or the user changes the directory
\* (docs/megacopy.txt:41-42: "just print what would be done").  A download of
\* nodes that share a path is the exception: a dry run makes nothing, so it does
\* not see that the second is in the way of the first.
DryRunTellsAll ==
    (/\ pc = "done" /\ exit = 0 /\ ~dry /\ ~broken /\ added = 0
     /\ download => PathsDiffer)
    => \A lines \in foretold : said = lines

\* A dry run foretells the run and leaves it to the run to do.
DryRunForetells == [][DryRunTellsAll' /\ DryRunChangesNothing]_vars
=============================================================================
