------------------------------ MODULE DownSync -------------------------------
(***************************************************************************)
(* A remote directory copied to the local disk (tools/copy.c and           *)
(* tools/dl.c: dl_sync_dir, dl_sync_file).  Each directory is entered when *)
(* it is met; its children come from the session's list by handle, and     *)
(* every file is fetched by its path.  The user may put files of their own *)
(* into the local directory at the same time, and any call may fail.       *)
(*                                                                         *)
(* What mega_session_get does with one file is in Download: here it leaves *)
(* the whole file or nothing.                                              *)
(***************************************************************************)
EXTENDS Paths

CONSTANTS
    LocalPaths, \* sequences of names below the local directory, << >> for itself
    User,       \* whose the files are that no download wrote
    MaxUser     \* bound: files the user adds

\* What the constants must satisfy; MCCopy assumes it of the values it gives.
DownSyncAssumption == << >> \in LocalPaths /\ MaxUser \in Nat /\ None # "dir"

VARIABLES
    fs,         \* s->fs_nodes
    disk,       \* the local directory: "dir", the handle of a node's content, User, or None
    root,       \* the handle of the remote directory
    todo,       \* the calls still to make, innermost directory first
    said,       \* the lines "D path" and "F path"
    failed,     \* local paths an error was printed for
    dry,        \* opt_dryrun
    broken,     \* something failed that no dry run could know of
    added       \* files the user added

Nodes == {fs[i] : i \in DOMAIN fs}
HandlesOf == {n.h : n \in Nodes}

IsFile(n) == n \in {m \in Nodes : m.type = "file"}

\* One call of dl_sync_dir or dl_sync_file: the node, the local and the remote path.
Task(n, path, rpath) == [node |-> n, path |-> path, rpath |-> rpath]

ChildTasks(t) ==
    LET children == Children(fs, t.node.h)
        TaskOf(n) == Task(n, Append(t.path, n.name), t.rpath \o <<Slash, n.name>>)
    IN [i \in DOMAIN children |-> TaskOf(children[i])]

\* The task at hand ends with an error; the directory's other children follow.
Refuse(t) ==
    /\ failed' = failed \cup {t.path}
    /\ todo' = Tail(todo)
    /\ UNCHANGED <<disk, said>>

\* What the session may have loaded: nodes that are a forest, and for each the
\* paths below its ancestors among those of the local directory.
Fits(nodes) ==
    /\ nodes \in Seq(Range(nodes)) /\ Forest(nodes)
    /\ \A n \in Range(nodes) :
          LET names == NamesOf(nodes, n.h)
          IN \A k \in 1 .. Len(names) : SubSeq(names, k + 1, Len(names)) \in LocalPaths

OnDisk(local) == local = [p \in LocalPaths |-> local[p]]

-----------------------------------------------------------------------------
\* A directory that is not there is made, one that is there is entered.
EnterDir ==
    /\ todo # << >> /\ Head(todo).node.type # "file"
    /\ LET t == Head(todo)
       IN /\ disk[t.path] \in {None, "dir"}
          /\ disk' = IF dry THEN disk ELSE [disk EXCEPT ![t.path] = "dir"]
          /\ said' = IF disk[t.path] = None THEN said \cup {<<"D", t.path>>} ELSE said
          /\ todo' = ChildTasks(t) \o Tail(todo)
    /\ UNCHANGED <<fs, failed, dry, broken, added>>

\* g_file_make_directory fails.
MakeDirFails ==
    /\ todo # << >> /\ Head(todo).node.type # "file" /\ ~dry
    /\ LET t == Head(todo)
       IN /\ disk[t.path] = None
          /\ said' = said \cup {<<"D", t.path>>}
          /\ failed' = failed \cup {t.path}
    /\ todo' = Tail(todo) /\ broken' = TRUE
    /\ UNCHANGED <<fs, disk, dry, added>>

\* Something else has the directory's name.
RefuseDir ==
    /\ todo # << >> /\ Head(todo).node.type # "file"
    /\ disk[Head(todo).path] \notin {None, "dir"}
    /\ Refuse(Head(todo))
    /\ UNCHANGED <<fs, dry, broken, added>>

\* Mutant of GetFile: the file's existence is not asked about.
GetFileOver ==
    /\ todo # << >> /\ Head(todo).node.type = "file"
    /\ LET t == Head(todo)
           n == Stat(fs, t.rpath)
       IN /\ dry \/ IsFile(n)
          /\ disk' = IF dry THEN disk ELSE [disk EXCEPT ![t.path] = n.h]
          /\ said' = said \cup {<<"F", t.path>>}
    /\ todo' = Tail(todo)
    /\ UNCHANGED <<fs, failed, dry, broken, added>>

\* A file is fetched by its remote path, which may lead to another node of that
\* name: the first one.
GetFile ==
    /\ todo # << >> /\ Head(todo).node.type = "file"
    /\ LET t == Head(todo)
           n == Stat(fs, t.rpath)
       IN /\ disk[t.path] = None
          /\ dry \/ IsFile(n)
          /\ disk' = IF dry THEN disk ELSE [disk EXCEPT ![t.path] = n.h]
          /\ said' = said \cup {<<"F", t.path>>}
    /\ todo' = Tail(todo)
    /\ UNCHANGED <<fs, failed, dry, broken, added>>

\* mega_session_get fails: the path leads nowhere or to no file, or the download
\* does, or its directory could not be made or is no longer there.
GetFails ==
    /\ todo # << >> /\ Head(todo).node.type = "file" /\ ~dry
    /\ LET t == Head(todo)
           n == Stat(fs, t.rpath)
       IN /\ disk[t.path] = None
          /\ said' = said \cup {<<"F", t.path>>}
          /\ failed' = failed \cup {t.path}
          /\ broken' = (broken \/ IsFile(n))
    /\ todo' = Tail(todo)
    /\ UNCHANGED <<fs, disk, dry, added>>

\* Mutant of RefuseFile: an existing file is passed over in silence.
RefuseFileSilently ==
    /\ todo # << >> /\ Head(todo).node.type = "file"
    /\ disk[Head(todo).path] # None
    /\ todo' = Tail(todo)
    /\ UNCHANGED <<fs, disk, said, failed, dry, broken, added>>

\* "File already exists".
RefuseFile ==
    /\ todo # << >> /\ Head(todo).node.type = "file"
    /\ disk[Head(todo).path] # None
    /\ Refuse(Head(todo))
    /\ UNCHANGED <<fs, dry, broken, added>>

DownStep ==
    EnterDir \/ MakeDirFails \/ RefuseDir \/ GetFile \/ GetFails \/ RefuseFile

\* The user adds a file to a local directory.
UserAdds ==
    /\ added < MaxUser
    /\ \E p \in LocalPaths \ {<< >>} :
          /\ disk[p] = None /\ disk[Front(p)] = "dir"
          /\ disk' = [disk EXCEPT ![p] = User]
    /\ added' = added + 1
    /\ UNCHANGED <<fs, todo, said, failed, dry, broken>>

-----------------------------------------------------------------------------
\* The node with a handle and all below it: what is in every set that has the
\* handle and, with a node, its children.
Under(h) ==
    {g \in HandlesOf : \A S \in SUBSET HandlesOf :
        h \in S /\ (\A n \in Nodes : n.parent \in S => n.h \in S) => g \in S}

\* The path of a node below the directory that is copied.
PathBelow(n) ==
    LET names == NamesOf(fs, n.h)
        top == Len(NamesOf(fs, root))
    IN SubSeq(names, top + 1, Len(names))

\* A file on the disk is the content of a node of that path.
Holds(p) ==
    disk[p] \in {n.h : n \in {n \in Nodes : NamesOf(fs, n.h) = NamesOf(fs, root) \o p}}

\* Each node below the directory is on the disk, or an error was printed for its
\* path or for a directory on the way to it.
Accounted ==
    \A n \in Nodes : n.h \in Under(root) =>
        LET p == PathBelow(n)
        IN \/ IF n.type = "file" THEN Holds(p) ELSE disk[p] = "dir"
           \/ \E k \in 0 .. Len(p) : SubSeq(p, 1, k) \in failed

\* No file or directory of the local side is overwritten or removed, the
\* user's least of all (dl_sync_file's test and g_file_create in
\* mega_session_get; docs/megacopy.txt:19).
NothingOverwritten ==
    [][\A p \in LocalPaths : disk[p] # None => disk'[p] = disk[p]]_disk
=============================================================================
