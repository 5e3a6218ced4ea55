----------------------------- MODULE SessionFs ------------------------------
(***************************************************************************)
(* The node list a mega_session keeps of the remote filesystem             *)
(* (libtools/oldmega.c: s->fs_nodes, update_pathmap, refresh, stat, mkdir, *)
(* rm, put), next to the tree the server really holds.  The session sees   *)
(* the server only in mega_session_refresh and in the answers to its own   *)
(* commands; other clients of the account change it meanwhile.  A command  *)
(* is one ApiCall: the server may carry it out more than once, and the     *)
(* call may fail although it was carried out.                              *)
(*                                                                         *)
(* A node's parent pointer is named by the handle it points to.  A path is *)
(* the sequence of its elements.  /Trash behaves as /Root and is left out. *)
(***************************************************************************)
EXTENDS Integers, FiniteSets, SequencesExt

CONSTANTS
    Handles,            \* handles the server gives to files and folders
    Names,              \* file and folder names
    Users,              \* contacts: handle and e-mail address in one
    Root, Inbox, Network,
    None,               \* NULL
    MaxRuns,            \* bound: times one command is carried out
    MaxNodes            \* bound: nodes in the list when a node is to be added

ASSUME FsAssumption ==
    /\ MaxRuns \in Nat /\ MaxNodes \in Nat
    /\ Cardinality({Root, Inbox, Network, None}) = 4
    /\ (Handles \cup Users) \cap {Root, Inbox, Network, None} = {}
    /\ Handles \cap Users = {}

VARIABLES
    server,    \* the server's files and folders, by handle
    contacts,  \* the server's contact list
    local,     \* s->fs_nodes
    call,      \* the command in progress
    drift      \* the server has changed in a way the session was not told of

vars == <<server, contacts, local, call, drift>>

NodeTypes == {"FILE", "FOLDER", "ROOT", "INBOX", "NETWORK", "CONTACT"}
AnyHandle == Handles \cup Users \cup {Root, Inbox, Network}

ServerNodes == [parent : Handles \cup {Root}, name : Names,
                type : {"FILE", "FOLDER"}, mine : BOOLEAN]

\* The names of the system nodes are those mega_node_parse and
\* mega_session_refresh give them; a contact's is its address.
SystemNode(h, name, type) ==
    [handle |-> h, name |-> name, type |-> type, mine |-> TRUE,
     parentHandle |-> None, parent |-> None]

\* mega_node_parse of a file or folder.
Parsed(h, rec) ==
    [handle |-> h, name |-> rec.name, type |-> rec.type, mine |-> rec.mine,
     parentHandle |-> rec.parent, parent |-> None]

\* mega_node_parse_user.
ParsedUser(u) ==
    [handle |-> u, name |-> u, type |-> "CONTACT", mine |-> TRUE,
     parentHandle |-> Network, parent |-> None]

NoCall == [kind |-> "none", path |-> << >>, target |-> None, name |-> None,
           runs |-> 0, made |-> None]

TypeOK ==
    /\ DOMAIN server \subseteq Handles
    /\ \A h \in DOMAIN server : server[h] \in ServerNodes
    /\ contacts \subseteq Users
    /\ local \in Seq([handle : AnyHandle, name : Names \cup Users \cup {"Root", "Inbox", "Contacts"},
                      type : NodeTypes, mine : BOOLEAN,
                      parentHandle : AnyHandle \cup {None}, parent : AnyHandle \cup {None}])
    /\ call.kind \in {"none", "mkdir", "put", "rm", "add_user", "rm_user"}
    /\ call.target \in AnyHandle \cup {None} /\ call.made \in Handles \cup {None}
    /\ call.runs \in 0 .. MaxRuns
    /\ drift \in BOOLEAN

-----------------------------------------------------------------------------
(* update_pathmap, mega_node_get_path, mega_session_stat.                   *)

HandlesOf(list) == {list[i].handle : i \in DOMAIN list}

\* update_pathmap: a node's parent is looked up by its parent handle, a
\* contact's by its su_handle, which mega_node_parse_user never sets.
NewParent(list, n) ==
    IF n.type = "CONTACT" \/ n.parentHandle = None THEN n.parent
    ELSE IF n.parentHandle \in HandlesOf(list) THEN n.parentHandle
    ELSE None

UpdatePathmap(list) ==
    [i \in DOMAIN list |-> [list[i] EXCEPT !.parent = NewParent(list, list[i])]]

\* Of two nodes with one handle the hash table keeps the later.
IndexOf(list, h) ==
    CHOOSE i \in DOMAIN list :
        /\ list[i].handle = h
        /\ \A j \in DOMAIN list : list[j].handle = h => j <= i

\* mega_node_get_path of every node: the names up the parent pointers.
Paths(list) ==
    LET path[i \in DOMAIN list] ==
            IF list[i].parent = None THEN <<list[i].name>>
            ELSE Append(path[IndexOf(list, list[i].parent)], list[i].name)
    IN path

\* mega_session_stat: the first node with that path, 0 when there is none.
StatIndex(list, p) ==
    LET paths == Paths(list)
        found == {i \in DOMAIN list : paths[i] = p}
    IN IF found = {} THEN 0 ELSE CHOOSE i \in found : \A j \in found : i <= j

Stat(p) == local[StatIndex(local, p)]
Exists(p) == StatIndex(local, p) # 0

Dirname(p) == SubSeq(p, 1, Len(p) - 1)
Basename(p) == p[Len(p)]

\* mega_node_is_writable.
Writable(n) ==
    \/ n.type \in {"CONTACT", "ROOT", "NETWORK"}
    \/ n.type \in {"FILE", "FOLDER"} /\ n.mine

\* Paths a user may name: any depth the tree can have.
Tops == {<<"Root">>, <<"Inbox">>, <<"Contacts">>} \cup {<<n>> : n \in Names}
Elements == Names \cup Users
UserPaths == Tops \cup {Append(t, n) : t \in Tops, n \in Elements}
                  \cup {<<"Root", m, n>> : m \in Names, n \in Names}

-----------------------------------------------------------------------------
(* mega_session_refresh.                                                    *)

\* Every order the server may list its nodes in.
Orders == {f \in [1 .. Cardinality(DOMAIN server) -> DOMAIN server] :
              \A i, j \in DOMAIN f : f[i] = f[j] => i = j}

UserOrders == {f \in [1 .. Cardinality(contacts) -> contacts] :
                  \A i, j \in DOMAIN f : f[i] = f[j] => i = j}

\* Mutant of Imported: the nodes of the last refresh are kept.
ImportedOnTop(files, users) ==
    local \o [i \in DOMAIN files |-> Parsed(files[i], server[files[i]])]

\* The 'f' array, the node for contacts, then the 'u' array.
Imported(files, users) ==
    <<SystemNode(Root, "Root", "ROOT"), SystemNode(Inbox, "Inbox", "INBOX")>>
    \o [i \in DOMAIN files |-> Parsed(files[i], server[files[i]])]
    \o <<SystemNode(Network, "Contacts", "NETWORK")>>
    \o [i \in DOMAIN users |-> ParsedUser(users[i])]

Refresh ==
    /\ call.kind = "none"
    /\ \E files \in Orders, users \in UserOrders :
          local' = UpdatePathmap(Imported(files, users))
    /\ drift' = FALSE
    /\ UNCHANGED <<server, contacts, call>>

-----------------------------------------------------------------------------
(* The commands: the checks on the node list, then the call.                *)

Begin(kind, path, target, name) ==
    /\ call.kind = "none"
    /\ kind \in {"mkdir", "put", "add_user"} => Len(local) < MaxNodes
    /\ call' = [kind |-> kind, path |-> path, target |-> target, name |-> name,
                runs |-> 0, made |-> None]
    /\ UNCHANGED <<server, contacts, local, drift>>

\* Mutant of Mkdir: the path is not looked up first.
MkdirUnchecked(p) ==
    /\ Len(p) > 1 /\ Exists(Dirname(p))
    /\ Stat(Dirname(p)).type \notin {"FILE", "INBOX", "NETWORK"}
    /\ Writable(Stat(Dirname(p)))
    /\ Basename(p) \in Names
    /\ Begin("mkdir", p, Stat(Dirname(p)).handle, Basename(p))

\* mega_session_mkdir up to the API call.
Mkdir(p) ==
    /\ ~Exists(p) /\ Len(p) > 1 /\ Exists(Dirname(p))
    /\ LET parent == Stat(Dirname(p))
       IN /\ parent.type \notin {"FILE", "INBOX"}
          /\ Writable(parent)
          /\ IF parent.type = "NETWORK"
             THEN Basename(p) \in Users /\ Begin("add_user", p, parent.handle, Basename(p))
             ELSE Basename(p) \in Names /\ Begin("mkdir", p, parent.handle, Basename(p))

\* mega_session_rm up to the API call: system nodes are not removed.
Rm(p) ==
    /\ Exists(p) /\ Writable(Stat(p))
    /\ \/ Stat(p).type \in {"FILE", "FOLDER"} /\ Begin("rm", p, Stat(p).handle, None)
       \/ Stat(p).type = "CONTACT" /\ Begin("rm_user", p, Stat(p).handle, Stat(p).name)

\* A node mega_session_put may upload into.
Uploadable(n) == Writable(n) /\ n.type \notin {"NETWORK", "CONTACT"}

\* mega_session_put up to its last API call, of a local file named base: into
\* an existing directory, or as a new name beside existing nodes.  The upload
\* itself changes neither list nor tree.
Put(p, base) ==
    \/ /\ Exists(p) /\ Stat(p).type # "FILE"
       /\ ~Exists(Append(p, base))
       /\ Uploadable(Stat(p))
       /\ Begin("put", Append(p, base), Stat(p).handle, base)
    \/ /\ ~Exists(p) /\ Len(p) > 1 /\ Exists(Dirname(p))
       /\ Basename(p) \in Names
       /\ Stat(Dirname(p)).type # "FILE" /\ Uploadable(Stat(Dirname(p)))
       /\ Begin("put", p, Stat(Dirname(p)).handle, Basename(p))

\* Mutants of Appended and AppendedFile: the parent is not set.
AppendedUnlinked(n) == Append(local, n)
\* The node list once the call has succeeded: mkdir appends and
\* updates all parents, put appends and sets its own.
Appended(n) == UpdatePathmap(Append(local, n))

AppendedFile(n, parent) == Append(local, [n EXCEPT !.parent = parent])

\* rm takes the node it found out of the list, and only that.
Removed(p) ==
    LET k == StatIndex(local, p)
    IN UpdatePathmap(SubSeq(local, 1, k - 1) \o SubSeq(local, k + 1, Len(local)))

\* The node in the answer to mkdir and put.
Made(type) == Parsed(call.made, [parent |-> call.target, name |-> call.name,
                                 type |-> type, mine |-> TRUE])

\* Mutant of Succeed: an answer counts although the command never ran.
SucceedUnanswered ==
    /\ call.kind # "none"
    /\ local' = CASE call.kind = "mkdir"    -> Appended(Made("FOLDER"))
                  [] call.kind = "add_user" -> Appended(ParsedUser(call.name))
                  [] call.kind = "put"      -> AppendedFile(Made("FILE"), call.target)
                  [] OTHER                  -> Removed(call.path)
    /\ call' = NoCall
    /\ UNCHANGED <<server, contacts, drift>>

\* The call returns the answer to its last run.
Succeed ==
    /\ call.kind # "none" /\ call.runs > 0
    /\ local' = CASE call.kind = "mkdir"    -> Appended(Made("FOLDER"))
                  [] call.kind = "add_user" -> Appended(ParsedUser(call.name))
                  [] call.kind = "put"      -> AppendedFile(Made("FILE"), call.target)
                  [] OTHER                  -> Removed(call.path)
    /\ call' = NoCall
    /\ UNCHANGED <<server, contacts, drift>>

\* The call fails, after none or some of its runs: the list stays as it was.
Fail ==
    /\ call.kind # "none"
    /\ call' = NoCall
    /\ drift' = (drift \/ call.runs > 0)
    /\ UNCHANGED <<server, contacts, local>>

-----------------------------------------------------------------------------
(* The server.                                                              *)

IsFolder(h) == h = Root \/ (h \in DOMAIN server /\ server[h].type = "FOLDER")

\* h and everything below it: a parent chain is never longer than the tree.
Below(h) ==
    LET down[d \in 0 .. Cardinality(DOMAIN server)] ==
            IF d = 0 THEN {h}
            ELSE down[d - 1] \cup {c \in DOMAIN server : server[c].parent \in down[d - 1]}
    IN down[Cardinality(DOMAIN server)]

\* A handle is never given twice.
Fresh(h) ==
    /\ h \in Handles \ (DOMAIN server \cup HandlesOf(local))
    /\ h \notin {call.made, call.target}
    /\ \A i \in DOMAIN local : h # local[i].parentHandle

With(h, rec) == [g \in DOMAIN server \cup {h} |-> IF g = h THEN rec ELSE server[g]]
Without(gone) == [g \in DOMAIN server \ gone |-> server[g]]

\* The server carries the command out, perhaps not for the first time.
Run ==
    /\ call.kind # "none" /\ call.runs < MaxRuns
    /\ \/ /\ call.kind \in {"mkdir", "put"} /\ IsFolder(call.target)
          /\ \E h \in Handles :
                /\ Fresh(h)
                /\ server' = With(h, [parent |-> call.target, name |-> call.name, mine |-> TRUE,
                                      type |-> IF call.kind = "put" THEN "FILE" ELSE "FOLDER"])
                /\ call' = [call EXCEPT !.runs = @ + 1, !.made = h]
          /\ UNCHANGED contacts
       \/ /\ call.kind = "rm" /\ call.target \in DOMAIN server
          /\ server' = Without(Below(call.target))
          /\ call' = [call EXCEPT !.runs = @ + 1]
          /\ UNCHANGED contacts
       \/ /\ call.kind \in {"add_user", "rm_user"}
          /\ contacts' = IF call.kind = "add_user" THEN contacts \cup {call.name}
                                                   ELSE contacts \ {call.name}
          /\ call' = [call EXCEPT !.runs = @ + 1]
          /\ UNCHANGED server
    /\ drift' = (drift \/ call.runs > 0)
    /\ UNCHANGED local

\* Another client of the account, or another user of a shared folder.
OtherClient ==
    /\ \/ \E h \in Handles, parent \in DOMAIN server \cup {Root}, n \in Names,
             t \in {"FILE", "FOLDER"}, m \in BOOLEAN :
             /\ Fresh(h) /\ IsFolder(parent)
             /\ server' = With(h, [parent |-> parent, name |-> n, type |-> t, mine |-> m])
       \/ \E h \in DOMAIN server : server' = Without(Below(h))
    /\ drift' = TRUE
    /\ UNCHANGED <<contacts, local, call>>

-----------------------------------------------------------------------------
NoFiles == [h \in {} |-> None]

\* A session that has just logged in to an empty account and refreshed.
Init ==
    /\ server = NoFiles /\ contacts = {}
    /\ local = UpdatePathmap(<<SystemNode(Root, "Root", "ROOT"),
                               SystemNode(Inbox, "Inbox", "INBOX"),
                               SystemNode(Network, "Contacts", "NETWORK")>>)
    /\ call = NoCall /\ drift = FALSE

Next ==
    \/ Refresh
    \/ \E p \in UserPaths : Mkdir(p) \/ Rm(p) \/ \E base \in Names : Put(p, base)
    \/ Run \/ Succeed \/ Fail
    \/ OtherClient

\* A call in progress returns: ApiCall.CallReturns.
Spec == Init /\ [][Next]_vars /\ WF_vars(Succeed \/ Fail)

-----------------------------------------------------------------------------
\* The parent pointers are what update_pathmap would make them, although put
\* sets only its own: none points to a node that is gone, and none is missing.
PathmapCurrent == \A i \in DOMAIN local : local[i].parent = NewParent(local, local[i])

\* The topmost node above node i.
Top == LET top[i \in DOMAIN local] ==
               IF local[i].parent = None THEN i ELSE top[IndexOf(local, local[i].parent)]
       IN top

Attached(i) == local[Top[i]].type \in {"ROOT", "INBOX", "NETWORK"}

\* Unless the server changed behind its back, the list has every file and
\* folder of the server, with its name, type and parent, after any sequence of
\* commands and refreshes; and of the files and folders in the list just those
\* below a system folder are the server's.  What rm leaves of the contents of a
\* directory stays in the list, but below no system folder.
FilesKnown ==
    (~drift /\ call.kind = "none") =>
        /\ DOMAIN server \subseteq HandlesOf(local)
        /\ \A i \in DOMAIN local : local[i].handle \in Handles =>
              (Attached(i) <=> local[i].handle \in DOMAIN server)
        /\ \A i \in DOMAIN local : local[i].handle \in DOMAIN server =>
              LET rec == server[local[i].handle]
              IN /\ local[i].name = rec.name /\ local[i].type = rec.type
                 /\ local[i].parentHandle = rec.parent

\* The path a folder or file was created under leads to it when the command
\* returns, whatever the list held before.
CreatedIsFound ==
    [][call.kind \in {"mkdir", "put"} /\ call'.kind = "none" /\ local' # local
        => LET k == StatIndex(local', call.path)
           IN k # 0 /\ local'[k].handle = call.made]_vars

\* The list never holds two nodes with the handle of one file or folder.
UniqueHandles ==
    \A i, j \in DOMAIN local :
        local[i].handle = local[j].handle /\ i # j => local[i].type = "CONTACT"

\* The list is a tree's: update_pathmap finds each parent, and only one.
WellLinked == PathmapCurrent /\ UniqueHandles

\* Unless the server changed behind its back, no contact is missing from the
\* list: adding one, removing one and importing them all keep it.  The list may
\* have a contact twice, and one of the two after it is removed.
ContactsKnown == (~drift /\ call.kind = "none") => contacts \subseteq HandlesOf(local)

\* Unless the server changed behind its back, the files the session shows are
\* those the server holds, and no contact of the account is missing.
Coherent == FilesKnown /\ ContactsKnown

-----------------------------------------------------------------------------
(* What the documentation says.                                             *)

\* "To allow access to such files, the names of conflicting files are extended
\* by appending dot and their node handle" (docs/remote-paths.txt:12-13):
\* no two nodes have one path.
ConflictsExtended ==
    \A i, j \in DOMAIN local : Paths(local)[i] = Paths(local)[j] => i = j
=============================================================================
