------------------------------- MODULE Listing -------------------------------
(***************************************************************************)
(* megals (tools/ls.c) over the session's list of nodes, with              *)
(* mega_session_addlinks (libtools/oldmega.c) for --export.                *)
(***************************************************************************)
EXTENDS Paths

CONSTANTS
    Names,      \* the names of nodes
    Rank,       \* how strcmp orders them: Names -> Nat
    Trees,      \* the lists of nodes the session may hold
    Commands    \* the command lines: records of args (paths), names, recursive, export

\* What the constants must satisfy; MCNodes assumes it of the values it gives.
ListingAssumption == Rank \in [Names -> Nat]

VARIABLES
    fs,         \* s->fs_nodes
    cmd,        \* the command line; opt_names may be cleared
    j,          \* the next argument
    list,       \* l
    links,      \* n->link of each node: the node it is a link of, or None
    pc,         \* "gather", "sort", "export", "print", "done"
    exit        \* the exit status, or None

vars == <<fs, cmd, j, list, links, pc, exit>>

Nodes == {fs[i] : i \in DOMAIN fs}
HandlesOf == {n.h : n \in Nodes}

-----------------------------------------------------------------------------
\* Without arguments every node is listed; names alone are printed only for
\* one path, not recursively.
GatherAll ==
    /\ pc = "gather" /\ cmd.args = << >>
    /\ list' = fs
    /\ cmd' = [cmd EXCEPT !.names = FALSE]
    /\ pc' = "sort"
    /\ UNCHANGED <<fs, j, links, exit>>

\* One argument: the node it leads to, unless that is a directory and names
\* are asked for, and the nodes below it.
Gather ==
    /\ pc = "gather" /\ j <= Len(cmd.args)
    /\ LET n == Stat(fs, cmd.args[j])
           names == cmd.names /\ Len(cmd.args) = 1 /\ ~cmd.recursive
       IN /\ cmd' = [cmd EXCEPT !.names = names]
          /\ list' = list \o (IF n # None /\ (n.type = "file" \/ ~names) THEN <<n>> ELSE << >>)
                          \o Ls(fs, cmd.args[j], cmd.recursive)
    /\ j' = j + 1
    /\ UNCHANGED <<fs, links, pc, exit>>

Gathered ==
    /\ pc = "gather" /\ cmd.args # << >> /\ j > Len(cmd.args)
    /\ pc' = "sort"
    /\ UNCHANGED <<fs, cmd, j, list, links, exit>>

\* compare_node: nodes whose path does not fit are equal to every other.
Before(a, b) ==
    LET p == NodePath(fs, a.h)
        q == NodePath(fs, b.h)
        Value(c) == IF c = Slash THEN -1 ELSE Rank[c]
    IN /\ p # None /\ q # None
       /\ \/ IsStrictPrefix(p, q)
          \/ \E i \in DOMAIN p \cap DOMAIN q :
                /\ \A k \in 1 .. i - 1 : p[k] = q[k]
                /\ Value(p[i]) < Value(q[i])

Sort ==
    /\ pc = "sort"
    /\ list' = SortSeq(list, Before)
    /\ pc' = IF cmd.export THEN "export" ELSE "print"
    /\ UNCHANGED <<fs, cmd, j, links, exit>>

Requested == SelectSeq(list, LAMBDA n : n.type = "file")

\* The answers to the request for links: a link, or None for an error number
\* in its place, for each of the nodes asked about, in their order.
LinkAnswers ==
    {[i \in DOMAIN Requested |-> IF i \in refused THEN None ELSE Requested[i].h] :
        refused \in SUBSET DOMAIN Requested}

\* The answers are given to the nodes asked about; the last one for a node
\* listed twice stays.
SetLinks(answer) ==
    [h \in HandlesOf |->
        LET at == {i \in DOMAIN answer : Requested[i].h = h}
        IN IF at = {} THEN links[h] ELSE answer[CHOOSE i \in at : \A k \in at : k <= i]]

\* mega_session_addlinks.  Nothing is asked about an empty list.
ExportOK ==
    /\ pc = "export" /\ list # << >>
    /\ \E answer \in LinkAnswers : links' = SetLinks(answer)
    /\ pc' = "print"
    /\ UNCHANGED <<fs, cmd, j, list, exit>>

\* Nothing to ask, or an answer that is no array and changes nothing.
ExportNothing ==
    /\ pc = "export"
    /\ pc' = "print"
    /\ UNCHANGED <<fs, cmd, j, list, links, exit>>

\* The request fails, or the answers are not as many as the nodes.
ExportFails ==
    /\ pc = "export" /\ list # << >>
    /\ pc' = "done" /\ exit' = 1
    /\ UNCHANGED <<fs, cmd, j, list, links>>

Show ==
    /\ pc = "print"
    /\ pc' = "done" /\ exit' = 0
    /\ UNCHANGED <<fs, cmd, j, list, links>>

InitFrom(tree, command) ==
    /\ fs = tree /\ cmd = command
    /\ j = 1 /\ list = << >> /\ exit = None /\ pc = "gather"
    /\ links = [h \in HandlesOf |-> None]

Init == \E tree \in Trees, command \in Commands : InitFrom(tree, command)

Next ==
    \/ GatherAll \/ Gather \/ Gathered \/ Sort
    \/ ExportOK \/ ExportNothing \/ ExportFails \/ Show

Spec == Init /\ [][Next]_vars

-----------------------------------------------------------------------------
(* What a path names, step by step in the tree.                             *)

Existing == {NamesOf(fs, h) : h \in {h \in HandlesOf : NodePath(fs, h) # None}}

Gone == "no such directory on the way"

\* A walk from the top: every directory on the way has to exist.
Walk(path) ==
    LET Step(at, c) ==
            IF at = Gone \/ c = Dot THEN at
            ELSE IF at # << >> /\ at \notin Existing THEN Gone
            ELSE IF c = DotDot THEN IF at = << >> THEN at ELSE Front(at)
            ELSE Append(at, c)
    IN FoldLeft(Step, << >>, SelectSeq(path, LAMBDA c : c # Slash))

\* Whether a listing of the path shows a node below what the path names.
Below(path, names) ==
    /\ IsStrictPrefix(Walk(path), names)
    /\ cmd.recursive \/ Len(names) = Len(Walk(path)) + 1

CountOf(n) == Cardinality({i \in DOMAIN list : list[i] = n})

\* megals lists, for every path given, each node in the directory it names
\* once (at any depth, when recursive), whatever ".", ".." and repeated
\* slashes lead there, and of the nodes with the path itself exactly one,
\* unless names alone are asked for and that is a directory
\* (tools/ls.c:75-95, docs/megals.txt).
ListsWhatPathsName ==
    (/\ pc \in {"sort", "export", "print"} /\ cmd.args # << >>
     /\ \A i \in DOMAIN cmd.args :
           /\ cmd.args[i] # << >> /\ Head(cmd.args[i]) = Slash /\ Walk(cmd.args[i]) # Gone)
    => LET args == DOMAIN cmd.args
           Above(n) == {i \in args : Below(cmd.args[i], NamesOf(fs, n.h))}
           Itself(names) == {i \in args : Walk(cmd.args[i]) = names}
           Shown(n) == NodePath(fs, n.h) # None
           Alike(n) == {m \in Nodes : Shown(m) /\ NamesOf(fs, m.h) = NamesOf(fs, n.h)}
           First(n) == CHOOSE m \in Alike(n) : \A i, k \in DOMAIN fs :
                            fs[i] = m /\ fs[k] \in Alike(n) => i <= k
       IN \A n \in Nodes :
            CountOf(n) = IF ~Shown(n) THEN 0
                         ELSE Cardinality(Above(n)) +
                              (IF First(n) = n /\ (n.type = "file" \/ ~cmd.names)
                               THEN Cardinality(Itself(NamesOf(fs, n.h))) ELSE 0)

\* A link shown beside a file is the file's own, whatever directories the list
\* holds between the files and however often it holds them
\* (mega_session_addlinks, oldmega.c:2373-2422).
LinksAreOwn == \A h \in HandlesOf : links[h] \in {None, h}

\* What megals prints, nodes and links, is what its arguments name.
PrintsWhatPathsName == ListsWhatPathsName /\ LinksAreOwn
=============================================================================
