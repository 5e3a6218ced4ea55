-------------------------------- MODULE Paths --------------------------------
(***************************************************************************)
(* Remote paths (libtools/oldmega.c: path_sanitize_slashes,                *)
(* path_get_elements, path_simplify, mega_node_get_path, mega_session_ls,  *)
(* mega_session_stat, mega_session_get_node_chilren).                      *)
(*                                                                         *)
(* A path is a sequence of slashes and names, no two names side by side; a *)
(* name is one symbol, and as long as a slash.  The session's list of      *)
(* nodes is a sequence of records with fields h (handle), parent (the      *)
(* handle of the node the parent pointer leads to, or None), name and type *)
(***************************************************************************)
EXTENDS Integers, SequencesExt

CONSTANTS
    Slash, Dot, DotDot,     \* the separator, and the names with a meaning
    Empty,                  \* the empty string between two slashes
    None,                   \* NULL
    MaxPath                 \* the size of a path buffer, 4096 in the code

\* What the constants must satisfy; MCNodes assumes it of the values it gives.
PathsAssumption ==
    /\ MaxPath \in Nat
    /\ Slash \notin {Dot, DotDot, Empty} /\ Empty \notin {Dot, DotDot}

\* Runs of slashes become one; one at the end goes, unless it is all there is.
OneSlash(path) ==
    FoldLeft(LAMBDA done, c : IF c = Slash /\ done # << >> /\ Last(done) = Slash THEN done
                              ELSE Append(done, c),
             << >>, path)
Trimmed(path) == IF Len(path) > 1 /\ Last(path) = Slash THEN Front(path) ELSE path
Sanitize(path) == Trimmed(OneSlash(path))

\* g_strsplit at the slashes: nothing for "", two empty strings for "/".
Split(path) ==
    IF path = << >> THEN << >>
    ELSE FoldLeft(LAMBDA done, c : IF c = Slash THEN Append(done, Empty)
                                   ELSE [done EXCEPT ![Len(done)] = c],
                  <<Empty>>, path)
Elements(path) == Split(Sanitize(path))

\* g_strjoinv with slashes.
Join(elements) ==
    LET Text(i) == (IF i > 1 THEN <<Slash>> ELSE << >>) \o
                   (IF elements[i] = Empty THEN << >> ELSE <<elements[i]>>)
    IN FlattenSeq([i \in DOMAIN elements |-> Text(i)])

\* path_simplify on an element "..".  An absolute path keeps its empty first
\* element; a relative one keeps the ".." that lead out of where it starts.
Up(acc, absolute) ==
    IF absolute THEN [acc EXCEPT !.out = IF Len(@) > 1 THEN Front(@) ELSE @]
    ELSE IF acc.subroot > 0 /\ Last(acc.out) = DotDot
    THEN [acc EXCEPT !.out = Append(@, DotDot)]
    ELSE IF Len(acc.out) > acc.subroot THEN [acc EXCEPT !.out = Front(@)]
    ELSE [acc EXCEPT !.out = Append(@, DotDot), !.subroot = @ + 1]

Simplified(elements) ==
    LET absolute == Len(elements) > 1 /\ Head(elements) = Empty
        Take(acc, e) == IF e = Dot THEN acc
                        ELSE IF e = DotDot THEN Up(acc, absolute)
                        ELSE [acc EXCEPT !.out = Append(@, e)]
    IN FoldLeft(Take, [out |-> << >>, subroot |-> 0], elements).out

Simplify(path) == Join(Simplified(Elements(path)))

-----------------------------------------------------------------------------
NodeOf(fs, h) == LET i == CHOOSE i \in DOMAIN fs : fs[i].h = h IN fs[i]

\* The names from the topmost ancestor of a node down to the node, by the
\* parent pointers (mega_node_get_path's pointer list, reversed).
NamesOf(fs, h) ==
    LET names[g \in {fs[i].h : i \in DOMAIN fs}] ==
            LET n == NodeOf(fs, g)
            IN IF n.parent = None THEN <<n.name>> ELSE Append(names[n.parent], n.name)
    IN names[h]

TextOf(names) == FlattenSeq([i \in DOMAIN names |-> <<Slash, names[i]>>])

\* mega_node_get_path into a buffer of MaxPath bytes: None when the path and
\* its end do not fit.
NodePath(fs, h) ==
    LET text == TextOf(NamesOf(fs, h)) IN IF Len(text) + 1 <= MaxPath THEN text ELSE None

\* The symbols of the paths of some nodes.
Symbols(nodes) == {n.name : n \in Range(nodes)} \cup {Slash, DotDot}

\* What the session's list is: no two nodes have a handle; each parent pointer
\* leads to a node of the list that is no file, and no way along them comes back
\* to where it was; mega_node_parse skips a node with a slash in its name, "." or
\* "..".  (An empty name it takes: no name is empty here.)
Forest(nodes) ==
    LET Hs == {n.h : n \in Range(nodes)}
    IN /\ \A i, j \in DOMAIN nodes : nodes[i].h = nodes[j].h => i = j
       /\ None \notin Hs /\ None \notin Range(nodes) /\ None \notin Seq(Symbols(nodes))
       /\ \A n \in Range(nodes) :
             /\ n.parent = None \/ \E m \in Range(nodes) : m.h = n.parent /\ m.type # "file"
             /\ n.name \notin {Slash, Dot, DotDot, Empty}
       /\ \A S \in SUBSET Hs : S # {} => \E n \in Range(nodes) : n.h \in S /\ n.parent \notin S

\* Mutant of InListing: any path that begins with the directory's is in it.
InListingNoSlash(fs, h, dir, recursive) ==
    LET text == NodePath(fs, h)
    IN /\ text # None /\ IsPrefix(dir, text)
       /\ recursive \/ \A i \in Len(dir) + 2 .. Len(text) : text[i] # Slash

\* _ls: the node's path begins with the directory's and a slash, and has no
\* other slash unless the listing is recursive.
InListing(fs, h, dir, recursive) ==
    LET text == NodePath(fs, h)
        base == IF dir = <<Slash>> THEN dir ELSE Append(dir, Slash)
    IN /\ text # None /\ IsPrefix(base, text)
       /\ recursive \/ \A i \in Len(base) + 1 .. Len(text) : text[i] # Slash

\* mega_session_ls: the nodes are put before those found so far.
Ls(fs, path, recursive) ==
    LET dir == Simplify(path)
    IN FoldLeft(LAMBDA found, n : IF InListing(fs, n.h, dir, recursive) THEN <<n>> \o found ELSE found,
                << >>, fs)

\* mega_session_stat: the first node with the path, or None.
WithPath(fs, path) ==
    LET at == {i \in DOMAIN fs : NodePath(fs, fs[i].h) = path}
    IN IF at = {} THEN None ELSE fs[Min(at)]
Stat(fs, path) == WithPath(fs, Simplify(path))

\* mega_session_get_node_chilren, by the parent's handle.
Children(fs, h) ==
    FoldLeft(LAMBDA found, n : IF n.parent = h THEN Append(found, n) ELSE found, << >>, fs)
=============================================================================
