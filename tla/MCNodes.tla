------------------------------- MODULE MCNodes -------------------------------
(***************************************************************************)
(* How the list of nodes comes about (NodeImport) and how it is shown      *)
(* (Listing), side by side: the first state decides which of them runs,    *)
(* and the other stays as it is at first.                                  *)
(*                                                                         *)
(* Imports are of answers of two entries, each with a key of at most two   *)
(* parts, in every order, and with a share key that is right, wrong or not *)
(* there; an 'ok' array vouches rightly or wrongly for one handle, or is   *)
(* right for both.  Listings are of small trees, by every path of at most  *)
(* six symbols, or by any two of a few paths with links.                   *)
(***************************************************************************)
EXTENDS NodeImport, TLC

CONSTANTS Slash, Dot, DotDot, Empty, MaxPath, R, A, B     \* Listing

-----------------------------------------------------------------------------
\* RSA keys are met in parts for shares, where a key before them may be lost.
SomeParts == [owner : Handles, rsa : BOOLEAN] \cup [owner : {Me, Stranger}, rsa : {FALSE}]
Keys == {<< >>} \cup {<<x>> : x \in SomeParts} \cup {<<x, y>> : x \in SomeParts, y \in SomeParts}

EntriesOf(h, sks) == [h : {h}, p : {None}, k : Keys, sk : sks \cup {None, Stranger}]

\* The handles are alike, so one order of them is enough.
First == CHOOSE h \in Handles : TRUE
Second == CHOOSE h \in Handles \ {First} : TRUE
NoOk == [h \in Handles |-> [ha |-> FALSE, k |-> None]]
BothOk == [h \in Handles |-> [ha |-> TRUE, k |-> h]]
OneOk(h) == {[NoOk EXCEPT ![h] = [ha |-> ha, k |-> k]] : ha \in BOOLEAN, k \in {h, Stranger}}

MCAnswers ==
    [exported : {FALSE}, ok : {NoOk, BothOk} \cup OneOk(First) \cup OneOk(Second),
     f : {<<x, y>> : x \in EntriesOf(First, {First}), y \in EntriesOf(Second, {Second})}]
        \cup [exported : {TRUE}, ok : {NoOk},
              f : {<<x, y>> : x \in EntriesOf(First, {}), y \in EntriesOf(Second, {})}]

-----------------------------------------------------------------------------
MCNames == {R, A, B}
MCRank == R :> 3 @@ A :> 1 @@ B :> 2

N(h, parent, name, type) == [h |-> h, parent |-> parent, name |-> name, type |-> type]

\* Children before their parent, two nodes of one name in one directory and in
\* directories of one name, and one too deep for the path buffer.
MCTrees == {
    <<N("r", None, R, "dir"), N("b", "r", B, "file"), N("a", "r", A, "dir"),
      N("ab", "a", B, "file"), N("aa", "a", A, "dir"), N("aaa", "aa", A, "file")>>,
    <<N("ab", "a", B, "file"), N("a", "r", A, "dir"), N("r", None, R, "dir"),
      N("a2", "r", A, "file"), N("b", None, B, "dir")>>,
    <<N("r", None, R, "dir"), N("a", "r", A, "dir"), N("a2", "r", A, "dir"),
      N("ab", "a", B, "file"), N("ab2", "a2", B, "file")>> }

IsPath(p) == \A i \in 1 .. Len(p) - 1 : Slash \in {p[i], p[i + 1]}

PathsOf(symbols, n) ==
    {p \in UNION {[1 .. k -> symbols] : k \in 0 .. n} : IsPath(p)}

OnePath ==
    [args : {<<p>> : p \in PathsOf({Slash, Dot, DotDot, R, A, B}, 6)},
     names : BOOLEAN, recursive : BOOLEAN, export : {FALSE}]

Few == {<<Slash>>, <<Slash, R>>, <<Slash, R, Slash, A>>, <<Slash, R, Slash, B>>,
        <<Slash, R, Slash, A, Slash, B>>, <<R>>}

ExportPaths ==
    [args : {<< >>} \cup {<<p>> : p \in Few} \cup {<<p, q>> : p \in Few, q \in Few},
     names : BOOLEAN, recursive : BOOLEAN, export : {TRUE}]

MCCommands == OnePath \cup ExportPaths

-----------------------------------------------------------------------------
VARIABLES
    part,                               \* "import" or "list"
    fs, cmd, j, list, links, pc, exit   \* Listing

Ls == INSTANCE Listing WITH Names <- MCNames, Rank <- MCRank, Trees <- MCTrees,
                            Commands <- MCCommands

ASSUME NodesAssumptions == Ls!PathsAssumption /\ Ls!ListingAssumption

listVars == <<fs, cmd, j, list, links, pc, exit>>

AnAnswer == CHOOSE answer \in MCAnswers : ~answer.exported
ACommand == CHOOSE command \in ExportPaths : command.args = << >>

MCInit ==
    /\ part \in {"import", "list"}
    /\ IF part = "import"
       THEN Init
       ELSE InitFrom(AnAnswer)
    /\ IF part = "list"
       THEN Ls!Init
       ELSE Ls!InitFrom(CHOOSE tree \in MCTrees : TRUE, ACommand)

MCNext ==
    \/ part = "import" /\ Next /\ UNCHANGED <<part, listVars>>
    \/ part = "list" /\ Ls!Next /\ UNCHANGED <<part, vars>>

MCSpec == MCInit /\ [][MCNext]_<<part, vars, listVars>>

-----------------------------------------------------------------------------
\* megals shows what its paths name, each node as often as they do, and each
\* with its own link (main, mega_session_addlinks).
PrintsWhatPathsName == Ls!PrintsWhatPathsName
=============================================================================
