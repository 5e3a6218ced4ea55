-------------------------------- MODULE Json ---------------------------------
(***************************************************************************)
(* Reading JSON (libtools/sjson.c, compiled as sjson.gen.c): there is no   *)
(* tree.  A value is a pointer into the text, and everything, the check of *)
(* the whole text, the iterators over elements and members, paths and the  *)
(* pretty printer, is done by scanning on from there, one token at a time. *)
(*                                                                         *)
(* A text is the sequence of its tokens (JsonText scans them), a pointer   *)
(* the number of the next token, 0 for NULL.                               *)
(***************************************************************************)
EXTENDS JsonSyntax

CONSTANTS
    Walks,          \* paths without $ or a type
    TypeEnds,       \* nothing, or a type at the end of a path
    MaxTokens       \* bound: length of a text

\* What the constants must satisfy; MCJson assumes it of the values it gives.
JsonAssumption == SyntaxAssumption /\ MaxTokens \in Nat

\* token_to_type.
TypeOf(token) ==
    CASE token = "none"                       -> "none"
      [] token = "{"                          -> "object"
      [] token = "["                          -> "array"
      [] token \in Strings                    -> "string"
      [] token \in Naturals_ \cup OtherNumbers -> "number"
      [] token \in {"true", "false"}          -> "bool"
      [] token = "null"                       -> "null"
      [] OTHER                                -> "invalid"

Type(t, i) == TypeOf(Token(t, i))

\* s_json_get: a copy of the value, or NULL.
Get(t, i) == IF End(t, i) = 0 THEN <<>> ELSE SubSeq(t, i, End(t, i) - 1)

-----------------------------------------------------------------------------
(* Elements and members.                                                    *)

ElementFirst(t, i) == IF Token(t, i) # "[" \/ Token(t, i + 1) = "]" THEN 0 ELSE i + 1

\* Mutant of ElementNext: the next comma is looked for, wherever it is.
ElementNextFlat(t, i) ==
    IF \E k \in i .. Len(t) : t[k] = "," THEN 1 + CHOOSE k \in i .. Len(t) :
        t[k] = "," /\ \A j \in i .. k - 1 : t[j] # "," ELSE 0

ElementNext(t, i) ==
    LET e == End(t, i) IN IF e = 0 \/ Token(t, e) # "," THEN 0 ELSE e + 1

RECURSIVE ElementsFrom(_, _), MembersFrom(_, _), PathFrom(_, _, _)

\* The macro S_JSON_FOREACH_ELEMENT, from an element on.
ElementsFrom(t, i) == IF i = 0 THEN <<>> ELSE <<i>> \o ElementsFrom(t, ElementNext(t, i))

\* s_json_get_elements.
Elements(t, i) == ElementsFrom(t, ElementFirst(t, i))

\* s_json_get_element, counted from 0.
Element(t, i, index) ==
    LET es == Elements(t, i) IN IF index < Len(es) THEN es[index + 1] ELSE 0

\* A member is found by its key; the value is behind the colon.
MemberFirst(t, i) ==
    IF Token(t, i) = "{" /\ Token(t, i + 1) \in Strings /\ Token(t, i + 2) = ":" THEN i + 1 ELSE 0

ValueOf(key) == key + 2

MemberNext(t, value) ==
    LET e == End(t, value)
    IN IF e # 0 /\ Token(t, e) = "," /\ Token(t, e + 1) \in Strings /\ Token(t, e + 2) = ":"
         THEN e + 1 ELSE 0

\* The macro S_JSON_FOREACH_MEMBER, from a member on.
MembersFrom(t, key) ==
    IF key = 0 THEN <<>> ELSE <<key>> \o MembersFrom(t, MemberNext(t, ValueOf(key)))

\* s_json_get_member: the value of the first member of that name.
Member(t, i, name) ==
    LET ks == MembersFrom(t, MemberFirst(t, i))
        is == {k \in 1 .. Len(ks) : t[ks[k]] = name}
    IN IF is = {} THEN 0 ELSE ValueOf(ks[CHOOSE k \in is : \A j \in is : k <= j])

-----------------------------------------------------------------------------
(* s_json_path.  A step is $, a name, an index, or a type that is checked,  *)
(* asked for with ! or ?.  The text "null" is returned as -1.               *)

Root == [op |-> "root"]
At(index) == [op |-> "element", index |-> index]
Dot(name) == [op |-> "member", name |-> name]
Is(type, optional) == [op |-> "type", type |-> type, optional |-> optional]

\* CHECK_TYPE, and integers: numbers whose text is digits only.
HasType(t, node, type) ==
    IF type = "integer" THEN Token(t, node) \in Naturals_ ELSE Type(t, node) = type

\* A number that is not an integer is no optional integer either.
Checked(t, node, type, optional) ==
    CASE node # 0 /\ HasType(t, node, type)                 -> node
      [] optional /\ (node = 0 \/ Type(t, node) = "null")   -> -1
      [] OTHER                                              -> 0

\* The member walked to; nothing is below NULL or another type.
StepMember(t, node, name) ==
    IF node = 0 \/ Type(t, node) # "object" THEN 0 ELSE Member(t, node, name)

StepElement(t, node, index) ==
    IF node = 0 \/ Type(t, node) # "array" THEN 0 ELSE Element(t, node, index)

\* A step on a wrong type returns NULL for the whole path; a member or an element
\* that is not there is NULL for the step that follows.
PathFrom(t, path, node) ==
    IF path = <<>> THEN node
    ELSE LET step == path[1]
             rest == SubSeq(path, 2, Len(path))
         IN CASE step.op = "root"    -> PathFrom(t, rest, 1)
              [] step.op = "member"  -> IF node = 0 \/ Type(t, node) # "object" THEN 0
                                        ELSE PathFrom(t, rest, StepMember(t, node, step.name))
              [] step.op = "element" -> IF node = 0 \/ Type(t, node) # "array" THEN 0
                                        ELSE PathFrom(t, rest, StepElement(t, node, step.index))
              [] step.op = "type"    -> Checked(t, node, step.type, step.optional)

Path(t, path) == PathFrom(t, path, 1)

-----------------------------------------------------------------------------
(* s_json_pretty: the token, and a line break with so many tabs, or a space.*)

Layout(kind, tabs) == [token |-> kind, tabs |-> tabs]

\* A closing token goes on a line of its own unless its container is empty, or,
\* for an array, ends in an object.
BreaksBefore(token, prev) ==
    \/ token = "}" /\ prev # "{"
    \/ token = "]" /\ prev \notin {"[", "}"}

\* So is what follows an opening one, unless it is empty or an array of objects.
BreaksAfter(token, next) ==
    \/ token = "{" /\ next # "}"
    \/ token = "[" /\ next \notin {"{", "]"}

\* ind->len - 1 is unsigned: at 0 nothing is cut off.
PopIndent(ind) == IF ind = 0 THEN 0 ELSE ind - 1

\* One token; s has the output, the indentation and the token before.
PrettyToken(s, token, next) ==
    LET ind1 == IF BreaksBefore(token, s.prev) THEN PopIndent(s.ind) ELSE s.ind
        ind2 == IF BreaksAfter(token, next) THEN ind1 + 1 ELSE ind1
        before == IF BreaksBefore(token, s.prev) THEN <<Layout("newline", ind1)>> ELSE <<>>
        same == (s.prev = "}" /\ next = "{") \/ (s.prev = "]" /\ next = "[")
        after == CASE BreaksAfter(token, next)    -> <<Layout("newline", ind2)>>
                   [] token = "," /\ same         -> <<Layout("space", 0)>>
                   [] token = "," /\ ~same        -> <<Layout("newline", ind2)>>
                   [] token = ":"                 -> <<Layout("space", 0)>>
                   [] OTHER                       -> <<>>
    IN [out |-> s.out \o before \o <<Layout(token, 0)>> \o after, ind |-> ind2, prev |-> token]

RECURSIVE PrettyFrom(_, _, _)
PrettyFrom(t, i, s) ==
    IF Token(t, i) = "none" THEN s
    ELSE PrettyFrom(t, i + 1, PrettyToken(s, Token(t, i), Token(t, i + 1)))

\* Of the value that is isolated first; <<>> for NULL.
Pretty(t) == PrettyFrom(Get(t, 1), 1, [out |-> <<>>, ind |-> 0, prev |-> "none"]).out

-----------------------------------------------------------------------------
(* The texts: every JSON text up to a length, and every text one token away *)
(* from one.                                                                *)

VARIABLES
    text,       \* the text
    doc         \* it is a JSON text, untouched

vars == <<text, doc>>

Between(left, ts, right) == {<<left>> \o t \o <<right>> : t \in ts}

\* The grammar: values, lists of elements and of members of n tokens; the shorter
\* ones are at k + 1 in ls.
Longer(ls, n) ==
    LET shorter(k) == ls[k + 1]
        value == IF n = 1 THEN {<<s>> : s \in Scalars}
                 ELSE IF n < 2 THEN {}
                 ELSE Between("[", shorter(n - 2).elements, "]") \cup Between("{", shorter(n - 2).members, "}")
        pair(v) == {<<name, ":">> \o w : name \in Strings, w \in v}
    IN [value    |-> value,
        elements |-> IF n = 0 THEN {<<>>}
                     ELSE value \cup UNION {{v \o <<",">> \o e : v \in shorter(k).value, e \in shorter(n - k - 1).elements} :
                                             k \in 1 .. n - 2},
        members  |-> IF n = 0 THEN {<<>>}
                     ELSE (IF n > 2 THEN pair(shorter(n - 2).value) ELSE {})
                          \cup UNION {{p \o <<",">> \o m : p \in pair(shorter(k - 2).value), m \in shorter(n - k - 1).members} :
                                       k \in 3 .. n - 2}]

Grammars[n \in 0 .. MaxTokens] ==
    IF n = 0 THEN <<Longer(<<>>, 0)>> ELSE LET ls == Grammars[n - 1] IN Append(ls, Longer(ls, n))

Language == UNION {g.value : g \in ToSet(Grammars[MaxTokens])}

Init == text \in Language /\ doc = TRUE

\* A token is lost, inserted or replaced.
Edit ==
    /\ doc /\ doc' = FALSE
    /\ \E i \in 1 .. Len(text) :
          \/ text' = RemoveAt(text, i)
          \/ \E k \in Tokens : text' = ReplaceAt(text, i, k)
          \/ Len(text) < MaxTokens /\ \E k \in Tokens : text' = InsertAt(text, i, k)

Next == Edit

Spec == Init /\ [][Next]_vars

-----------------------------------------------------------------------------
\* On any text, whatever is wrong with it, iterators and walks stay within it or
\* at its end, and come to an end.
PointersInside ==
    /\ ToSet(Elements(text, 1)) \cup ToSet(MembersFrom(text, MemberFirst(text, 1))) \subseteq 1 .. Len(text) + 1
    /\ \A p \in Walks, e \in TypeEnds : Path(text, p \o e) \in -1 .. Len(text) + 1

\* s_json_is_valid accepts the texts of a language and no other.
AcceptsOnly(language) == IsValid(text) <=> text \in language

\* The nesting depth in front of token i.
Depth(t, i) ==
    Len(SelectSeq(SubSeq(t, 1, i - 1), LAMBDA k : k \in {"{", "["}))
    - Len(SelectSeq(SubSeq(t, 1, i - 1), LAMBDA k : k \in {"}", "]"}))

\* The tokens behind a bracket or comma at the outermost level: where its parts begin.
Parts(t) == {i \in 2 .. Len(t) - 1 : t[i - 1] \in {"[", "{", ","} /\ Depth(t, i) = 1}

\* Iterating over a text finds each of its elements or members once, in order,
\* whatever is nested in them (sjson.h:117-127).
IterationFindsAll ==
    doc => /\ text[1] = "[" => Elements(text, 1) = SetToSortSeq(Parts(text), <)
           /\ text[1] = "{" => MembersFrom(text, MemberFirst(text, 1)) = SetToSortSeq(Parts(text), <)

\* An object's member is found by its name, in no other object, the first if the
\* name is there twice.
MemberIsOwn ==
    doc => \A name \in Strings :
        LET v == Member(text, 1, name)
        IN IF v = 0 THEN text[1] # "{" \/ \A k \in Parts(text) : text[k] # name
           ELSE /\ v - 2 \in Parts(text) /\ text[v - 2] = name
                /\ \A k \in Parts(text) : k < v - 2 => text[k] # name

\* A walk that goes on from a value deep in the text finds what it finds in a
\* copy of that value (s_json_get): the iterators never leave the value they
\* were started on.  api_call hands out copies, api_call_many's callers pointers.
WalkStaysInside ==
    doc => \A p, q \in Walks, e \in TypeEnds :
        LET node == Path(text, p)
            both == Path(text, p \o q \o e)
            copy == Get(text, node)
            inner == Path(copy, q \o e)
        IN node # 0 => IF both <= 0 THEN inner = both
                       ELSE inner > 0 /\ Get(text, both) = Get(copy, inner)

\* The number of tabs of the line output k is on.
TabsAt(pretty, k) ==
    LET breaks == {j \in 1 .. k : pretty[j].token = "newline"}
    IN IF breaks = {} THEN 0 ELSE pretty[CHOOSE j \in breaks : \A i \in breaks : i <= j].tabs

\* An array has objects only, or none: the printer looks at its first and its last
\* element only.
Unmixed(t) ==
    \A i \in 1 .. Len(t) : t[i] = "[" =>
        \A e \in ToSet(Elements(t, i)) : (t[e] = "{") = (t[i + 1] = "{")

\* The output token that is the partner of an opening one.
Closes(pretty, o, c) ==
    LET ts == [k \in 1 .. Len(pretty) |-> pretty[k].token]
    IN /\ o < c /\ ts[o] \in {"{", "["} /\ ts[c] \in {"}", "]"}
       /\ Depth(ts, c + 1) = Depth(ts, o) /\ \A k \in o + 1 .. c : Depth(ts, k) > Depth(ts, o)

\* A closing token that begins a line is indented as the line that opened it, if
\* no array mixes objects with other elements (s_json_pretty, sjson.c:1085-1126).
PrettyAligned ==
    doc /\ Unmixed(text) =>
        LET pretty == Pretty(text)
        IN \A o, c \in 1 .. Len(pretty) :
              Closes(pretty, o, c) /\ c > 1 /\ pretty[c - 1].token = "newline" => TabsAt(pretty, c) = TabsAt(pretty, o)

\* Iterators, members, paths and the pretty printer follow the text's structure.
FollowsStructure ==
    PointersInside /\ IterationFindsAll /\ MemberIsOwn /\ WalkStaysInside /\ PrettyAligned
=============================================================================
