------------------------------ MODULE JsonWriter -----------------------------
(***************************************************************************)
(* What the JSON generator promises a caller that nests its calls well: a  *)
(* text that has a comma in front of every element and member but the      *)
(* first, and that is all there at the end.  Source: the generator API of  *)
(* libtools/sjson.h, as mega_session_save and the requests use it.         *)
(***************************************************************************)
EXTENDS Integers, SequencesExt

CONSTANTS
    Names,          \* names of members
    Values,         \* JSON texts put in as a whole, scalars among them
    Null,           \* the JSON text null
    MaxTokens       \* bound: length of the text

VARIABLES
    text,           \* what was written
    open,           \* the containers that are open, the innermost last
    result          \* the finished text

vars == <<text, open, result>>

\* The innermost open container.
Inside == IF open = <<>> THEN "none" ELSE Last(open)

\* A value may be written in an array, or as the whole text.
ValueExpected == Inside = "[" \/ (open = <<>> /\ text = <<>>)

Written(ts) ==
    text \o (IF text = <<>> \/ Last(text) \in {"[", "{"} THEN <<>> ELSE <<",">>) \o ts

Unfinished == result = <<>> /\ Len(text) < MaxTokens

Element(v) ==
    /\ Unfinished /\ ValueExpected
    /\ text' = Written(v)
    /\ UNCHANGED <<open, result>>

Start(mark) ==
    /\ Unfinished /\ ValueExpected
    /\ text' = Written(<<mark>>) /\ open' = Append(open, mark)
    /\ UNCHANGED result

Member(name, v) ==
    /\ Unfinished /\ Inside = "{"
    /\ text' = Written(<<name, ":">> \o v)
    /\ UNCHANGED <<open, result>>

StartMember(name, mark) ==
    /\ Unfinished /\ Inside = "{"
    /\ text' = Written(<<name, ":", mark>>) /\ open' = Append(open, mark)
    /\ UNCHANGED result

End(mark) ==
    /\ result = <<>> /\ Inside = mark
    /\ text' = Append(text, IF mark = "[" THEN "]" ELSE "}") /\ open' = Front(open)
    /\ UNCHANGED result

Done ==
    /\ result = <<>> /\ open = <<>> /\ text # <<>>
    /\ result' = text
    /\ UNCHANGED <<text, open>>

Init == text = <<>> /\ open = <<>> /\ result = <<>>

Next ==
    \/ \E v \in Values : Element(v) \/ \E name \in Names : Member(name, v)
    \/ \E mark \in {"{", "["} : Start(mark) \/ End(mark) \/ \E name \in Names : StartMember(name, mark)
    \/ Done

Spec == Init /\ [][Next]_vars
=============================================================================
