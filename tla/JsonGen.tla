------------------------------- MODULE JsonGen -------------------------------
(***************************************************************************)
(* The JSON generator (libtools/sjson.c).  It keeps no stack and does not  *)
(* know what was written before: every value is written with a comma       *)
(* behind it, and the comma is taken away again where it turns out that    *)
(* none belongs there, by looking at the last character only.  The text is *)
(* checked at the end, and not returned if it is wrong.                    *)
(***************************************************************************)
EXTENDS JsonSyntax

CONSTANTS
    MemberNames,    \* names of members
    Values, Null,   \* as in JsonWriter
    Missing,        \* a NULL argument
    MaxWritten      \* bound: tokens the generator writes

VARIABLES
    out,            \* the text, with its tokens
    open,           \* the containers the caller has open
    result          \* what s_json_gen_done returned; <<"NULL">> for NULL

genVars == <<out, open, result>>

\* What callers pass: names that are strings, and JSON texts.
GenAssumption ==
    /\ SyntaxAssumption /\ MemberNames \subseteq Strings
    /\ \A v \in Values \cup {Null} : v \in Seq(Tokens) /\ IsValid(v)

\* strip_comma.
Stripped(s) == IF s # <<>> /\ Last(s) = "," THEN Front(s) ELSE s

\* s_json_gen_json, and string, int, double, bool and null, which are one token.
WithValue(s, v) == s \o (IF v = Missing THEN Null ELSE v) \o <<",">>

\* The start of each s_json_gen_member function.
WithName(s, name) == Stripped(s \o <<name, ",">>) \o <<":">>

Busy == result = <<>> /\ Len(Stripped(out)) < MaxWritten

Inside == IF open = <<>> THEN "none" ELSE Last(open)

\* The caller's calls nest: the only ones that are modelled.
ValueExpected == Inside = "[" \/ (open = <<>> /\ out = <<>>)

GenJson(v) ==
    /\ Busy /\ ValueExpected
    /\ out' = WithValue(out, v)
    /\ UNCHANGED <<open, result>>

StartObject ==
    /\ Busy /\ ValueExpected
    /\ out' = Append(out, "{") /\ open' = Append(open, "{")
    /\ UNCHANGED result

StartArray ==
    /\ Busy /\ ValueExpected
    /\ out' = Append(out, "[") /\ open' = Append(open, "[")
    /\ UNCHANGED result

MemberJson(name, v) ==
    /\ Busy /\ Inside = "{"
    /\ out' = WithValue(WithName(out, name), v)
    /\ UNCHANGED <<open, result>>

MemberObject(name) ==
    /\ Busy /\ Inside = "{"
    /\ out' = Append(WithName(out, name), "{") /\ open' = Append(open, "{")
    /\ UNCHANGED result

MemberArray(name) ==
    /\ Busy /\ Inside = "{"
    /\ out' = Append(WithName(out, name), "[") /\ open' = Append(open, "[")
    /\ UNCHANGED result

EndObject ==
    /\ result = <<>> /\ Inside = "{"
    /\ out' = Stripped(out) \o <<"}", ",">> /\ open' = Front(open)
    /\ UNCHANGED result

\* Mutant of EndArray: the last element's comma stays.
EndArrayComma ==
    /\ result = <<>> /\ Inside = "["
    /\ out' = out \o <<"]", ",">> /\ open' = Front(open)
    /\ UNCHANGED result

EndArray ==
    /\ result = <<>> /\ Inside = "["
    /\ out' = Stripped(out) \o <<"]", ",">> /\ open' = Front(open)
    /\ UNCHANGED result

Done ==
    /\ result = <<>> /\ open = <<>> /\ out # <<>>
    /\ result' = IF IsValid(Stripped(out)) THEN Stripped(out) ELSE <<"NULL">>
    /\ UNCHANGED <<out, open>>

GenInit == out = <<>> /\ open = <<>> /\ result = <<>>

GenNext ==
    \/ \E v \in Values \cup {Missing} : GenJson(v) \/ \E name \in MemberNames : MemberJson(name, v)
    \/ StartObject \/ StartArray \/ EndObject \/ EndArray
    \/ \E name \in MemberNames : MemberObject(name) \/ MemberArray(name)
    \/ Done

GenSpec == GenInit /\ [][GenNext]_genVars

-----------------------------------------------------------------------------
Writer == INSTANCE JsonWriter WITH Names <- MemberNames, Values <- Values \cup {Null},
                                   MaxTokens <- MaxWritten, text <- Stripped(out)

\* Commas written behind and taken back give the text that commas written in front
\* give, and for calls that nest the check at the end never fails: what
\* mega_session_save and the requests get is what they wrote, never NULL.
WritesAsPromised == Writer!Spec
=============================================================================
