-------------------------------- MODULE MCJson --------------------------------
(***************************************************************************)
(* Json, JsonText, JsonBuild and JsonGen side by side.  They share no      *)
(* state: the first state decides which of them runs, and the others stay  *)
(* as they are at first.                                                   *)
(***************************************************************************)
EXTENDS Json, JsonText, JsonBuild, JsonGen

VARIABLE
    part                                \* "read", "text", "build" or "gen"

-----------------------------------------------------------------------------
(* The constants of the parts.                                              *)

\* Texts of numbers, of strings, of words, of what is escaped, and of spaces.
MCAlphabets ==
    {[of |-> {"-", "0", "1", ".", "e", "+"}, length |-> 6],
     [of |-> {Quote, Backslash, "u", "0"}, length |-> 7],
     [of |-> {"t", "r", "u", "e", "n", "l", "f", "a", "s"}, length |-> 5],
     [of |-> {Quote, Backslash, "\n", "\f", "BS", "\t", "u", "n"}, length |-> 5],
     [of |-> {"[", ",", "1", "-", " ", Quote, "\n"}, length |-> 5]}
MCWords == {<<>>, <<"u">>, <<"u", "0">>, <<"0", "u">>, <<Quote>>, <<Backslash>>}

MCCharsOf ==
    [nul |-> <<"n", "u", "l">>, str |-> <<"%", "s">>, own |-> <<"%", "S">>,
     opt |-> <<"%", "?", "S">>, json |-> <<"%", "j">>]
\* A name that is nearly a literal, a string that would end early, one that is
\* NULL, one that is flagged, and a JSON text with more behind its value.
MCArgsOf ==
    [str |-> <<<<Quote, ",", Backslash>>>>, own |-> <<Absent>>, opt |-> <<Yes, <<"a">>>>,
     json |-> << <<"1", ",", "2">> >>]

MCChars ==
    UNION {a.of : a \in MCAlphabets}
    \cup {"c", "k", "2", "{", "}", "]", ":"}

MCNames == {"x"}
MCNull == <<"null">>
MCMissing == <<"missing">>
MCValues == {<<"1">>, <<"[", "x", ",", "1", "]">>}

\* Paths and ends of paths.
MCWalks == {<<>>, <<At(0)>>, <<At(1)>>, <<Dot("x")>>, <<At(0), At(1)>>, <<At(1), Dot("x")>>}
MCTypeEnds == {<<>>, <<Is("integer", FALSE)>>, <<Is("string", TRUE)>>}

-----------------------------------------------------------------------------
ASSUME JsonAssumptions == JsonAssumption /\ GenAssumption

readVars == <<text, doc>>
textVars == <<chars, alphabet>>
buildVars == <<format, built>>

Idle == <<"null">>

InitAll ==
    /\ part \in {"read", "text", "build", "gen"}
    /\ IF part = "read" THEN Init ELSE text = Idle /\ doc = FALSE
    /\ IF part = "text" THEN TextInit ELSE chars = <<>> /\ alphabet = CHOOSE a \in Alphabets : TRUE
    /\ IF part = "build" THEN BuildInit ELSE format = Idle /\ built = NotYet
    /\ GenInit

NextAll ==
    \/ part = "read" /\ Next /\ UNCHANGED <<part, textVars, buildVars, genVars>>
    \/ part = "text" /\ TextNext /\ UNCHANGED <<part, readVars, buildVars, genVars>>
    \/ part = "build" /\ Build /\ UNCHANGED <<part, readVars, textVars, genVars>>
    \/ part = "gen" /\ GenNext /\ UNCHANGED <<part, readVars, textVars, buildVars>>

SpecAll == InitAll /\ [][NextAll]_<<part, readVars, textVars, buildVars, genVars>>

-----------------------------------------------------------------------------
\* A definition of this module's own, which TLC evaluates once.
JsonTexts == Language

\* s_json_is_valid accepts the texts of JSON's grammar and no other, among all
\* texts that are one token away from one.
ValidIsGrammar == AcceptsOnly(JsonTexts)
=============================================================================
