------------------------------- MODULE JsonScan ------------------------------
(***************************************************************************)
(* The scanners of libtools/sjson.c, which re2c compiles to automata       *)
(* (sjson.gen.c): tokens, strings and their escapes, and the printer that  *)
(* drops spaces.  They are modelled as they are compiled, state by state   *)
(* and with what is taken back when the longest match is found too late.   *)
(*                                                                         *)
(* A text is a sequence of characters; NUL is its end.                     *)
(***************************************************************************)
EXTENDS Integers, SequencesExt

CONSTANTS
    Chars           \* characters of the texts

Quote == "\""
Backslash == "\\"
Digits == {"0", "1", "2", "3", "4", "5", "6", "7", "8", "9"}
Hex == Digits \cup {"a", "b", "c", "d", "e", "f", "A", "B", "C", "D", "E", "F"}
Space == {" ", "\t", "\n", "\r"}
Marks == {"{", "}", "[", "]", ":", ","}
Letters == {Backslash, "/", "b", "f", "n", "r", "t", Quote}    \* of escapes
Char == Chars \ {Quote, Backslash}                              \* CHAR

-----------------------------------------------------------------------------
(* s_json_get_token: the automaton.                                         *)

\* From a state, on a class of characters, to a state.
From(q, cs, r) == [p \in {q} \X cs |-> r]

\* Whitespace and the characters that are tokens.
MarkMoves ==
    [p \in {"start"} \X Marks |-> p[2]] @@ From("start", Space, "space") @@ From("space", Space, "space")

\* Numbers: no leading zero, and an e that is taken back if no digit follows.
NumberMoves ==
    From("start", {"-"}, "minus")
    @@ From("start", {"0"}, "zero") @@ From("minus", {"0"}, "zero")
    @@ From("start", Digits \ {"0"}, "int") @@ From("minus", Digits \ {"0"}, "int")
    @@ From("int", Digits, "int")
    @@ From("zero", {"."}, "point") @@ From("int", {"."}, "point")
    @@ From("point", Digits, "frac") @@ From("frac", Digits, "frac")
    @@ From("zero", {"e", "E"}, "e") @@ From("int", {"e", "E"}, "e") @@ From("frac", {"e", "E"}, "e")
    @@ From("e", {"+", "-"}, "sign") @@ From("e", Digits, "exp") @@ From("sign", Digits, "exp")
    @@ From("exp", Digits, "exp")

\* Strings; one with an escape has states of its own.
StringMoves ==
    From("start", {Quote}, "plain") @@ From("plain", Char, "plain") @@ From("plain", {Quote}, "noesc")
    @@ From("plain", {Backslash}, "escape") @@ From("chars", {Backslash}, "escape")
    @@ From("chars", Char, "chars") @@ From("chars", {Quote}, "string")

\* Mutant of EscapeMoves: three digits are enough.
EscapeMovesShort ==
    From("escape", Letters, "chars") @@ From("escape", {"u"}, "u0")
    @@ From("u0", Hex, "u1") @@ From("u1", Hex, "u2") @@ From("u2", Hex, "chars")

\* The escapes of a string.
EscapeMoves ==
    From("escape", Letters, "chars") @@ From("escape", {"u"}, "u0")
    @@ From("u0", Hex, "u1") @@ From("u1", Hex, "u2") @@ From("u2", Hex, "u3") @@ From("u3", Hex, "chars")

\* true, false and null.
WordMoves ==
    From("start", {"t"}, "t") @@ From("t", {"r"}, "tr") @@ From("tr", {"u"}, "tru") @@ From("tru", {"e"}, "true")
    @@ From("start", {"f"}, "f") @@ From("f", {"a"}, "fa") @@ From("fa", {"l"}, "fal")
    @@ From("fal", {"s"}, "fals") @@ From("fals", {"e"}, "false")
    @@ From("start", {"n"}, "n") @@ From("n", {"u"}, "nu") @@ From("nu", {"l"}, "nul") @@ From("nul", {"l"}, "null")

Moves == MarkMoves @@ NumberMoves @@ StringMoves @@ EscapeMoves @@ WordMoves

\* The token of a state the automaton may stop in.
Accepts ==
    [m \in Marks |-> m] @@ [q \in {"zero", "int", "frac", "exp"} |-> "number"]
    @@ [q \in {"space", "noesc", "string", "true", "false", "null"} |-> q]

\* The states after each prefix of s; "stop" is none.
Step(moves, p) == IF p \in DOMAIN moves THEN moves[p] ELSE "stop"
Run(s) == FoldLeft(LAMBDA qs, c : Append(qs, Step(Moves, <<Last(qs), c>>)), <<"start">>, s)

\* The longest match, at the last state that accepts: the one c is set back to.
LastAccepted(qs, accepts) ==
    LET ends == {n \in 1 .. Len(qs) - 1 : qs[n + 1] \in DOMAIN accepts}
    IN IF ends = {} THEN [token |-> "invalid", length |-> 1]
       ELSE LET n == CHOOSE n \in ends : \A k \in ends : k <= n
            IN [token |-> accepts[qs[n + 1]], length |-> n]

Match(s) == LastAccepted(Run(s), Accepts)

Rest(s, i) == SubSeq(s, i, Len(s))

RECURSIVE TokenAt(_, _), TokensFrom(_, _)

\* Spaces are skipped, another token is returned from its first to its last character.
Skip(s, i, m) ==
    IF m.token = "space" THEN TokenAt(s, i + m.length)
    ELSE [token |-> m.token, first |-> i, last |-> i + m.length - 1]

\* The token at or behind i.
TokenAt(s, i) ==
    IF i > Len(s) THEN [token |-> "none", first |-> i, last |-> i - 1]
    ELSE Skip(s, i, Match(Rest(s, i)))

\* What repeated calls return, up to the end or an invalid token, with its text.
Collect(s, k) ==
    LET t == [token |-> k.token, chars |-> SubSeq(s, k.first, k.last)]
    IN CASE k.token = "none"    -> <<>>
         [] k.token = "invalid" -> <<t>>
         [] OTHER               -> <<t>> \o TokensFrom(s, k.last + 1)

TokensFrom(s, i) == Collect(s, TokenAt(s, i))

TokensOf(s) == TokensFrom(s, 1)

-----------------------------------------------------------------------------
(* Strings.                                                                 *)

\* escape_string.
EscapeChar(c) ==
    CASE c = "\n"      -> <<Backslash, "n">>
      [] c = "\r"      -> <<Backslash, "r">>
      [] c = "BS"      -> <<Backslash, "b">>
      [] c = "\t"      -> <<Backslash, "t">>
      [] c = Quote     -> <<Backslash, Quote>>
      [] c = Backslash -> <<Backslash, Backslash>>
      [] OTHER         -> <<c>>

\* A formfeed is escaped unless an unescaped run goes through it: the rule for
\* runs does not exclude it, and the longest match wins.
FormfeedAlone(v, i) ==
    /\ v[i] = "\f"
    /\ i = 1 \/ EscapeChar(v[i - 1]) # <<v[i - 1]>>
    /\ i = Len(v) \/ EscapeChar(v[i + 1]) # <<v[i + 1]>>

Escape(v) ==
    <<Quote>>
    \o FlattenSeq([i \in 1 .. Len(v) |-> IF FormfeedAlone(v, i) THEN <<Backslash, "f">> ELSE EscapeChar(v[i])])
    \o <<Quote>>

\* What an escape's letter stands for.
Unescaped(c) ==
    CASE c = "b" -> "BS" [] c = "n" -> "\n" [] c = "r" -> "\r" [] c = "t" -> "\t" [] c = "f" -> "\f" [] OTHER -> c

\* The character of a \u escape: zero ends a C string, others are told apart from
\* the characters of the texts.
Unichar(h) == IF h = <<"0", "0", "0", "0">> THEN "NUL" ELSE "unichar"

RECURSIVE Decode(_)
Decode(b) ==
    IF b = <<>> THEN <<>>
    ELSE IF b[1] # Backslash THEN <<b[1]>> \o Decode(Rest(b, 2))
    ELSE IF b[2] = "u" THEN <<Unichar(SubSeq(b, 3, 6))>> \o Decode(Rest(b, 7))
    ELSE <<Unescaped(b[2])>> \o Decode(Rest(b, 3))

\* A C string ends at its first NUL.
CString(s) == IF "NUL" \in ToSet(s) THEN SubSeq(s, 1, SelectInSeq(s, LAMBDA c : c = "NUL") - 1) ELSE s

\* s_json_get_string: what a caller sees of it.  Absent is NULL.
Absent == <<"NULL">>

StringOf(s, k) ==
    LET body == SubSeq(s, k.first + 1, k.last - 1)
    IN CASE k.token = "noesc"  -> body
         [] k.token = "string" -> CString(Decode(body))
         [] OTHER              -> Absent

GetString(s) == StringOf(s, TokenAt(s, 1))

\* s_json_string_match: a string without escapes is compared where it is.
MatchToken(s, k, w) ==
    LET body == SubSeq(s, k.first + 1, k.last - 1)
    IN CASE k.token = "noesc"  -> IsPrefix(body, w) /\ Len(w) = Len(body)
         [] k.token = "string" -> StringOf(s, k) = w
         [] OTHER              -> FALSE

StringMatch(s, w) == MatchToken(s, TokenAt(s, 1), w)

-----------------------------------------------------------------------------
(* s_json_compact.                                                          *)

\* The text of the tokens; NULL if one is invalid.
TextOf(ks) ==
    IF \E k \in ToSet(ks) : k.token = "invalid" THEN Absent
    ELSE FlattenSeq([i \in 1 .. Len(ks) |-> ks[i].chars])

Compact(s) == TextOf(TokensOf(s))
=============================================================================
