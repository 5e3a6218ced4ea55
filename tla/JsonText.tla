------------------------------- MODULE JsonText ------------------------------
(***************************************************************************)
(* The scanners of JsonScan, on every text over some characters, compared  *)
(* with the rules they are compiled from (libtools/sjson.c).               *)
(***************************************************************************)
EXTENDS JsonScan

CONSTANTS
    Words,          \* C strings that are compared with JSON strings
    Alphabets       \* texts of some characters only: [of, length]; the length is a bound

VARIABLES
    chars,          \* the text
    alphabet        \* the characters it is made of

TextInit == chars = <<>> /\ alphabet \in Alphabets

TextNext ==
    /\ Len(chars) < alphabet.length
    /\ \E c \in alphabet.of : chars' = Append(chars, c)
    /\ UNCHANGED alphabet

TextSpec == TextInit /\ [][TextNext]_<<chars, alphabet>>

-----------------------------------------------------------------------------
(* The rules the automata are compiled from (sjson.c:47-65).                *)

AllDigits(s) == ToSet(s) \subseteq Digits

IntRule(s) == s # <<>> /\ AllDigits(s) /\ (s[1] = "0" => Len(s) = 1)

FracRule(s) == s = <<>> \/ (Len(s) > 1 /\ s[1] = "." /\ AllDigits(Rest(s, 2)))

ExpRule(s) ==
    \/ s = <<>>
    \/ /\ s[1] \in {"e", "E"}
       /\ \E i \in {2, 3} : /\ i = 3 => Len(s) > 1 /\ s[2] \in {"+", "-"}
                            /\ i <= Len(s) /\ AllDigits(Rest(s, i))

NumberRule(s) ==
    \E i \in {1, 2}, j, k \in 1 .. Len(s) + 1 :
        /\ i <= j /\ j <= k
        /\ i = 2 => s[1] = "-"
        /\ IntRule(SubSeq(s, i, j - 1)) /\ FracRule(SubSeq(s, j, k - 1)) /\ ExpRule(Rest(s, k))

RECURSIVE BodyRule(_)
BodyRule(b) ==
    \/ b = <<>>
    \/ b[1] \in Char /\ BodyRule(Rest(b, 2))
    \/ Len(b) >= 2 /\ b[1] = Backslash /\ b[2] \in Letters /\ BodyRule(Rest(b, 3))
    \/ /\ Len(b) >= 6 /\ b[1] = Backslash /\ b[2] = "u" /\ ToSet(SubSeq(b, 3, 6)) \subseteq Hex
       /\ BodyRule(Rest(b, 7))

Quoted(s) == Len(s) > 1 /\ s[1] = Quote /\ s[Len(s)] = Quote

Plain(s) == Quoted(s) /\ ToSet(SubSeq(s, 2, Len(s) - 1)) \subseteq Char

StringRule(s) == Quoted(s) /\ ~Plain(s) /\ BodyRule(SubSeq(s, 2, Len(s) - 1))

WordRule == [true |-> <<"t", "r", "u", "e">>, false |-> <<"f", "a", "l", "s", "e">>, null |-> <<"n", "u", "l", "l">>]

Rule(s, token) ==
    CASE token = "number"               -> NumberRule(s)
      [] token = "noesc"                -> Plain(s)
      [] token = "string"               -> StringRule(s)
      [] token \in {"true", "false", "null"} -> s = WordRule[token]
      [] token = "space"                -> s # <<>> /\ ToSet(s) \subseteq Space
      [] token \in Marks                -> s = <<token>>

Kinds == {"number", "noesc", "string", "true", "false", "null", "space"} \cup Marks

\* The scanner finds the longest prefix that a rule describes, and calls it by
\* that rule; the text is invalid only if no prefix is a token (sjson.c:47-65).
IsLongest(m, s) ==
    LET IsToken(n) == \E k \in Kinds : Rule(SubSeq(s, 1, n), k)
    IN \A n \in 1 .. Len(s) :
          CASE m.token = "invalid" \/ n > m.length -> ~IsToken(n)
            [] n = m.length                        -> Rule(SubSeq(s, 1, n), m.token)
            [] OTHER                               -> TRUE

LongestByRules == chars # <<>> => IsLongest(Match(chars), chars)

\* Any C string, escaped, is one string token and is read back as it was: what is
\* put into a request or a cache never ends its string early.
IsWhole(s, k) == k.token \in {"noesc", "string"} /\ k.last = Len(s) /\ StringOf(s, k) = chars
ReadsBack(s) == IsWhole(s, TokenAt(s, 1))
EscapedReadsBack == ReadsBack(Escape(chars))

\* The comparison in place decides as a comparison of the decoded string does.
MatchIsEquality ==
    \A w \in Words : StringMatch(chars, w) <=> GetString(chars) = w

\* A text whose scalars are separated by marks has the same tokens after compacting.
SameTokens(ks) ==
    LET scalar(i) == ks[i].token \notin Marks
    IN (\A i \in 1 .. Len(ks) : /\ ks[i].token # "invalid"
                                /\ i < Len(ks) => ~(scalar(i) /\ scalar(i + 1)))
       => TokensOf(TextOf(ks)) = ks
CompactKeepsTokens == SameTokens(TokensOf(chars))

\* Scanning, decoding, comparing, escaping and compacting agree on what a token is.
TokensAgree == LongestByRules /\ EscapedReadsBack /\ MatchIsEquality /\ CompactKeepsTokens
=============================================================================
