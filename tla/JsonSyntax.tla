------------------------------ MODULE JsonSyntax ------------------------------
(***************************************************************************)
(* JSON as a sequence of tokens (JsonScan scans them), and s_json_is_valid *)
(* (libtools/sjson.c, compiled as sjson.gen.c), which descends into a text *)
(* with a loop for the elements of an array and one for the members of an  *)
(* object.  A pointer into a text is the number of the next token, 0 for   *)
(* NULL.                                                                   *)
(***************************************************************************)
EXTENDS Integers, SequencesExt

CONSTANTS
    Strings,        \* string tokens, as they are written
    Naturals_,      \* number tokens of digits only
    OtherNumbers    \* number tokens with a sign, a fraction or an exponent

Literals == {"true", "false", "null"}
Scalars == Strings \cup Naturals_ \cup OtherNumbers \cup Literals
Structural == {"{", "}", "[", "]", ":", ","}
Tokens == Structural \cup Scalars \cup {"invalid"}

\* What the constants must satisfy; MCJson assumes it of the values it gives.
SyntaxAssumption ==
    /\ (Strings \cup Naturals_ \cup OtherNumbers) \cap (Structural \cup Literals \cup {"none", "invalid"}) = {}
    /\ Strings \cap (Naturals_ \cup OtherNumbers) = {} /\ Naturals_ \cap OtherNumbers = {}

\* s_json_get_token.
Token(t, i) == IF i <= Len(t) THEN t[i] ELSE "none"

-----------------------------------------------------------------------------
(* s_json_is_valid_inner: the pointer behind the value, or 0.  The places a *)
(* text is read from are those of a value, of the first element or member, *)
(* and of what follows one; end has what is found from each.               *)

Sorts == {"value", "elements", "moreElements", "members", "moreMembers"}

Places(t) == Sorts \X (1 .. Len(t) + 1)

\* From an element, or what follows one if a comma is expected.
ArrayEnd(end, t, i, comma) ==
    IF Token(t, i) = "]" THEN i + 1
    ELSE IF comma /\ Token(t, i) # "," THEN 0
    ELSE LET e == end[<<"value", IF comma THEN i + 1 ELSE i>>]
         IN IF e = 0 THEN 0 ELSE end[<<"moreElements", e>>]

\* Mutant of ObjectEnd: a member may be missing behind a comma.
ObjectEndLoose(end, t, i, comma) ==
    LET k == IF comma /\ Token(t, i) = "," THEN i + 1 ELSE i
    IN IF Token(t, k) = "}" THEN k + 1
       ELSE IF Token(t, k) \notin Strings \/ Token(t, k + 1) # ":" THEN 0
       ELSE LET e == end[<<"value", k + 2>>] IN IF e = 0 THEN 0 ELSE end[<<"moreMembers", e>>]

ObjectEnd(end, t, i, comma) ==
    LET k == IF comma THEN i + 1 ELSE i
    IN IF Token(t, i) = "}" THEN i + 1
       ELSE IF comma /\ Token(t, i) # "," THEN 0
       ELSE IF Token(t, k) \notin Strings \/ Token(t, k + 1) # ":" THEN 0
       ELSE LET e == end[<<"value", k + 2>>] IN IF e = 0 THEN 0 ELSE end[<<"moreMembers", e>>]

\* What the first token tells.
ValueEnd(end, t, i) ==
    CASE Token(t, i) = "["        -> end[<<"elements", i + 1>>]
      [] Token(t, i) = "{"        -> end[<<"members", i + 1>>]
      [] Token(t, i) \in Scalars  -> i + 1
      [] OTHER                    -> 0

EndFrom(end, t, sort, i) ==
    CASE sort = "value"        -> ValueEnd(end, t, i)
      [] sort = "elements"     -> ArrayEnd(end, t, i, FALSE)
      [] sort = "moreElements" -> ArrayEnd(end, t, i, TRUE)
      [] sort = "members"      -> ObjectEnd(end, t, i, FALSE)
      [] sort = "moreMembers"  -> ObjectEnd(end, t, i, TRUE)

Ends(t) == LET end[p \in Places(t)] == EndFrom(end, t, p[1], p[2]) IN end

End(t, i) == Ends(t)[<<"value", i>>]

IsValid(t) == LET e == End(t, 1) IN e # 0 /\ Token(t, e) = "none"
=============================================================================
