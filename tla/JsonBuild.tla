------------------------------ MODULE JsonBuild ------------------------------
(***************************************************************************)
(* s_json_buildv (libtools/sjson.c): a request is written as a format,     *)
(* "[{a:ud, c:%s}]", JSON with names that need no quotes and directives    *)
(* for the arguments.  The format is scanned as JSON is, but not parsed:   *)
(* what comes out is checked afterwards.                                   *)
(*                                                                         *)
(* A format here is the sequence of its items: a token of JSON, a name, or *)
(* a directive with the arguments that go with it.                         *)
(***************************************************************************)
EXTENDS JsonScan

CONSTANTS
    Names,          \* names, as items
    Directives,     \* directives, as items
    CharsOf,        \* the characters of a name or directive
    ArgsOf,         \* the arguments of a directive
    MaxItems        \* bound: length of a format

\* Tokens are read by their kind.
Reader == INSTANCE JsonSyntax WITH Strings <- {"noesc", "string"}, Naturals_ <- {"number"}, OtherNumbers <- {}

KindsOf(ks) == [i \in 1 .. Len(ks) |-> ks[i].token]

\* s_json_is_valid, of characters.
Valid(s) == Reader!IsValid(KindsOf(TokensOf(s)))

\* The characters of the first tokens, which make a value, or NULL.  Spaces between
\* them are dropped, which the code copies with the rest.
Isolated(ks, e) == IF e = 0 THEN Absent ELSE FlattenSeq([i \in 1 .. e - 1 |-> ks[i].chars])
FirstOf(ks) == Isolated(ks, Reader!End(KindsOf(ks), 1))
FirstValue(s) == FirstOf(TokensOf(s))

NullText == <<"n", "u", "l", "l">>
Yes == <<"yes">>

OrNull(v) == IF v = Absent THEN NullText ELSE v

-----------------------------------------------------------------------------
(* The scanner of formats.                                                  *)

NameStart == {"a", "c", "f", "k", "l", "n", "r", "s", "t", "u", "-", "_"}

RECURSIVE RunLength(_)

\* A run of tokens and spaces: the longest, over as many of them as there are.
RunFrom(f, m) == IF m.token = "invalid" THEN 0 ELSE m.length + RunLength(SubSeq(f, m.length + 1, Len(f)))
RunLength(f) == IF f = <<>> THEN 0 ELSE RunFrom(f, Match(f))

\* IDENT.
NameLength(f) ==
    IF f = <<>> \/ f[1] \notin NameStart THEN 0
    ELSE CHOOSE n \in 1 .. Len(f) :
             /\ \A i \in 2 .. n : f[i] \in NameStart \cup Digits
             /\ n = Len(f) \/ f[n + 1] \notin NameStart \cup Digits

\* A directive: its letter, and whether an argument in front says it is null.
Directive(f) ==
    LET optional == Len(f) > 2 /\ f[2] = "?"
        n == IF optional THEN 3 ELSE 2
    IN [length |-> IF f # <<>> /\ f[1] = "%" /\ Len(f) >= n
                      /\ f[n] \in {"s", "S", "j", "J", "i", "d", "b"} THEN n ELSE 0,
        letter |-> IF Len(f) >= n THEN f[n] ELSE "", optional |-> optional]

\* Mutant of Formatted: a JSON argument is put in with all that follows its value.
FormattedWhole(letter, arg) ==
    CASE arg = Absent                    -> NullText
      [] letter \in {"s", "S"}                -> Escape(arg)
      [] letter \in {"j", "J", "i", "d"}      -> arg
      [] letter = "b"                         -> IF arg = Yes THEN <<"t", "r", "u", "e">> ELSE <<"f", "a", "l", "s", "e">>

\* What an argument becomes.
Formatted(letter, arg) ==
    CASE arg = Absent     -> NullText
      [] letter \in {"s", "S"} -> Escape(arg)
      [] letter \in {"j", "J"} -> OrNull(FirstValue(arg))
      [] letter \in {"i", "d"} -> arg
      [] letter = "b"          -> IF arg = Yes THEN <<"t", "r", "u", "e">> ELSE <<"f", "a", "l", "s", "e">>

\* g_free for S and J, null or not.
Frees(d, args) == d.letter \in {"S", "J"}

RECURSIVE BuildFrom(_, _)

\* s has the output, the arguments that are left and those that were freed; run,
\* name and d are what the format could go on with.  A run wins against a name of
\* the same length: true, false and null are no names.
BuildItem(f, s, run, name, d) ==
    LET rest(n) == SubSeq(f, n + 1, Len(f))
        arg == s.args[IF d.optional THEN 2 ELSE 1]
        null == d.optional /\ s.args[1] = Yes
    IN CASE run > 0 /\ run >= name -> BuildFrom(rest(run), [s EXCEPT !.out = @ \o SubSeq(f, 1, run)])
         [] name > run ->
              BuildFrom(rest(name), [s EXCEPT !.out = @ \o <<Quote>> \o SubSeq(f, 1, name) \o <<Quote>>])
         [] d.length > 0 ->
              BuildFrom(rest(d.length),
                        [s EXCEPT !.out = @ \o IF null THEN NullText ELSE Formatted(d.letter, arg),
                                  !.args = SubSeq(@, IF d.optional THEN 3 ELSE 2, Len(@)),
                                  !.freed = @ \o IF Frees(d, s.args) THEN <<arg>> ELSE <<>>])
         [] OTHER -> s

BuildFrom(f, s) ==
    IF f = <<>> THEN [s EXCEPT !.ok = TRUE]
    ELSE BuildItem(f, s, RunLength(f), NameLength(f), Directive(f))

Buildv(f, args) == BuildFrom(f, [out |-> <<>>, args |-> args, freed |-> <<>>, ok |-> FALSE])

\* NULL if the format has an error or the result is no JSON text.
Result(r) == IF r.ok /\ Valid(r.out) THEN r.out ELSE Absent

-----------------------------------------------------------------------------
VARIABLES
    format,     \* the items of the format
    built       \* what s_json_buildv did

Skeletons == INSTANCE Json WITH Strings <- Names, Naturals_ <- Directives, OtherNumbers <- {},
                                Walks <- {}, TypeEnds <- {}, MaxTokens <- MaxItems, text <- <<>>, doc <- FALSE

ItemChars(i) ==
    CASE i \in Names \cup Directives -> CharsOf[i]
      [] i = "true"  -> <<"t", "r", "u", "e">>
      [] i = "false" -> <<"f", "a", "l", "s", "e">>
      [] i = "null"  -> NullText
      [] OTHER       -> <<i>>

ItemArgs(i) == IF i \in Directives THEN ArgsOf[i] ELSE <<>>

NotYet == [ok |-> FALSE, out |-> <<>>, args |-> <<>>, freed |-> <<>>]

BuildInit == format \in Skeletons!Language /\ built = NotYet

\* s_json_buildv.
Build ==
    /\ built = NotYet
    /\ built' = Buildv(FlattenSeq([k \in 1 .. Len(format) |-> ItemChars(format[k])]),
                       FlattenSeq([k \in 1 .. Len(format) |-> ItemArgs(format[k])]))
    /\ UNCHANGED format

BuildSpec == BuildInit /\ [][Build]_<<format, built>>

-----------------------------------------------------------------------------
\* What an item stands for: the argument, whole and as one value.
Meaning(i) ==
    LET letter == Last(ItemChars(i))
        arg == Last(ItemArgs(i))
        null == arg = Absent \/ (Len(ItemArgs(i)) = 2 /\ ItemArgs(i)[1] = Yes)
    IN IF i \in Names THEN [token |-> "noesc", chars |-> <<Quote>> \o CharsOf[i] \o <<Quote>>]
       ELSE IF i \notin Directives THEN [token |-> i, chars |-> ItemChars(i)]
       ELSE IF null THEN [token |-> "null", chars |-> NullText]
       ELSE TokensOf(IF letter \in {"s", "S"} THEN Escape(arg) ELSE arg)[1]

\* Every format of JSON's grammar gives the request it shows: a name where a name
\* stands, one value for each directive, made of its own argument whatever that
\* holds, however many arguments the directives before it took; and each argument
\* handed over with S or J is freed once, in use or not (api_call's callers).
BuildsWhatItShows ==
    built # NotYet =>
        /\ Result(built) # Absent
        /\ TokensOf(Result(built)) = [k \in 1 .. Len(format) |-> Meaning(format[k])]
        /\ built.args = <<>>
        /\ built.freed = FlattenSeq([k \in 1 .. Len(format) |->
               IF Last(ItemChars(format[k])) \in {"S", "J"} THEN <<Last(ItemArgs(format[k]))>> ELSE <<>>])
=============================================================================
