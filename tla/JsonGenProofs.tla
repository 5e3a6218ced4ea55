---------------------------- MODULE JsonGenProofs -----------------------------
(***************************************************************************)
(* The JSON generator, for any names, any JSON texts put in as a whole and *)
(* any nesting; and what s_json_is_valid finds in texts of any length.     *)
(***************************************************************************)
EXTENDS JsonGen, SequenceTheorems, WellFoundedInduction, TLAPS

-----------------------------------------------------------------------------
(* Induction over the natural numbers, about a set.                          *)

Less == OpToRel(<, Nat)

\* A set of numbers with 0 in it and with every successor has all of them.
LEMMA Induct ==
  ASSUME NEW T \in SUBSET Nat, 0 \in T, \A n \in T : n + 1 \in T
  PROVE  T = Nat
<1> DEFINE M == {n \in Nat : n \notin T}
<1>1. SUFFICES ASSUME M # {} PROVE FALSE
  OBVIOUS
<1>2. PICK m \in M : \A k \in M : <<k, m>> \notin Less
  <2>1. M \subseteq Nat
    OBVIOUS
  <2> HIDE DEF M
  <2>2. QED BY <1>1, <2>1, NatLessThanWellFounded, WFMin DEF Less
<1>3. m # 0 /\ m - 1 \in Nat /\ m - 1 < m
  BY <1>2
<1>4. <<m - 1, m>> \in Less
  BY <1>3 DEF Less, OpToRel
<1>5. m - 1 \in T
  BY <1>2, <1>3, <1>4
<1>6. m - 1 + 1 = m
  BY <1>3
<1>7. QED BY <1>2, <1>5, <1>6

-----------------------------------------------------------------------------
(* The parser's function.                                                    *)

\* What a value ends with.
Closing == Scalars \cup {"]", "}"}

\* What may be found from a place: nothing, or a pointer further on, behind what
\* may be the end of a value.
Found(t, i) == {0} \cup {e \in i + 1 .. Len(t) + 1 : t[e - 1] \in Closing}

\* Every place is decided by places of a lower rank: those further on, and for
\* the first element of an array the value that is there.
Rank(t, sort, i) == 2 * (Len(t) + 1 - i) + (IF sort = "value" THEN 0 ELSE 1)

\* What is not "none" is a token of the text.
LEMMA TokenInside ==
  ASSUME SyntaxAssumption, NEW t \in Seq(Tokens), NEW i \in Nat \ {0}, Token(t, i) # "none"
  PROVE  i <= Len(t) /\ i \in 1 .. Len(t) /\ t[i] = Token(t, i)
BY DEF Token

\* A place inside a text has its token, and a place behind it.
LEMMA TokenAt ==
  ASSUME NEW t \in Seq(Tokens), NEW i \in 1 .. Len(t)
  PROVE  i \in 1 .. Len(t) + 1 /\ i + 1 \in 1 .. Len(t) + 1 /\ Token(t, i) = t[i]
BY DEF Token

\* Behind two tokens there still is a place.
LEMMA TwoOn ==
  ASSUME NEW t \in Seq(Tokens), NEW k \in 1 .. Len(t), k + 1 \in 1 .. Len(t)
  PROVE  k + 2 \in 1 .. Len(t) + 1
OBVIOUS

\* A closing token may be what is found.
LEMMA FoundBehind ==
  ASSUME NEW t \in Seq(Tokens), NEW i \in 1 .. Len(t), t[i] \in Closing
  PROVE  i + 1 \in Found(t, i)
<1>1. i + 1 \in i + 1 .. Len(t) + 1 /\ (i + 1) - 1 = i
  OBVIOUS
<1> DEFINE e == i + 1
<1>2. e \in i + 1 .. Len(t) + 1 /\ t[e - 1] \in Closing
  BY <1>1
<1> HIDE DEF e
<1>3. e \in Found(t, i)
  BY <1>2 DEF Found
<1>4. QED BY <1>3 DEF e

\* What is found from further on may be found from here.
LEMMA FoundFurther ==
  ASSUME NEW t \in Seq(Tokens), NEW i \in Nat, NEW k \in Nat, k >= i
  PROVE  /\ Found(t, k) \subseteq Found(t, i)
         /\ \A e \in Found(t, k) : e # 0 => e \in 1 .. Len(t) + 1 /\ e > i
BY DEF Found

\* The end of a text is no token, and strings are values.
LEMMA NotNone ==
  ASSUME SyntaxAssumption
  PROVE  "none" \notin Tokens /\ Strings \subseteq Scalars /\ Scalars \subseteq Tokens
BY DEF SyntaxAssumption, Scalars, Tokens, Structural, Literals

\* Places further on are of lower rank, and so is a value to what begins with it.
LEMMA Ranks ==
  ASSUME NEW t \in Seq(Tokens), NEW i \in 1 .. Len(t) + 1, NEW j \in 1 .. Len(t) + 1
  PROVE  /\ \A r, s \in Sorts : i < j => Rank(t, r, j) < Rank(t, s, i)
         /\ \A s \in Sorts : s # "value" => Rank(t, "value", i) < Rank(t, s, i)
         /\ \A s \in Sorts : Rank(t, s, i) \in Nat /\ Rank(t, s, i) < 2 * Len(t) + 2
BY DEF Rank, Sorts


\* What a function says of a place, and that two functions say the same.
Of(f, sort, i) == f[<<sort, i>>]
Agree(f, g, t, sort, i) == Of(f, sort, i) = Of(g, sort, i) /\ Of(f, sort, i) \in Found(t, i)

\* ArrayEnd, with Of for what the function says.
LEMMA ArrayEndOf ==
  ASSUME NEW f, NEW t, NEW i, NEW comma
  PROVE  ArrayEnd(f, t, i, comma) =
             IF Token(t, i) = "]" THEN i + 1
             ELSE IF comma /\ Token(t, i) # "," THEN 0
             ELSE LET e == Of(f, "value", IF comma THEN i + 1 ELSE i)
                  IN IF e = 0 THEN 0 ELSE Of(f, "moreElements", e)
BY DEF ArrayEnd, Of

\* ObjectEnd, with Of for what the function says.
LEMMA ObjectEndOf ==
  ASSUME NEW f, NEW t, NEW i, NEW comma
  PROVE  ObjectEnd(f, t, i, comma) =
             LET k == IF comma THEN i + 1 ELSE i
             IN IF Token(t, i) = "}" THEN i + 1
                ELSE IF comma /\ Token(t, i) # "," THEN 0
                ELSE IF Token(t, k) \notin Strings \/ Token(t, k + 1) # ":" THEN 0
                ELSE LET e == Of(f, "value", k + 2)
                     IN IF e = 0 THEN 0 ELSE Of(f, "moreMembers", e)
BY DEF ObjectEnd, Of

\* ValueEnd, with Of for what the function says.
LEMMA ValueEndOf ==
  ASSUME NEW f, NEW t, NEW i
  PROVE  ValueEnd(f, t, i) =
             CASE Token(t, i) = "["        -> Of(f, "elements", i + 1)
               [] Token(t, i) = "{"        -> Of(f, "members", i + 1)
               [] Token(t, i) \in Scalars  -> i + 1
               [] OTHER                    -> 0
BY DEF ValueEnd, Of

\* The end of an array is told by values from here on and by what follows them.
LEMMA ArrayEndLocal ==
  ASSUME SyntaxAssumption, NEW t \in Seq(Tokens), NEW f, NEW g, NEW i \in 1 .. Len(t) + 1,
         NEW comma \in BOOLEAN,
         \A j \in 1 .. Len(t) + 1 : j >= i => Agree(f, g, t, "value", j),
         \A j \in 1 .. Len(t) + 1 : j > i => Agree(f, g, t, "moreElements", j)
  PROVE  /\ ArrayEnd(f, t, i, comma) = ArrayEnd(g, t, i, comma)
         /\ ArrayEnd(f, t, i, comma) \in Found(t, i)
<1>0. Len(t) \in Nat /\ i \in Nat \ {0}
  OBVIOUS
<1> DEFINE k == IF comma THEN i + 1 ELSE i
<1> DEFINE e == Of(f, "value", k)
<1>1. CASE Token(t, i) = "]"
  <2>1. i \in 1 .. Len(t) /\ t[i] \in Closing
    <3>1. i \in 1 .. Len(t) /\ t[i] = Token(t, i)
      BY <1>0, <1>1, TokenInside
    <3>2. QED BY <1>1, <3>1 DEF Closing
  <2>2. ArrayEnd(f, t, i, comma) = i + 1 /\ ArrayEnd(g, t, i, comma) = i + 1
    BY <1>1, ArrayEndOf
  <2>3. QED BY <2>1, <2>2, FoundBehind
<1>2. CASE Token(t, i) # "]" /\ comma /\ Token(t, i) # ","
  BY <1>2, ArrayEndOf DEF Found
<1>3. CASE Token(t, i) # "]" /\ ~(comma /\ Token(t, i) # ",")
  <2>1. k \in 1 .. Len(t) + 1 /\ k >= i
    <3>1. CASE comma
      <4>1. i <= Len(t)
        BY <1>0, <1>3, <3>1, TokenInside
      <4>2. QED BY <1>0, <3>1, <4>1
    <3>2. CASE ~comma
      BY <1>0, <3>2
    <3>3. QED BY <3>1, <3>2
  <2>2. e = Of(g, "value", k) /\ e \in Found(t, k)
    BY <2>1 DEF Agree
  <2> DEFINE z == Of(f, "moreElements", e)
  <2>3. e # 0 => e \in 1 .. Len(t) + 1 /\ e > i
    <3> HIDE DEF e, k
    <3>1. k \in Nat /\ i \in Nat
      BY <1>0, <2>1
    <3>2. QED BY <2>1, <2>2, <3>1, FoundFurther
  <2>4. e # 0 => z = Of(g, "moreElements", e) /\ z \in Found(t, e)
    BY <2>3 DEF Agree
  <2>5. ArrayEnd(f, t, i, comma) = (IF e = 0 THEN 0 ELSE z)
    BY <1>3, ArrayEndOf
  <2>6. ArrayEnd(g, t, i, comma) = (IF e = 0 THEN 0 ELSE z)
    <3> DEFINE d == Of(g, "value", k)
    <3>1. ArrayEnd(g, t, i, comma) = (IF d = 0 THEN 0 ELSE Of(g, "moreElements", d))
      BY <1>3, ArrayEndOf
    <3> HIDE DEF e, z, d
    <3>2. d = e
      BY <2>2 DEF d
    <3>3. QED BY <2>4, <3>1, <3>2
  <2> HIDE DEF e, z, k
  <2>7. e # 0 => z \in Found(t, i)
    <3>1. e # 0 => e \in Nat /\ i \in Nat /\ e >= i
      BY <1>0, <2>3
    <3>2. QED BY <2>4, <3>1, FoundFurther
  <2>8. QED BY <2>5, <2>6, <2>7 DEF Found
<1>4. QED BY <1>1, <1>2, <1>3

\* The end of an object is told by values further on and by what follows them.
LEMMA ObjectEndLocal ==
  ASSUME SyntaxAssumption, NEW t \in Seq(Tokens), NEW f, NEW g, NEW i \in 1 .. Len(t) + 1,
         NEW comma \in BOOLEAN,
         \A j \in 1 .. Len(t) + 1 : j > i => Agree(f, g, t, "value", j),
         \A j \in 1 .. Len(t) + 1 : j > i => Agree(f, g, t, "moreMembers", j)
  PROVE  /\ ObjectEnd(f, t, i, comma) = ObjectEnd(g, t, i, comma)
         /\ ObjectEnd(f, t, i, comma) \in Found(t, i)
<1>0. Len(t) \in Nat /\ i \in Nat \ {0}
  OBVIOUS
<1> DEFINE k == IF comma THEN i + 1 ELSE i
<1> DEFINE e == Of(f, "value", k + 2)
<1>1. CASE Token(t, i) = "}"
  <2>1. i \in 1 .. Len(t) /\ t[i] \in Closing
    <3>1. i \in 1 .. Len(t) /\ t[i] = Token(t, i)
      BY <1>0, <1>1, TokenInside
    <3>2. QED BY <1>1, <3>1 DEF Closing
  <2>2. ObjectEnd(f, t, i, comma) = i + 1 /\ ObjectEnd(g, t, i, comma) = i + 1
    BY <1>1, ObjectEndOf
  <2>3. QED BY <2>1, <2>2, FoundBehind
<1>2. CASE /\ Token(t, i) # "}"
           /\ (comma /\ Token(t, i) # ",") \/ Token(t, k) \notin Strings \/ Token(t, k + 1) # ":"
  BY <1>2, ObjectEndOf DEF Found
<1>3. CASE /\ Token(t, i) # "}" /\ ~(comma /\ Token(t, i) # ",")
           /\ Token(t, k) \in Strings /\ Token(t, k + 1) = ":"
  <2>1. k \in Nat \ {0} /\ k + 1 \in Nat \ {0} /\ k >= i
    BY <1>0
  <2>2. k + 2 \in 1 .. Len(t) + 1 /\ k + 2 > i
    <3>1. k + 1 <= Len(t)
      <4> HIDE DEF k
      <4>1. QED BY <1>3, <2>1, TokenInside
    <3>2. QED BY <1>0, <2>1, <3>1
  <2>3. e = Of(g, "value", k + 2) /\ e \in Found(t, k + 2)
    BY <2>2 DEF Agree
  <2> DEFINE z == Of(f, "moreMembers", e)
  <2>4. e # 0 => e \in 1 .. Len(t) + 1 /\ e > i
    <3>1. k + 2 \in Nat /\ i \in Nat /\ k + 2 >= i
      BY <1>0, <2>2
    <3> DEFINE j == k + 2
    <3> HIDE DEF e, k, j
    <3>2. e \in Found(t, j) /\ j \in Nat /\ i \in Nat /\ j >= i
      BY <2>3, <3>1 DEF j
    <3>3. QED BY <3>2, FoundFurther
  <2>5. e # 0 => z = Of(g, "moreMembers", e) /\ z \in Found(t, e)
    BY <2>4 DEF Agree
  <2>6. ObjectEnd(f, t, i, comma) = (IF e = 0 THEN 0 ELSE z)
    BY <1>3, ObjectEndOf
  <2>7. ObjectEnd(g, t, i, comma) = (IF e = 0 THEN 0 ELSE z)
    <3> DEFINE d == Of(g, "value", k + 2)
    <3>1. ObjectEnd(g, t, i, comma) = (IF d = 0 THEN 0 ELSE Of(g, "moreMembers", d))
      BY <1>3, ObjectEndOf
    <3> HIDE DEF e, z, d
    <3>2. d = e
      BY <2>3 DEF d
    <3>3. QED BY <2>5, <3>1, <3>2
  <2> HIDE DEF e, z, k
  <2>8. e # 0 => z \in Found(t, i)
    <3>1. e # 0 => e \in Nat /\ i \in Nat /\ e >= i
      BY <1>0, <2>4
    <3>2. QED BY <2>5, <3>1, FoundFurther
  <2>9. QED BY <2>6, <2>7, <2>8 DEF Found
<1>4. QED BY <1>1, <1>2, <1>3

\* Two functions that agree where the rank is lower give the same.
LEMMA EndFromLocal ==
  ASSUME SyntaxAssumption, NEW t \in Seq(Tokens), NEW f, NEW g,
         NEW sort \in Sorts, NEW i \in 1 .. Len(t) + 1,
         \A r \in Sorts, j \in 1 .. Len(t) + 1 :
             Rank(t, r, j) < Rank(t, sort, i) => Agree(f, g, t, r, j)
  PROVE  /\ EndFrom(f, t, sort, i) = EndFrom(g, t, sort, i)
         /\ EndFrom(f, t, sort, i) \in Found(t, i)
<1>0. Len(t) \in Nat /\ i \in Nat \ {0}
  OBVIOUS
<1>1. \A r \in Sorts, j \in 1 .. Len(t) + 1 : j > i => Agree(f, g, t, r, j)
  BY Ranks
<1>2. /\ "value" \in Sorts /\ "elements" \in Sorts /\ "moreElements" \in Sorts
      /\ "members" \in Sorts /\ "moreMembers" \in Sorts
  BY DEF Sorts
<1>3. sort # "value" => Agree(f, g, t, "value", i)
  BY <1>2, Ranks
<1>4. sort = "elements" \/ sort = "moreElements" =>
          \A comma \in BOOLEAN : /\ ArrayEnd(f, t, i, comma) = ArrayEnd(g, t, i, comma)
                                 /\ ArrayEnd(f, t, i, comma) \in Found(t, i)
  <2>1. SUFFICES ASSUME sort = "elements" \/ sort = "moreElements", NEW comma \in BOOLEAN
                 PROVE  /\ ArrayEnd(f, t, i, comma) = ArrayEnd(g, t, i, comma)
                        /\ ArrayEnd(f, t, i, comma) \in Found(t, i)
    OBVIOUS
  <2>2. \A j \in 1 .. Len(t) + 1 : j >= i => Agree(f, g, t, "value", j)
    <3>1. TAKE j \in 1 .. Len(t) + 1
    <3>2. HAVE j >= i
    <3>3. CASE j = i
      BY <1>3, <2>1, <3>3
    <3>4. CASE j > i
      BY <1>1, <1>2, <3>4
    <3>5. QED BY <3>2, <3>3, <3>4
  <2>3. \A j \in 1 .. Len(t) + 1 : j > i => Agree(f, g, t, "moreElements", j)
    BY <1>1, <1>2
  <2>4. QED BY <2>2, <2>3, ArrayEndLocal
<1>5. \A comma \in BOOLEAN : /\ ObjectEnd(f, t, i, comma) = ObjectEnd(g, t, i, comma)
                             /\ ObjectEnd(f, t, i, comma) \in Found(t, i)
  <2>1. /\ \A j \in 1 .. Len(t) + 1 : j > i => Agree(f, g, t, "value", j)
        /\ \A j \in 1 .. Len(t) + 1 : j > i => Agree(f, g, t, "moreMembers", j)
    BY <1>1, <1>2
  <2>2. QED BY <2>1, ObjectEndLocal
<1>6. /\ ValueEnd(f, t, i) = ValueEnd(g, t, i)
      /\ ValueEnd(f, t, i) \in Found(t, i)
  <2>0. "[" \notin Scalars /\ "{" \notin Scalars
    BY DEF SyntaxAssumption, Scalars, Structural, Literals
  <2>1. Token(t, i) # "none" => i <= Len(t) /\ i + 1 \in 1 .. Len(t) + 1 /\ i + 1 > i
    BY <1>0, TokenInside
  <2>2. Token(t, i) # "none" =>
            \A s \in Sorts : Of(f, s, i + 1) = Of(g, s, i + 1) /\ Of(f, s, i + 1) \in Found(t, i)
    <3>1. SUFFICES ASSUME Token(t, i) # "none", NEW s \in Sorts
                   PROVE  Of(f, s, i + 1) = Of(g, s, i + 1) /\ Of(f, s, i + 1) \in Found(t, i)
      OBVIOUS
    <3>2. Agree(f, g, t, s, i + 1)
      BY <1>1, <2>1, <3>1
    <3>3. Found(t, i + 1) \subseteq Found(t, i)
      BY <1>0, FoundFurther
    <3>4. QED BY <3>2, <3>3 DEF Agree
  <2>3. CASE Token(t, i) = "["
    <3>1. /\ ValueEnd(f, t, i) = Of(f, "elements", i + 1)
          /\ ValueEnd(g, t, i) = Of(g, "elements", i + 1)
      BY <2>3, <2>0, ValueEndOf
    <3>2. QED BY <1>2, <2>2, <2>3, <3>1
  <2>4. CASE Token(t, i) = "{"
    <3>1. /\ ValueEnd(f, t, i) = Of(f, "members", i + 1)
          /\ ValueEnd(g, t, i) = Of(g, "members", i + 1)
      BY <2>4, <2>0, ValueEndOf
    <3>2. QED BY <1>2, <2>2, <2>4, <3>1
  <2>5. CASE Token(t, i) \in Scalars
    <3>1. Token(t, i) \notin {"none", "[", "{"}
      BY <2>5 DEF SyntaxAssumption, Scalars, Structural, Literals
    <3>2. ValueEnd(f, t, i) = i + 1 /\ ValueEnd(g, t, i) = i + 1
      BY <2>5, <3>1, ValueEndOf
    <3>3. i + 1 \in Found(t, i)
      <4>1. i \in 1 .. Len(t) /\ t[i] \in Closing
        BY <1>0, <2>5, <3>1, TokenInside DEF Closing
      <4>2. QED BY <4>1, FoundBehind
    <3>4. QED BY <3>2, <3>3
  <2>6. CASE Token(t, i) # "[" /\ Token(t, i) # "{" /\ Token(t, i) \notin Scalars
    BY <2>6, ValueEndOf DEF Found
  <2>7. QED BY <2>3, <2>4, <2>5, <2>6
<1>7. CASE sort = "value"
  BY <1>6, <1>7 DEF EndFrom
<1>8. CASE sort = "elements"
  BY <1>4, <1>8 DEF EndFrom
<1>9. CASE sort = "moreElements"
  BY <1>4, <1>9 DEF EndFrom
<1>10. CASE sort = "members"
  BY <1>5, <1>10 DEF EndFrom
<1>11. CASE sort = "moreMembers"
  BY <1>5, <1>11 DEF EndFrom
<1>12. QED BY <1>7, <1>8, <1>9, <1>10, <1>11 DEF Sorts

-----------------------------------------------------------------------------
\* There is the function that Ends is defined by: stage by stage, up to a rank.
IsEnds(f, t) == f = [p \in Places(t) |-> EndFrom(f, t, p[1], p[2])]

Staged(f, t, n) ==
    \A r \in Sorts, j \in 1 .. Len(t) + 1 :
        Rank(t, r, j) < n => Of(f, r, j) = EndFrom(f, t, r, j) /\ Of(f, r, j) \in Found(t, j)

\* The function that is computed from another one, place by place.
Again(f, t) == [p \in Places(t) |-> EndFrom(f, t, p[1], p[2])]

\* What Again says of a place.
LEMMA AgainOf ==
  ASSUME NEW f, NEW t, NEW r \in Sorts, NEW j \in 1 .. Len(t) + 1
  PROVE  Of(Again(f, t), r, j) = EndFrom(f, t, r, j)
<1>1. <<r, j>> \in Places(t)
  BY DEF Places
<1>2. QED BY <1>1 DEF Of, Again

\* Computed once more, the function is right for one more rank.
LEMMA NextStage ==
  ASSUME SyntaxAssumption, NEW t \in Seq(Tokens), NEW f, NEW n \in Nat, Staged(f, t, n)
  PROVE  Staged(Again(f, t), t, n + 1)
<1> DEFINE g == Again(f, t)
<1>1. \A r \in Sorts, j \in 1 .. Len(t) + 1 : Of(g, r, j) = EndFrom(f, t, r, j)
  BY AgainOf
<1>2. \A r \in Sorts, j \in 1 .. Len(t) + 1 : Rank(t, r, j) < n => Agree(f, g, t, r, j)
  BY <1>1 DEF Staged, Agree
<1> HIDE DEF g
<1>3. SUFFICES ASSUME NEW r \in Sorts, NEW j \in 1 .. Len(t) + 1, Rank(t, r, j) < n + 1
               PROVE  Of(g, r, j) = EndFrom(g, t, r, j) /\ Of(g, r, j) \in Found(t, j)
  BY DEF Staged, g
<1>4. \A q \in Sorts, k \in 1 .. Len(t) + 1 :
          Rank(t, q, k) < Rank(t, r, j) => Agree(f, g, t, q, k)
  <2>1. \A q \in Sorts, k \in 1 .. Len(t) + 1 : Rank(t, q, k) \in Nat
    BY Ranks
  <2>2. QED BY <1>2, <1>3, <2>1
<1>5. EndFrom(f, t, r, j) = EndFrom(g, t, r, j) /\ EndFrom(f, t, r, j) \in Found(t, j)
  BY <1>4, EndFromLocal
<1>6. QED BY <1>1, <1>5

\* Ends(t) is the function its recursion describes, for a text of any length.
LEMMA EndsExist ==
  ASSUME SyntaxAssumption, NEW t \in Seq(Tokens)
  PROVE  /\ IsEnds(Ends(t), t)
         /\ \A r \in Sorts, j \in 1 .. Len(t) + 1 :
                /\ Of(Ends(t), r, j) = EndFrom(Ends(t), t, r, j)
                /\ Of(Ends(t), r, j) \in Found(t, j)
<1> DEFINE T == {n \in Nat : \E f : Staged(f, t, n)}
<1> DEFINE top == 2 * Len(t) + 2
<1>1. 0 \in T
  <2>1. \A r \in Sorts, j \in 1 .. Len(t) + 1 : ~(Rank(t, r, j) < 0)
    BY Ranks
  <2>2. Staged(<< >>, t, 0)
    BY <2>1 DEF Staged
  <2>3. QED BY <2>2
<1>2. ASSUME NEW n \in T PROVE n + 1 \in T
  BY NextStage
<1>3. T = Nat
  <2>1. T \in SUBSET Nat
    OBVIOUS
  <2> HIDE DEF T
  <2>2. QED BY <1>1, <1>2, <2>1, Induct
<1>4. top \in Nat
  OBVIOUS
<1>5. PICK f : Staged(f, t, top)
  BY <1>3, <1>4
<1> DEFINE g == Again(f, t)
<1>6. \A r \in Sorts, j \in 1 .. Len(t) + 1 : Rank(t, r, j) < top
  BY Ranks
<1>7. \A r \in Sorts, j \in 1 .. Len(t) + 1 : Agree(f, g, t, r, j)
  BY <1>5, <1>6, AgainOf DEF Staged, Agree
<1>8. \A p \in Places(t) : EndFrom(f, t, p[1], p[2]) = EndFrom(g, t, p[1], p[2])
  <2> HIDE DEF g
  <2>1. TAKE p \in Places(t)
  <2>2. p[1] \in Sorts /\ p[2] \in 1 .. Len(t) + 1
    BY DEF Places
  <2>3. QED BY <1>7, <2>2, EndFromLocal
<1>9. IsEnds(g, t)
  <2>1. g = [p \in Places(t) |-> EndFrom(f, t, p[1], p[2])]
    BY DEF Again
  <2> HIDE DEF g
  <2>2. QED BY <1>8, <2>1 DEF IsEnds
<1>10. Ends(t) = CHOOSE h : IsEnds(h, t)
  BY DEF Ends, IsEnds
<1>11. IsEnds(Ends(t), t)
  <2> HIDE DEF g
  <2>1. QED BY <1>9, <1>10
<1> DEFINE h == Ends(t)
<1>12. \A r \in Sorts, j \in 1 .. Len(t) + 1 : Of(h, r, j) = EndFrom(h, t, r, j)
  <2>1. h = Again(h, t)
    BY <1>11 DEF IsEnds, Again
  <2> HIDE DEF h
  <2>2. QED BY <2>1, AgainOf
<1>13. \A n \in Nat : Staged(h, t, n)
  <2> DEFINE U == {n \in Nat : Staged(h, t, n)}
  <2>1. 0 \in U
    <3>1. \A r \in Sorts, j \in 1 .. Len(t) + 1 : ~(Rank(t, r, j) < 0)
      BY Ranks
    <3>2. QED BY <3>1 DEF Staged
  <2>2. ASSUME NEW n \in U PROVE n + 1 \in U
    <3>1. h = Again(h, t)
      BY <1>11 DEF IsEnds, Again
    <3> HIDE DEF h
    <3>2. Staged(Again(h, t), t, n + 1)
      BY NextStage
    <3>3. QED BY <3>1, <3>2
  <2>3. U = Nat
    <3>1. U \in SUBSET Nat
      OBVIOUS
    <3> HIDE DEF U
    <3>2. QED BY <2>1, <2>2, <3>1, Induct
  <2>4. QED BY <2>3
<1>14. Staged(h, t, top)
  BY <1>4, <1>13
<1> HIDE DEF h
<1>15. \A r \in Sorts, j \in 1 .. Len(t) + 1 : Of(h, r, j) \in Found(t, j)
  BY <1>6, <1>14 DEF Staged
<1>16. QED BY <1>11, <1>12, <1>15 DEF h

-----------------------------------------------------------------------------
(* What the parser does from a place, one token on.                          *)

Marks == {"[", "{"}
CommaToken == ","
ColonToken == ":"
ClosingOf(mark) == IF mark = "[" THEN "]" ELSE "}"

SortOf(mark, comma) ==
    IF mark = "[" THEN (IF comma THEN "moreElements" ELSE "elements")
    ELSE (IF comma THEN "moreMembers" ELSE "members")

\* The rest of an array or an object.
Rest(t, mark, i, comma) == Of(Ends(t), SortOf(mark, comma), i)

\* What follows an element or a member that ends at e.
More(t, mark, e) == IF e = 0 THEN 0 ELSE Rest(t, mark, e, TRUE)

\* The sorts of the places at which Rest reads.
LEMMA SortNames ==
  /\ "value" \in Sorts
  /\ \A mark \in Marks, comma \in BOOLEAN : SortOf(mark, comma) \in Sorts
BY DEF Sorts, Marks, SortOf

\* A value is read by its first token.
LEMMA EndIs ==
  ASSUME SyntaxAssumption, NEW t \in Seq(Tokens), NEW i \in 1 .. Len(t) + 1
  PROVE  /\ End(t, i) = ValueEnd(Ends(t), t, i)
         /\ End(t, i) = Of(Ends(t), "value", i)
         /\ End(t, i) \in Found(t, i)
<1>1. Of(Ends(t), "value", i) = EndFrom(Ends(t), t, "value", i)
  BY EndsExist, SortNames
<1>2. EndFrom(Ends(t), t, "value", i) = ValueEnd(Ends(t), t, i)
  BY DEF EndFrom
<1>3. Of(Ends(t), "value", i) \in Found(t, i)
  BY EndsExist, SortNames
<1>4. End(t, i) = Of(Ends(t), "value", i)
  BY DEF End, Of
<1>5. QED BY <1>1, <1>2, <1>3, <1>4

\* The rest of an array and of an object are read by their loops.
LEMMA RestIs ==
  ASSUME SyntaxAssumption, NEW t \in Seq(Tokens), NEW i \in 1 .. Len(t) + 1, NEW comma \in BOOLEAN
  PROVE  /\ Rest(t, "[", i, comma) = ArrayEnd(Ends(t), t, i, comma)
         /\ Rest(t, "{", i, comma) = ObjectEnd(Ends(t), t, i, comma)
<1>1. /\ SortOf("[", comma) \in Sorts /\ SortOf("{", comma) \in Sorts
  BY SortNames DEF Marks
<1>2. /\ Rest(t, "[", i, comma) = EndFrom(Ends(t), t, SortOf("[", comma), i)
      /\ Rest(t, "{", i, comma) = EndFrom(Ends(t), t, SortOf("{", comma), i)
  BY <1>1, EndsExist DEF Rest
<1>3. CASE comma
  BY <1>2, <1>3 DEF SortOf, EndFrom
<1>4. CASE ~comma
  BY <1>2, <1>4 DEF SortOf, EndFrom
<1>5. QED BY <1>3, <1>4

\* An opening bracket begins a list.
LEMMA Opened ==
  ASSUME SyntaxAssumption, NEW t \in Seq(Tokens), NEW i \in 1 .. Len(t), t[i] \in Marks
  PROVE  End(t, i) = Rest(t, t[i], i + 1, FALSE)
<1>1. i \in 1 .. Len(t) + 1 /\ Token(t, i) = t[i]
  BY DEF Token
<1>2. End(t, i) = ValueEnd(Ends(t), t, i)
  BY <1>1, EndIs
<1>3. t[i] \notin Scalars
  BY DEF SyntaxAssumption, Scalars, Structural, Literals, Marks
<1>4. CASE t[i] = "["
  BY <1>1, <1>2, <1>3, <1>4, ValueEndOf DEF Rest, SortOf
<1>5. CASE t[i] = "{"
  BY <1>1, <1>2, <1>3, <1>5, ValueEndOf DEF Rest, SortOf
<1>6. QED BY <1>4, <1>5 DEF Marks

\* A closing one ends it.
LEMMA Closed ==
  ASSUME SyntaxAssumption, NEW t \in Seq(Tokens), NEW i \in 1 .. Len(t), NEW mark \in Marks,
         NEW comma \in BOOLEAN, t[i] = ClosingOf(mark)
  PROVE  Rest(t, mark, i, comma) = i + 1
<1>1. i \in 1 .. Len(t) + 1 /\ Token(t, i) = t[i]
  BY DEF Token
<1>2. CASE mark = "["
  <2>1. Rest(t, mark, i, comma) = ArrayEnd(Ends(t), t, i, comma)
    BY <1>1, <1>2, RestIs
  <2>2. QED BY <1>1, <1>2, <2>1 DEF ArrayEnd, ClosingOf
<1>3. CASE mark = "{"
  <2>1. Rest(t, mark, i, comma) = ObjectEnd(Ends(t), t, i, comma)
    BY <1>1, <1>3, RestIs
  <2>2. QED BY <1>1, <1>3, <2>1 DEF ObjectEnd, ClosingOf
<1>4. QED BY <1>2, <1>3 DEF Marks

\* An element is read, behind a comma if it is not the first.
LEMMA ElementRead ==
  ASSUME SyntaxAssumption, NEW t \in Seq(Tokens), NEW i \in 1 .. Len(t), NEW comma \in BOOLEAN,
         t[i] # "]", comma => t[i] = CommaToken
  PROVE  Rest(t, "[", i, comma) = More(t, "[", End(t, IF comma THEN i + 1 ELSE i))
<1>1. i \in 1 .. Len(t) + 1 /\ i + 1 \in 1 .. Len(t) + 1 /\ Token(t, i) = t[i]
  BY TokenAt
<1> DEFINE k == IF comma THEN i + 1 ELSE i
<1>2. k \in 1 .. Len(t) + 1
  BY <1>1
<1> DEFINE e == Of(Ends(t), "value", k)
<1>3. Rest(t, "[", i, comma) = (IF e = 0 THEN 0 ELSE Of(Ends(t), "moreElements", e))
  <2>1. Rest(t, "[", i, comma) = ArrayEnd(Ends(t), t, i, comma)
    BY <1>1, RestIs
  <2>2. Token(t, i) # "]" /\ ~(comma /\ Token(t, i) # ",")
    BY <1>1 DEF CommaToken
  <2> HIDE DEF e, k
  <2>3. ArrayEnd(Ends(t), t, i, comma) = (IF e = 0 THEN 0 ELSE Of(Ends(t), "moreElements", e))
    <3> USE DEF e, k
    <3>1. QED BY <2>2, ArrayEndOf
  <2>4. QED BY <2>1, <2>3
<1> HIDE DEF k
<1>4. End(t, k) = e
  BY <1>2, EndIs
<1>5. More(t, "[", e) = (IF e = 0 THEN 0 ELSE Of(Ends(t), "moreElements", e))
  BY DEF More, Rest, SortOf
<1> HIDE DEF e
<1>6. QED BY <1>3, <1>4, <1>5 DEF k

\* So is a member, with its name and colon.
LEMMA MemberRead ==
  ASSUME SyntaxAssumption, NEW t \in Seq(Tokens), NEW i \in 1 .. Len(t), NEW comma \in BOOLEAN,
         NEW k \in 1 .. Len(t), comma => k = i + 1, ~comma => k = i, k + 1 \in 1 .. Len(t),
         comma => t[i] = CommaToken, t[k] \in Strings, t[k + 1] = ColonToken
  PROVE  Rest(t, "{", i, comma) = More(t, "{", End(t, k + 2))
<1>1. i \in 1 .. Len(t) + 1 /\ Token(t, i) = t[i] /\ Token(t, k) = t[k] /\ Token(t, k + 1) = t[k + 1]
  BY TokenAt
<1>2. k + 2 \in 1 .. Len(t) + 1
  BY TwoOn
<1>3. t[i] # "}"
  BY DEF SyntaxAssumption, Structural, CommaToken
<1> DEFINE e == Of(Ends(t), "value", k + 2)
<1>4. Rest(t, "{", i, comma) = ObjectEnd(Ends(t), t, i, comma)
  BY <1>1, RestIs
<1>5. ObjectEnd(Ends(t), t, i, comma) = (IF e = 0 THEN 0 ELSE Of(Ends(t), "moreMembers", e))
  BY <1>1, <1>3, ObjectEndOf DEF CommaToken, ColonToken
<1>6. End(t, k + 2) = e
  BY <1>2, EndIs
<1>7. More(t, "{", e) = (IF e = 0 THEN 0 ELSE Of(Ends(t), "moreMembers", e))
  BY DEF More, Rest, SortOf
<1> HIDE DEF e
<1>8. QED BY <1>4, <1>5, <1>6, <1>7

-----------------------------------------------------------------------------
(* A value is read the same wherever it stands.                              *)

Stands(v, t, n) == n + Len(v) <= Len(t) /\ \A j \in 1 .. Len(v) : t[n + j] = v[j]

Moves(v, t, n, sort, j) ==
    Of(Ends(v), sort, j) # 0 => Of(Ends(t), sort, n + j) = n + Of(Ends(v), sort, j)

\* A token of a text is where the text stands.
LEMMA SameToken ==
  ASSUME SyntaxAssumption, NEW v \in Seq(Tokens), NEW t \in Seq(Tokens), NEW n \in Nat,
         Stands(v, t, n), NEW j \in Nat \ {0}, Token(v, j) # "none"
  PROVE  /\ Token(t, n + j) = Token(v, j)
         /\ j \in 1 .. Len(v) /\ n + j \in 1 .. Len(t)
<1>1. j \in 1 .. Len(v) /\ Token(v, j) = v[j]
  BY TokenInside
<1>2. n + j \in 1 .. Len(t) /\ t[n + j] = v[j]
  BY <1>1 DEF Stands
<1>3. QED BY <1>1, <1>2 DEF Token

\* What ends an array in a text ends it where the text stands.
LEMMA ArrayMoves ==
  ASSUME SyntaxAssumption, NEW v \in Seq(Tokens), NEW t \in Seq(Tokens), NEW n \in Nat,
         Stands(v, t, n), NEW i \in 1 .. Len(v) + 1, NEW comma \in BOOLEAN,
         \A j \in 1 .. Len(v) + 1 : j >= i => Moves(v, t, n, "value", j),
         \A j \in 1 .. Len(v) + 1 : j > i => Moves(v, t, n, "moreElements", j),
         ArrayEnd(Ends(v), v, i, comma) # 0
  PROVE  ArrayEnd(Ends(t), t, n + i, comma) = n + ArrayEnd(Ends(v), v, i, comma)
<1>0. Len(v) \in Nat /\ i \in Nat \ {0}
  OBVIOUS
<1>1. CASE Token(v, i) = "]"
  <2>1. Token(t, n + i) = "]"
    BY <1>0, <1>1, SameToken
  <2>2. QED BY <1>0, <1>1, <2>1 DEF ArrayEnd
<1>2. CASE Token(v, i) # "]"
  <2> DEFINE k == IF comma THEN i + 1 ELSE i
  <2> DEFINE e == Of(Ends(v), "value", k)
  <2>1. ~(comma /\ Token(v, i) # ",")
    BY <1>2, ArrayEndOf
  <2>2. /\ e # 0 /\ Of(Ends(v), "moreElements", e) # 0
        /\ ArrayEnd(Ends(v), v, i, comma) = Of(Ends(v), "moreElements", e)
    BY <1>2, <2>1, ArrayEndOf
  <2>3. k \in 1 .. Len(v) + 1 /\ k >= i
    <3>1. CASE comma
      <4>1. i \in 1 .. Len(v)
        BY <1>0, <2>1, <3>1, TokenInside
      <4>2. QED BY <1>0, <3>1, <4>1
    <3>2. CASE ~comma
      BY <1>0, <3>2
    <3>3. QED BY <3>1, <3>2
  <2> HIDE DEF e, k
  <2>4. Moves(v, t, n, "value", k)
    BY <2>3
  <2>5. Of(Ends(t), "value", n + k) = n + e
    BY <2>2, <2>4 DEF Moves, e
  <2>6. e \in 1 .. Len(v) + 1 /\ e > i
    <3>1. e \in Found(v, k)
      BY <2>3, EndsExist, SortNames DEF e
    <3>2. k \in Nat /\ i \in Nat
      BY <1>0, <2>3
    <3>3. QED BY <2>2, <2>3, <3>1, <3>2, FoundFurther
  <2>7. Moves(v, t, n, "moreElements", e)
    BY <2>6
  <2>8. Of(Ends(t), "moreElements", n + e) = n + Of(Ends(v), "moreElements", e)
    BY <2>2, <2>7 DEF Moves
  <2>9. n + e # 0
    BY <2>6
  <2>10. Token(t, n + i) # "]" /\ ~(comma /\ Token(t, n + i) # ",")
    <3>1. Token(v, i) # "none"
      <4>1. CASE comma
        BY <2>1, <4>1
      <4>2. CASE ~comma
        <5>1. k = i
          BY <4>2 DEF k
        <5>2. End(v, i) # 0
          BY <2>2, <5>1, EndIs DEF e
        <5>3. QED BY <5>2, EndIs, NotNone, ValueEndOf
      <4>3. QED BY <4>1, <4>2
    <3>2. Token(t, n + i) = Token(v, i)
      BY <1>0, <3>1, SameToken
    <3>3. QED BY <1>2, <2>1, <3>2
  <2>11. n + k = IF comma THEN n + i + 1 ELSE n + i
    BY <1>0 DEF k
  <2>12. ArrayEnd(Ends(t), t, n + i, comma) = Of(Ends(t), "moreElements", n + e)
    <3> DEFINE d == Of(Ends(t), "value", IF comma THEN n + i + 1 ELSE n + i)
    <3>1. ArrayEnd(Ends(t), t, n + i, comma) = (IF d = 0 THEN 0 ELSE Of(Ends(t), "moreElements", d))
      BY <2>10, ArrayEndOf
    <3>2. d = n + e
      BY <2>5, <2>11
    <3> HIDE DEF d
    <3>3. QED BY <2>9, <3>1, <3>2
  <2>13. QED BY <2>2, <2>8, <2>12
<1>3. QED BY <1>1, <1>2

\* What ends an object in a text ends it where the text stands.
LEMMA ObjectMoves ==
  ASSUME SyntaxAssumption, NEW v \in Seq(Tokens), NEW t \in Seq(Tokens), NEW n \in Nat,
         Stands(v, t, n), NEW i \in 1 .. Len(v) + 1, NEW comma \in BOOLEAN,
         \A j \in 1 .. Len(v) + 1 : j > i => Moves(v, t, n, "value", j),
         \A j \in 1 .. Len(v) + 1 : j > i => Moves(v, t, n, "moreMembers", j),
         ObjectEnd(Ends(v), v, i, comma) # 0
  PROVE  ObjectEnd(Ends(t), t, n + i, comma) = n + ObjectEnd(Ends(v), v, i, comma)
<1>0. Len(v) \in Nat /\ i \in Nat \ {0}
  OBVIOUS
<1> DEFINE Same(j) == Token(v, j) # "none" => Token(t, n + j) = Token(v, j)
<1>a. \A j \in Nat \ {0} : Same(j)
  BY SameToken
<1>1. CASE Token(v, i) = "}"
  <2>1. Token(t, n + i) = "}"
    <3>1. Same(i)
      BY <1>0, <1>a
    <3>2. QED BY <1>1, <3>1
  <2>2. /\ ObjectEnd(Ends(t), t, n + i, comma) = n + i + 1
        /\ ObjectEnd(Ends(v), v, i, comma) = i + 1
    BY <1>1, <2>1, ObjectEndOf
  <2>3. QED BY <1>0, <2>2
<1>2. CASE Token(v, i) # "}"
  <2> DEFINE k == IF comma THEN i + 1 ELSE i
  <2> DEFINE e == Of(Ends(v), "value", k + 2)
  <2>1. ~(comma /\ Token(v, i) # ",") /\ Token(v, k) \in Strings /\ Token(v, k + 1) = ":"
    BY <1>2, ObjectEndOf
  <2>2. /\ e # 0 /\ Of(Ends(v), "moreMembers", e) # 0
        /\ ObjectEnd(Ends(v), v, i, comma) = Of(Ends(v), "moreMembers", e)
    BY <1>2, <2>1, ObjectEndOf
  <2>3. k \in Nat \ {0} /\ k + 1 \in Nat \ {0} /\ k >= i
    BY <1>0
  <2>4. k = IF comma THEN i + 1 ELSE i
    OBVIOUS
  <2> HIDE DEF e, k
  <2>5. Token(v, k) # "none" /\ Token(v, i) # "none"
    <3>1. Token(v, k) # "none"
      BY <2>1 DEF SyntaxAssumption
    <3>2. QED BY <2>1, <2>4, <3>1
  <2>6. /\ k + 2 \in 1 .. Len(v) + 1 /\ k + 2 > i
        /\ Token(t, n + (k + 1)) = ":" /\ Token(t, n + k) = Token(v, k)
        /\ Token(t, n + i) = Token(v, i)
    <3>1. k + 1 \in 1 .. Len(v)
      BY <2>1, <2>3, TokenInside
    <3>2. Token(t, n + (k + 1)) = ":"
      <4>1. Same(k + 1)
        BY <2>3, <1>a
      <4>2. QED BY <2>1, <4>1
    <3>3. Token(t, n + k) = Token(v, k) /\ Token(t, n + i) = Token(v, i)
      <4>1. Same(k) /\ Same(i)
        BY <1>0, <2>3, <1>a
      <4>2. QED BY <2>5, <4>1
    <3>4. QED BY <1>0, <2>3, <3>1, <3>2, <3>3
  <2> DEFINE j == k + 2
  <2>7. j \in 1 .. Len(v) + 1 /\ j > i /\ e = Of(Ends(v), "value", j)
    BY <2>6 DEF e
  <2> HIDE DEF j
  <2>8. Of(Ends(t), "value", n + j) = n + e
    <3>1. Moves(v, t, n, "value", j)
      BY <2>7
    <3>2. QED BY <2>2, <2>7, <3>1 DEF Moves
  <2>9. e \in 1 .. Len(v) + 1 /\ e > i
    <3>1. e \in Found(v, j)
      BY <2>7, EndsExist, SortNames
    <3>2. j \in Nat /\ i \in Nat /\ j >= i
      BY <1>0, <2>7
    <3>3. QED BY <2>2, <3>1, <3>2, FoundFurther
  <2>10. Moves(v, t, n, "moreMembers", e)
    BY <2>9
  <2>11. Of(Ends(t), "moreMembers", n + e) = n + Of(Ends(v), "moreMembers", e)
    BY <2>2, <2>10 DEF Moves
  <2>12. n + e # 0
    BY <2>9
  <2> DEFINE m == IF comma THEN n + i + 1 ELSE n + i
  <2>13. m = n + k /\ m + 1 = n + (k + 1) /\ m + 2 = n + j
    BY <1>0, <2>3, <2>4 DEF j
  <2>14. /\ Token(t, n + i) # "}" /\ ~(comma /\ Token(t, n + i) # ",")
         /\ Token(t, m) \in Strings /\ Token(t, m + 1) = ":"
    <3> HIDE DEF m
    <3>1. QED BY <1>2, <2>1, <2>6, <2>13
  <2>15. ObjectEnd(Ends(t), t, n + i, comma) = Of(Ends(t), "moreMembers", n + e)
    <3> DEFINE d == Of(Ends(t), "value", m + 2)
    <3>1. ObjectEnd(Ends(t), t, n + i, comma) = (IF d = 0 THEN 0 ELSE Of(Ends(t), "moreMembers", d))
      BY <2>14, ObjectEndOf
    <3>2. d = n + e
      <4> HIDE DEF m
      <4>1. QED BY <2>8, <2>13
    <3> HIDE DEF d
    <3>3. QED BY <2>12, <3>1, <3>2
  <2>16. QED BY <2>2, <2>11, <2>15
<1>3. QED BY <1>1, <1>2

\* What is found in a value that stands in a text is found there.
LEMMA ValueMoves ==
  ASSUME SyntaxAssumption, NEW v \in Seq(Tokens), NEW t \in Seq(Tokens), NEW n \in Nat,
         Stands(v, t, n), NEW i \in 1 .. Len(v) + 1,
         \A r \in Sorts, j \in 1 .. Len(v) + 1 : j > i => Moves(v, t, n, r, j),
         ValueEnd(Ends(v), v, i) # 0
  PROVE  ValueEnd(Ends(t), t, n + i) = n + ValueEnd(Ends(v), v, i)
<1>0. Len(v) \in Nat /\ i \in Nat \ {0}
  OBVIOUS
<1>1. Token(v, i) # "none"
  BY NotNone, ValueEndOf
<1>2. Token(t, n + i) = Token(v, i) /\ i \in 1 .. Len(v)
  BY <1>0, <1>1, SameToken
<1>3. \A r \in Sorts : Moves(v, t, n, r, i + 1)
  BY <1>0, <1>2
<1>4. n + (i + 1) = n + i + 1
  BY <1>0
<1>5. "[" \notin Scalars /\ "{" \notin Scalars
  BY DEF SyntaxAssumption, Scalars, Structural, Literals
<1>6. "elements" \in Sorts /\ "members" \in Sorts
  BY DEF Sorts
<1>7. CASE Token(v, i) = "["
  <2>1. ValueEnd(Ends(v), v, i) = Of(Ends(v), "elements", i + 1)
    BY <1>5, <1>7, ValueEndOf
  <2>2. ValueEnd(Ends(t), t, n + i) = Of(Ends(t), "elements", n + (i + 1))
    BY <1>2, <1>4, <1>5, <1>7, ValueEndOf
  <2>3. Moves(v, t, n, "elements", i + 1)
    BY <1>3, <1>6
  <2>4. QED BY <2>1, <2>2, <2>3 DEF Moves
<1>8. CASE Token(v, i) = "{"
  <2>1. ValueEnd(Ends(v), v, i) = Of(Ends(v), "members", i + 1)
    BY <1>5, <1>8, ValueEndOf
  <2>2. ValueEnd(Ends(t), t, n + i) = Of(Ends(t), "members", n + (i + 1))
    BY <1>2, <1>4, <1>5, <1>8, ValueEndOf
  <2>3. Moves(v, t, n, "members", i + 1)
    BY <1>3, <1>6
  <2>4. QED BY <2>1, <2>2, <2>3 DEF Moves
<1>9. CASE Token(v, i) # "[" /\ Token(v, i) # "{"
  <2>1. Token(v, i) \in Scalars
    BY <1>9, ValueEndOf
  <2>2. ValueEnd(Ends(v), v, i) = i + 1 /\ ValueEnd(Ends(t), t, n + i) = n + i + 1
    BY <1>2, <1>5, <2>1, ValueEndOf
  <2>3. QED BY <1>4, <2>2
<1>10. QED BY <1>7, <1>8, <1>9

\* All that is found in a text is found where the text stands.
LEMMA AllMove ==
  ASSUME SyntaxAssumption, NEW v \in Seq(Tokens), NEW t \in Seq(Tokens), NEW n \in Nat,
         Stands(v, t, n)
  PROVE  \A r \in Sorts, j \in 1 .. Len(v) + 1 : Moves(v, t, n, r, j)
<1> DEFINE Staying(m) == \A r \in Sorts, j \in 1 .. Len(v) + 1 : Rank(v, r, j) < m => Moves(v, t, n, r, j)
<1> DEFINE T == {m \in Nat : Staying(m)}
<1>1. 0 \in T
  <2>1. \A r \in Sorts, j \in 1 .. Len(v) + 1 : ~(Rank(v, r, j) < 0)
    BY Ranks
  <2>2. QED BY <2>1
<1>2. ASSUME NEW m \in T PROVE m + 1 \in T
  <2>1. SUFFICES ASSUME NEW r \in Sorts, NEW i \in 1 .. Len(v) + 1, Rank(v, r, i) < m + 1,
                        Of(Ends(v), r, i) # 0
                 PROVE  Of(Ends(t), r, n + i) = n + Of(Ends(v), r, i)
    BY DEF Moves
  <2>2. /\ \A q \in Sorts, j \in 1 .. Len(v) + 1 : j > i => Moves(v, t, n, q, j)
        /\ r # "value" => Moves(v, t, n, "value", i)
    <3>1. \A q \in Sorts, j \in 1 .. Len(v) + 1 :
              Rank(v, q, j) < Rank(v, r, i) => Moves(v, t, n, q, j)
      <4>1. \A q \in Sorts, j \in 1 .. Len(v) + 1 : Rank(v, q, j) \in Nat
        BY Ranks
      <4>2. QED BY <2>1, <4>1
    <3> HIDE DEF T, Staying
    <3>2. \A q \in Sorts, j \in 1 .. Len(v) + 1 : j > i => Rank(v, q, j) < Rank(v, r, i)
      BY Ranks
    <3>3. r # "value" => Rank(v, "value", i) < Rank(v, r, i)
      BY Ranks
    <3>4. QED BY <3>1, <3>2, <3>3, SortNames
  <2> HIDE DEF T, Staying
  <2>3. n + i \in 1 .. Len(t) + 1
    <3>1. i \in Nat /\ i >= 1 /\ i <= Len(v) + 1 /\ Len(v) \in Nat /\ Len(t) \in Nat /\ n + Len(v) <= Len(t)
      BY DEF Stands
    <3>2. QED BY <3>1
  <2>4. /\ Of(Ends(v), r, i) = EndFrom(Ends(v), v, r, i)
        /\ Of(Ends(t), r, n + i) = EndFrom(Ends(t), t, r, n + i)
    BY <2>3, EndsExist
  <2>5. CASE r = "value"
    <3>1. /\ EndFrom(Ends(v), v, r, i) = ValueEnd(Ends(v), v, i)
          /\ EndFrom(Ends(t), t, r, n + i) = ValueEnd(Ends(t), t, n + i)
      BY <2>5 DEF EndFrom
    <3>2. QED BY <2>1, <2>2, <2>4, <3>1, ValueMoves
  <2>6. ASSUME NEW comma \in BOOLEAN, r = (IF comma THEN "moreElements" ELSE "elements")
        PROVE  Of(Ends(t), r, n + i) = n + Of(Ends(v), r, i)
    <3>1. /\ EndFrom(Ends(v), v, r, i) = ArrayEnd(Ends(v), v, i, comma)
          /\ EndFrom(Ends(t), t, r, n + i) = ArrayEnd(Ends(t), t, n + i, comma)
      <4>1. CASE comma
        BY <2>6, <4>1 DEF EndFrom
      <4>2. CASE ~comma
        BY <2>6, <4>2 DEF EndFrom
      <4>3. QED BY <4>1, <4>2
    <3>2. r # "value" /\ "moreElements" \in Sorts
      BY <2>6 DEF Sorts
    <3>3. \A j \in 1 .. Len(v) + 1 : j >= i => Moves(v, t, n, "value", j)
      <4>1. TAKE j \in 1 .. Len(v) + 1
      <4>2. HAVE j >= i
      <4>3. CASE j = i
        BY <2>2, <3>2, <4>3
      <4>4. CASE j > i
        BY <2>2, <4>4, SortNames
      <4>5. QED BY <4>2, <4>3, <4>4
    <3>4. \A j \in 1 .. Len(v) + 1 : j > i => Moves(v, t, n, "moreElements", j)
      BY <2>2, <3>2
    <3>5. ArrayEnd(Ends(v), v, i, comma) # 0
      BY <2>1, <2>4, <3>1
    <3>6. QED BY <2>4, <3>1, <3>3, <3>4, <3>5, ArrayMoves
  <2>7. ASSUME NEW comma \in BOOLEAN, r = (IF comma THEN "moreMembers" ELSE "members")
        PROVE  Of(Ends(t), r, n + i) = n + Of(Ends(v), r, i)
    <3>1. /\ EndFrom(Ends(v), v, r, i) = ObjectEnd(Ends(v), v, i, comma)
          /\ EndFrom(Ends(t), t, r, n + i) = ObjectEnd(Ends(t), t, n + i, comma)
      <4>1. CASE comma
        BY <2>7, <4>1 DEF EndFrom
      <4>2. CASE ~comma
        BY <2>7, <4>2 DEF EndFrom
      <4>3. QED BY <4>1, <4>2
    <3>2. "value" \in Sorts /\ "moreMembers" \in Sorts
      BY DEF Sorts
    <3>3. \A j \in 1 .. Len(v) + 1 : j > i => Moves(v, t, n, "value", j)
      BY <2>2, <3>2
    <3>4. \A j \in 1 .. Len(v) + 1 : j > i => Moves(v, t, n, "moreMembers", j)
      BY <2>2, <3>2
    <3>5. ObjectEnd(Ends(v), v, i, comma) # 0
      BY <2>1, <2>4, <3>1
    <3>6. QED BY <2>4, <3>1, <3>3, <3>4, <3>5, ObjectMoves
  <2>8. QED
    <3>1. r = "elements" \/ r = "moreElements" => Of(Ends(t), r, n + i) = n + Of(Ends(v), r, i)
      <4>1. CASE r = "elements"
        BY <2>6, <4>1
      <4>2. CASE r = "moreElements"
        BY <2>6, <4>2
      <4>3. QED BY <4>1, <4>2
    <3>2. r = "members" \/ r = "moreMembers" => Of(Ends(t), r, n + i) = n + Of(Ends(v), r, i)
      <4>1. CASE r = "members"
        BY <2>7, <4>1
      <4>2. CASE r = "moreMembers"
        BY <2>7, <4>2
      <4>3. QED BY <4>1, <4>2
    <3>3. QED BY <2>5, <3>1, <3>2 DEF Sorts
<1>3. T = Nat
  <2>1. T \in SUBSET Nat
    OBVIOUS
  <2> HIDE DEF T
  <2>2. QED BY <1>1, <1>2, <2>1, Induct
<1>4. 2 * Len(v) + 2 \in T
  <2> HIDE DEF T
  <2>1. 2 * Len(v) + 2 \in Nat
    OBVIOUS
  <2>2. QED BY <1>3, <2>1
<1>5. \A r \in Sorts, j \in 1 .. Len(v) + 1 : Rank(v, r, j) < 2 * Len(v) + 2
  BY Ranks
<1>6. QED BY <1>4, <1>5

\* A JSON text ends behind its last token, which is no opening bracket or comma.
LEMMA ValidEnds ==
  ASSUME SyntaxAssumption, NEW v \in Seq(Tokens), IsValid(v)
  PROVE  End(v, 1) = Len(v) + 1 /\ v # << >> /\ Last(v) \in Closing
<1>0. 1 \in 1 .. Len(v) + 1
  OBVIOUS
<1>1. End(v, 1) # 0 /\ Token(v, End(v, 1)) = "none"
  BY DEF IsValid
<1> DEFINE e == End(v, 1)
<1>2. e \in Found(v, 1)
  BY <1>0, EndIs
<1> HIDE DEF e
<1>3. e \in 2 .. Len(v) + 1 /\ v[e - 1] \in Closing
  BY <1>1, <1>2 DEF Found, e
<1>4. ~(e \in 1 .. Len(v))
  <2>1. SUFFICES ASSUME e \in 1 .. Len(v) PROVE FALSE
    OBVIOUS
  <2>2. Token(v, e) = v[e]
    BY <2>1, TokenAt
  <2>3. v[e] \in Tokens
    BY <2>1
  <2>4. QED BY <1>1, <2>2, <2>3, NotNone DEF e
<1>5. e = Len(v) + 1
  BY <1>3, <1>4
<1>6. QED BY <1>3, <1>5 DEF e, Last

\* So it ends wherever it stands.
THEOREM ValidStands ==
  ASSUME SyntaxAssumption, NEW v \in Seq(Tokens), NEW t \in Seq(Tokens), NEW n \in Nat,
         Stands(v, t, n), IsValid(v)
  PROVE  End(t, n + 1) = n + Len(v) + 1
<1>1. End(v, 1) = Len(v) + 1 /\ Len(v) \in Nat
  BY ValidEnds
<1>2. 1 \in 1 .. Len(v) + 1
  BY <1>1
<1>3. n + 1 \in 1 .. Len(t) + 1
  BY <1>1 DEF Stands
<1>4. /\ End(v, 1) = Of(Ends(v), "value", 1)
      /\ End(t, n + 1) = Of(Ends(t), "value", n + 1)
  BY <1>2, <1>3, EndIs
<1>5. Moves(v, t, n, "value", 1)
  BY <1>2, AllMove, SortNames
<1>6. Of(Ends(v), "value", 1) = Len(v) + 1 /\ Len(v) + 1 # 0
  BY <1>1, <1>4
<1>7. Of(Ends(t), "value", n + 1) = n + (Len(v) + 1)
  BY <1>5, <1>6 DEF Moves
<1>8. QED BY <1>1, <1>4, <1>7

-----------------------------------------------------------------------------
(* Texts that are still being written.                                       *)

\* Whether a comma stands in front of what is written next, and that comma.
Comma(s) == ~(s = << >> \/ Last(s) \in Marks)
Sep(s) == IF Comma(s) THEN <<CommaToken>> ELSE << >>

\* What the generator writes in front of a value: a comma, and a member's name.
Leads(s, mark, p) ==
    \/ mark = "[" /\ p = Sep(s)
    \/ mark = "{" /\ \E name \in Strings : p = Sep(s) \o <<name, ColonToken>>

\* Punctuation and names are tokens, and which of them close a value.
LEMMA TokenKinds ==
  ASSUME SyntaxAssumption
  PROVE  /\ CommaToken \in Tokens /\ ColonToken \in Tokens /\ Marks \subseteq Tokens
         /\ \A mark \in Marks : ClosingOf(mark) \in Tokens /\ ClosingOf(mark) \in Closing
         /\ Closing \cap (Marks \cup {CommaToken}) = {} /\ Closing \subseteq Tokens
         /\ CommaToken \notin Marks /\ CommaToken # "]"
         /\ \A name \in Strings : name \in Tokens
BY DEF SyntaxAssumption, Tokens, Structural, Scalars, Literals, Closing, Marks, ClosingOf,
   CommaToken, ColonToken

\* The comma in front of what is next, if there is one.
LEMMA SepIs ==
  ASSUME SyntaxAssumption, NEW s \in Seq(Tokens)
  PROVE  /\ Sep(s) \in Seq(Tokens) /\ Comma(s) \in BOOLEAN
         /\ Comma(s) => Sep(s) = <<CommaToken>>
         /\ ~Comma(s) => Sep(s) = << >>
<1>1. Comma(s) \in BOOLEAN
  BY DEF Comma
<1>2. <<CommaToken>> \in Seq(Tokens) /\ << >> \in Seq(Tokens)
  BY TokenKinds
<1> HIDE DEF Comma
<1>3. CASE Comma(s)
  BY <1>1, <1>2, <1>3 DEF Sep
<1>4. CASE ~Comma(s)
  BY <1>1, <1>2, <1>4 DEF Sep
<1>5. QED BY <1>1, <1>3, <1>4

\* One token and two.
LEMMA Three == ASSUME NEW x, NEW y, NEW z PROVE <<x>> \o <<y, z>> = <<x, y, z>>
<1> DEFINE S == {x, y, z}
<1> DEFINE s == <<x>>
<1> DEFINE r == <<y, z>>
<1> DEFINE q == <<x, y, z>>
<1>1. s \in Seq(S) /\ r \in Seq(S) /\ q \in Seq(S)
  OBVIOUS
<1>2. /\ Len(s) = 1 /\ Len(r) = 2 /\ Len(q) = 3
      /\ s[1] = x /\ r[1] = y /\ r[2] = z /\ q[1] = x /\ q[2] = y /\ q[3] = z
  OBVIOUS
<1> HIDE DEF s, r, q, S
<1>3. /\ s \o r \in Seq(S) /\ Len(s \o r) = 3
      /\ \A i \in 1 .. 3 : (s \o r)[i] = IF i <= 1 THEN s[i] ELSE r[i - 1]
  <2>1. /\ s \o r \in Seq(S) /\ Len(s \o r) = Len(s) + Len(r)
        /\ \A i \in 1 .. Len(s) + Len(r) : (s \o r)[i] = IF i <= Len(s) THEN s[i] ELSE r[i - Len(s)]
    BY <1>1, ConcatProperties
  <2>2. QED BY <1>2, <2>1
<1>4. (s \o r)[1] = q[1] /\ (s \o r)[2] = q[2] /\ (s \o r)[3] = q[3]
  BY <1>2, <1>3
<1>5. s \o r = q
  BY <1>1, <1>2, <1>3, <1>4, SeqEqual
<1>6. QED BY <1>5 DEF s, r, q

\* One token and one.
LEMMA Two == ASSUME NEW x, NEW y PROVE <<x>> \o <<y>> = <<x, y>>
<1> DEFINE S == {x, y}
<1> DEFINE s == <<x>>
<1> DEFINE r == <<y>>
<1> DEFINE q == <<x, y>>
<1>1. s \in Seq(S) /\ r \in Seq(S) /\ q \in Seq(S)
  OBVIOUS
<1>2. /\ Len(s) = 1 /\ Len(r) = 1 /\ Len(q) = 2
      /\ s[1] = x /\ r[1] = y /\ q[1] = x /\ q[2] = y
  OBVIOUS
<1> HIDE DEF s, r, q, S
<1>3. /\ s \o r \in Seq(S) /\ Len(s \o r) = 2
      /\ \A i \in 1 .. 2 : (s \o r)[i] = IF i <= 1 THEN s[i] ELSE r[i - 1]
  <2>1. /\ s \o r \in Seq(S) /\ Len(s \o r) = Len(s) + Len(r)
        /\ \A i \in 1 .. Len(s) + Len(r) : (s \o r)[i] = IF i <= Len(s) THEN s[i] ELSE r[i - Len(s)]
    BY <1>1, ConcatProperties
  <2>2. QED BY <1>2, <2>1
<1>4. (s \o r)[1] = q[1] /\ (s \o r)[2] = q[2]
  BY <1>2, <1>3
<1>5. s \o r = q
  BY <1>1, <1>2, <1>3, <1>4, SeqEqual
<1>6. QED BY <1>5 DEF s, r, q

\* Where a token of a text that was put together comes from.
LEMMA Joined ==
  ASSUME NEW s \in Seq(Tokens), NEW p \in Seq(Tokens), NEW u \in Seq(Tokens)
  PROVE  /\ s \o (p \o u) \in Seq(Tokens) /\ (s \o p) \o u = s \o (p \o u) /\ s \o p \in Seq(Tokens)
         /\ Len(s) \in Nat /\ Len(p) \in Nat /\ Len(u) \in Nat
         /\ Len(s \o p) = Len(s) + Len(p)
         /\ Len(s \o (p \o u)) = Len(s) + Len(p) + Len(u)
         /\ \A i \in 1 .. Len(s) : (s \o (p \o u))[i] = s[i]
         /\ \A i \in 1 .. Len(p) : (s \o (p \o u))[Len(s) + i] = p[i]
         /\ \A i \in 1 .. Len(u) : (s \o (p \o u))[Len(s) + Len(p) + i] = u[i]
<1> DEFINE q == p \o u
<1>1. /\ q \in Seq(Tokens) /\ Len(q) = Len(p) + Len(u)
      /\ \A i \in 1 .. Len(p) + Len(u) : q[i] = IF i <= Len(p) THEN p[i] ELSE u[i - Len(p)]
  BY ConcatProperties
<1>2. (s \o p) \o u = s \o q /\ Len(s \o p) = Len(s) + Len(p) /\ s \o p \in Seq(Tokens)
  BY ConcatAssociative, ConcatProperties, SMTT(30)
<1> HIDE DEF q
<1>3. /\ s \o q \in Seq(Tokens) /\ Len(s \o q) = Len(s) + Len(q)
      /\ \A i \in 1 .. Len(s) + Len(q) : (s \o q)[i] = IF i <= Len(s) THEN s[i] ELSE q[i - Len(s)]
  <2>1. q \in Seq(Tokens)
    BY <1>1
  <2>2. QED BY <2>1, ConcatProperties
<1> DEFINE t == s \o q
<1> HIDE DEF t
<1>4. Len(s) \in Nat /\ Len(p) \in Nat /\ Len(u) \in Nat
  OBVIOUS
<1>5. \A i \in 1 .. Len(s) : t[i] = s[i]
  BY <1>1, <1>3, <1>4 DEF t
<1>6. \A i \in 1 .. Len(q) : t[Len(s) + i] = q[i]
  <2>1. TAKE i \in 1 .. Len(q)
  <2>2. Len(s) + i \in 1 .. Len(s) + Len(q) /\ ~(Len(s) + i <= Len(s)) /\ Len(s) + i - Len(s) = i
    BY <1>1, <1>4
  <2>3. QED BY <1>3, <2>2, SMTT(30) DEF t
<1>7. \A i \in 1 .. Len(p) : t[Len(s) + i] = p[i]
  BY <1>1, <1>4, <1>6, SMTT(30)
<1>8. \A i \in 1 .. Len(u) : t[Len(s) + Len(p) + i] = u[i]
  <2>1. TAKE i \in 1 .. Len(u)
  <2>2. /\ Len(p) + i \in 1 .. Len(q) /\ ~(Len(p) + i <= Len(p)) /\ Len(p) + i - Len(p) = i
        /\ Len(p) + i \in 1 .. Len(p) + Len(u)
        /\ Len(s) + (Len(p) + i) = Len(s) + Len(p) + i
    BY <1>1, <1>4
  <2>3. q[Len(p) + i] = u[i]
    BY <1>1, <2>2
  <2>4. t[Len(s) + (Len(p) + i)] = q[Len(p) + i]
    BY <1>6, <2>2
  <2>5. QED BY <2>2, <2>3, <2>4
<1>9. QED BY <1>1, <1>2, <1>3, <1>4, <1>5, <1>7, <1>8 DEF q, t

\* Joining is associative; a name for it keeps the provers from taking the
\* joined texts apart.
Associates(a, b, c) == (a \o b) \o c = a \o (b \o c)

\* Joining three texts, over tokens.
LEMMA Associated ==
  ASSUME NEW a \in Seq(Tokens), NEW b \in Seq(Tokens), NEW c \in Seq(Tokens)
  PROVE  Associates(a, b, c)
BY ConcatAssociative DEF Associates

\* Joined texts are texts.
LEMMA Concatenated ==
  ASSUME NEW a \in Seq(Tokens), NEW b \in Seq(Tokens)
  PROVE  a \o b \in Seq(Tokens)
BY ConcatProperties

Regroups(s, p, v, u) == s \o (p \o (v \o u)) = (s \o (p \o v)) \o u

\* Joining four texts.
LEMMA RegroupedLeft ==
  ASSUME NEW s \in Seq(Tokens), NEW p \in Seq(Tokens), NEW v \in Seq(Tokens), NEW u \in Seq(Tokens)
  PROVE  Regroups(s, p, v, u)
<1> DEFINE q == p \o v
<1>1. q \in Seq(Tokens)
  BY Concatenated
<1>2. p \o (v \o u) = q \o u
  <2>1. Associates(p, v, u)
    BY Associated
  <2>2. QED BY <2>1 DEF Associates
<1> HIDE DEF q
<1>3. Associates(s, q, u)
  BY <1>1, Associated
<1>4. s \o (p \o (v \o u)) = (s \o q) \o u
  BY <1>2, <1>3 DEF Associates
<1>5. QED BY <1>4 DEF q, Regroups

\* What leads to a value is read, and then the value, whatever it is.
LEMMA ReadOn ==
  ASSUME SyntaxAssumption, NEW s \in Seq(Tokens), NEW p \in Seq(Tokens), NEW u \in Seq(Tokens),
         NEW mark \in Marks, Leads(s, mark, p), u # << >>, u[1] # "]"
  PROVE  Rest(s \o (p \o u), mark, Len(s) + 1, Comma(s)) =
             More(s \o (p \o u), mark, End(s \o (p \o u), Len(s \o p) + 1))
<1> DEFINE t == s \o (p \o u)
<1> DEFINE i == Len(s) + 1
<1>1. /\ t \in Seq(Tokens) /\ Len(s \o p) = Len(s) + Len(p)
      /\ Len(s) \in Nat /\ Len(p) \in Nat /\ Len(u) \in Nat
      /\ Len(t) = Len(s) + Len(p) + Len(u)
      /\ \A j \in 1 .. Len(p) : t[Len(s) + j] = p[j]
      /\ \A j \in 1 .. Len(u) : t[Len(s) + Len(p) + j] = u[j]
  BY Joined
<1>2. Len(u) >= 1
  BY <1>1, EmptySeq
<1>3. t[Len(s) + Len(p) + 1] = u[1]
  BY <1>1, <1>2
<1> DEFINE c == Comma(s)
<1>4. /\ c \in BOOLEAN
      /\ c => Sep(s) = <<CommaToken>>
      /\ ~c => Sep(s) = << >>
  BY SepIs
<1> HIDE DEF t, c
<1>5. i \in 1 .. Len(t)
  BY <1>1, <1>2
<1>6. CASE mark = "["
  <2>1. p = Sep(s)
    BY <1>6 DEF Leads
  <2>2. t[i] # "]" /\ (c => t[i] = CommaToken) /\ Len(s \o p) + 1 = IF c THEN i + 1 ELSE i
    <3>1. CASE c
      <4>1. p = <<CommaToken>> /\ Len(p) = 1 /\ p[1] = CommaToken
        BY <1>4, <2>1, <3>1
      <4>2. t[i] = CommaToken
        BY <1>1, <4>1
      <4>3. CommaToken # "]"
        BY TokenKinds
      <4>4. QED BY <1>1, <3>1, <4>1, <4>2, <4>3
    <3>2. CASE ~c
      <4>1. Len(p) = 0
        BY <1>4, <2>1, <3>2
      <4>2. t[i] = u[1]
        BY <1>1, <1>3, <4>1
      <4>3. QED BY <1>1, <3>2, <4>1, <4>2
    <3>3. QED BY <1>4, <3>1, <3>2
  <2> HIDE DEF i
  <2>3. Rest(t, "[", i, c) = More(t, "[", End(t, IF c THEN i + 1 ELSE i))
    BY <1>1, <1>4, <1>5, <2>2, ElementRead
  <2>4. QED BY <1>6, <2>2, <2>3 DEF i, t, c
<1>7. CASE mark = "{"
  <2>1. PICK name \in Strings : p = Sep(s) \o <<name, ColonToken>>
    BY <1>7 DEF Leads, Marks
  <2> DEFINE k == IF c THEN i + 1 ELSE i
  <2>2. /\ k \in 1 .. Len(t) /\ k + 1 \in 1 .. Len(t) /\ (c => t[i] = CommaToken)
        /\ t[k] = name /\ t[k + 1] = ColonToken /\ Len(s \o p) + 1 = k + 2
    <3>1. CASE c
      <4>1. p = <<CommaToken, name, ColonToken>>
        <5>1. p = <<CommaToken>> \o <<name, ColonToken>>
          BY <1>4, <2>1, <3>1
        <5>2. QED BY <5>1, Three
      <4>2. Len(p) = 3 /\ p[1] = CommaToken /\ p[2] = name /\ p[3] = ColonToken
        BY <4>1
      <4>3. t[Len(s) + 1] = CommaToken /\ t[Len(s) + 2] = name /\ t[Len(s) + 3] = ColonToken
        BY <1>1, <4>2
      <4>4. k = Len(s) + 2 /\ k + 1 = Len(s) + 3
        BY <1>1, <3>1
      <4> HIDE DEF k
      <4>5. QED BY <1>1, <1>2, <4>2, <4>3, <4>4
    <3>2. CASE ~c
      <4>1. p = <<name, ColonToken>>
        BY <1>4, <2>1, <3>2
      <4>2. Len(p) = 2 /\ p[1] = name /\ p[2] = ColonToken
        BY <4>1
      <4>3. t[Len(s) + 1] = name /\ t[Len(s) + 2] = ColonToken
        BY <1>1, <4>2
      <4>4. k = Len(s) + 1 /\ k + 1 = Len(s) + 2
        BY <1>1, <3>2
      <4> HIDE DEF k
      <4>5. QED BY <1>1, <1>2, <3>2, <4>2, <4>3, <4>4
    <3>3. QED BY <1>4, <3>1, <3>2
  <2>3. (c => k = i + 1) /\ (~c => k = i)
    OBVIOUS
  <2> HIDE DEF i, k
  <2>4. Rest(t, "{", i, c) = More(t, "{", End(t, k + 2))
    <3>1. t \in Seq(Tokens) /\ c \in BOOLEAN
      BY <1>1, <1>4
    <3>2. k \in 1 .. Len(t) /\ k + 1 \in 1 .. Len(t)
      BY <2>2
    <3>3. (c => t[i] = CommaToken) /\ t[k] \in Strings /\ t[k + 1] = ColonToken
      BY <2>2
    <3>4. QED BY <1>5, <2>3, <3>1, <3>2, <3>3, MemberRead, ZenonT(60)
  <2>5. QED BY <1>7, <2>2, <2>4 DEF i, t, c
<1>8. QED BY <1>6, <1>7 DEF Marks

\* No JSON text begins with a closing bracket.
LEMMA ValidBegins ==
  ASSUME SyntaxAssumption, NEW v \in Seq(Tokens), IsValid(v)
  PROVE  v[1] # "]" /\ Len(v) \in Nat \ {0}
<1>1. End(v, 1) # 0 /\ v # << >>
  BY ValidEnds DEF IsValid
<1>2. Len(v) \in Nat \ {0} /\ 1 \in 1 .. Len(v) /\ 1 \in 1 .. Len(v) + 1
  BY <1>1, EmptySeq
<1>3. ValueEnd(Ends(v), v, 1) # 0
  BY <1>1, <1>2, EndIs
<1>4. Token(v, 1) # "]"
  <2>1. "]" \notin Scalars
    BY DEF SyntaxAssumption, Scalars, Structural, Literals
  <2>2. QED BY <1>3, <2>1, ValueEndOf
<1>5. QED BY <1>2, <1>4, TokenAt

\* A comma is due behind a value and not behind an opening bracket.
LEMMA CommaAfter ==
  ASSUME SyntaxAssumption, NEW s \in Seq(Tokens), s # << >>
  PROVE  /\ Last(s) \in Closing => Comma(s) = TRUE /\ Last(s) # CommaToken
         /\ Last(s) \in Marks => Comma(s) = FALSE /\ Last(s) # CommaToken
BY TokenKinds DEF Comma

\* Where the parser is with a text that is being written, whatever will follow: the
\* innermost open container began at the last of at and reads on; those around it
\* wait for it.
Frame(s, op, at, u) ==
    \A k \in 1 .. Len(op) :
        End(s \o u, at[k]) = IF k = Len(op) THEN Rest(s \o u, op[k], Len(s) + 1, Comma(s))
                             ELSE More(s \o u, op[k], End(s \o u, at[k + 1]))

\* A text with nothing open is one whole value.
Framed(s, op) ==
    /\ op = << >> /\ s # << >> => \A u \in Seq(Tokens) : End(s \o u, 1) = Len(s) + 1
    /\ op # << >> => \E at \in [1 .. Len(op) -> Nat] :
                         at[1] = 1 /\ \A u \in Seq(Tokens) : Frame(s, op, at, u)

\* A JSON text that is the whole text.
LEMMA RootValue ==
  ASSUME SyntaxAssumption, NEW v \in Seq(Tokens), IsValid(v)
  PROVE  Framed(v, << >>)
<1>1. SUFFICES ASSUME NEW u \in Seq(Tokens) PROVE End(v \o u, 1) = Len(v) + 1
  BY DEF Framed
<1>2. v \o u \in Seq(Tokens) /\ Stands(v, v \o u, 0)
  <2>1. /\ v \o u \in Seq(Tokens) /\ Len(v \o u) = Len(v) + Len(u)
        /\ \A i \in 1 .. Len(v) + Len(u) : (v \o u)[i] = IF i <= Len(v) THEN v[i] ELSE u[i - Len(v)]
    BY ConcatProperties
  <2>2. \A j \in 1 .. Len(v) : (v \o u)[0 + j] = v[j]
    <3>1. TAKE j \in 1 .. Len(v)
    <3>2. j \in 1 .. Len(v) + Len(u) /\ j <= Len(v) /\ 0 + j = j
      OBVIOUS
    <3>3. QED BY <2>1, <3>2
  <2>3. 0 + Len(v) <= Len(v \o u)
    BY <2>1
  <2>4. QED BY <2>1, <2>2, <2>3 DEF Stands
<1>3. End(v \o u, 0 + 1) = 0 + Len(v) + 1
  BY <1>2, ValidStands
<1>4. 0 + 1 = 1 /\ 0 + Len(v) + 1 = Len(v) + 1
  OBVIOUS
<1>5. QED BY <1>3, <1>4

\* A container that is the whole text, just begun.
LEMMA RootStart ==
  ASSUME SyntaxAssumption, NEW m \in Marks
  PROVE  Framed(<<m>>, <<m>>)
<1> DEFINE s == <<m>>
<1>1. s \in Seq(Tokens) /\ Len(s) = 1 /\ s[1] = m /\ s # << >> /\ Last(s) = m
  BY TokenKinds DEF Last
<1> HIDE DEF s
<1> DEFINE at == [k \in 1 .. 1 |-> 1]
<1>2. at \in [1 .. 1 -> Nat] /\ at[1] = 1
  OBVIOUS
<1> HIDE DEF at
<1>3. ASSUME NEW u \in Seq(Tokens) PROVE Frame(s, s, at, u)
  <2>1. s \o u \in Seq(Tokens) /\ 1 \in 1 .. Len(s \o u) /\ (s \o u)[1] = m
    <3>1. /\ s \o u \in Seq(Tokens) /\ Len(s \o u) = Len(s) + Len(u)
          /\ \A i \in 1 .. Len(s) + Len(u) : (s \o u)[i] = IF i <= Len(s) THEN s[i] ELSE u[i - Len(s)]
      BY <1>1, ConcatProperties
    <3>2. 1 \in 1 .. Len(s) + Len(u) /\ 1 <= Len(s)
      BY <1>1
    <3>3. QED BY <1>1, <3>1, <3>2
  <2>2. End(s \o u, 1) = Rest(s \o u, m, 1 + 1, FALSE)
    BY <2>1, Opened
  <2>3. Comma(s) = FALSE
    BY <1>1, CommaAfter
  <2>4. \A k \in 1 .. Len(s) : k = 1 /\ k = Len(s)
    BY <1>1
  <2>5. QED BY <1>1, <1>2, <2>2, <2>3, <2>4 DEF Frame
<1>4. QED BY <1>1, <1>2, <1>3 DEF Framed, s

\* What follows a value that was added is read as the rest of the container.
LEMMA AddValue ==
  ASSUME SyntaxAssumption, NEW s \in Seq(Tokens), NEW op \in Seq(Marks), op # << >>, Framed(s, op),
         NEW p \in Seq(Tokens), Leads(s, Last(op), p), NEW v \in Seq(Tokens), IsValid(v)
  PROVE  Framed(s \o (p \o v), op)
<1> DEFINE n == Len(op)
<1> DEFINE s1 == s \o (p \o v)
<1>1. n \in Nat \ {0} /\ Last(op) \in Marks /\ Last(op) = op[n]
  BY EmptySeq DEF Last
<1>2. PICK at \in [1 .. n -> Nat] : at[1] = 1 /\ \A u \in Seq(Tokens) : Frame(s, op, at, u)
  BY DEF Framed
<1>3. Last(v) \in Closing /\ v # << >> /\ Len(v) \in Nat \ {0} /\ v[1] # "]"
  BY ValidEnds, ValidBegins
<1>4. /\ s1 \in Seq(Tokens) /\ Len(s1) = Len(s \o p) + Len(v)
      /\ s1[Len(s1)] = v[Len(v)] /\ Len(s1) \in Nat \ {0} /\ Len(s \o p) \in Nat
  BY <1>3, Joined
<1>5. Comma(s1) = TRUE
  <2>1. Last(s1) \in Closing /\ s1 # << >>
    BY <1>3, <1>4 DEF Last
  <2> HIDE DEF s1
  <2>2. QED BY <1>4, <2>1, CommaAfter
<1>6. ASSUME NEW u \in Seq(Tokens) PROVE Frame(s1, op, at, u)
  <2> DEFINE u1 == v \o u
  <2> DEFINE t == s \o (p \o u1)
  <2>1. u1 \in Seq(Tokens) /\ p \o u1 \in Seq(Tokens) /\ u1 # << >> /\ u1[1] # "]"
    <3>1. /\ u1 \in Seq(Tokens) /\ Len(u1) = Len(v) + Len(u)
          /\ \A i \in 1 .. Len(v) + Len(u) : u1[i] = IF i <= Len(v) THEN v[i] ELSE u[i - Len(v)]
      BY ConcatProperties
    <3> HIDE DEF u1
    <3>2. u1[1] = v[1] /\ Len(u1) # 0
      <4>1. 1 \in 1 .. Len(v) + Len(u) /\ 1 <= Len(v) /\ Len(u) \in Nat
        BY <1>3
      <4>2. QED BY <1>3, <3>1, <4>1
    <3>3. p \o u1 \in Seq(Tokens)
      BY <3>1, ConcatProperties
    <3>4. QED BY <1>3, <3>1, <3>2, <3>3
  <2>2. t = s1 \o u /\ t = (s \o p) \o u1 /\ t \in Seq(Tokens)
    <3>1. s \o (p \o (v \o u)) = (s \o (p \o v)) \o u
      <4>1. Regroups(s, p, v, u)
        BY RegroupedLeft
      <4>2. QED BY <4>1 DEF Regroups
    <3>2. s \o (p \o u1) = (s \o p) \o u1
      <4>1. u1 \in Seq(Tokens)
        BY <2>1
      <4> HIDE DEF u1
      <4>2. Associates(s, p, u1)
        BY <4>1, Associated
      <4>3. QED BY <4>2 DEF Associates
    <3>3. s \o (p \o (v \o u)) \in Seq(Tokens)
      BY <2>1, Concatenated
    <3>4. QED BY <3>1, <3>2, <3>3
  <2>3. End(t, Len(s \o p) + 1) = Len(s1) + 1
    <3>1. Stands(v, t, Len(s \o p))
      <4>1. s \o p \in Seq(Tokens)
        BY ConcatProperties
      <4>2. /\ Len((s \o p) \o (v \o u)) = Len(s \o p) + Len(v) + Len(u)
            /\ \A i \in 1 .. Len(v) : ((s \o p) \o (v \o u))[Len(s \o p) + i] = v[i]
        BY <4>1, Joined
      <4>3. QED BY <1>3, <1>4, <2>2, <4>2 DEF Stands
    <3> HIDE DEF t
    <3>2. End(t, Len(s \o p) + 1) = Len(s \o p) + Len(v) + 1
      BY <1>4, <2>2, <3>1, ValidStands
    <3>3. QED BY <1>4, <3>2
  <2>4. Rest(t, op[n], Len(s) + 1, Comma(s)) = More(t, op[n], End(t, Len(s \o p) + 1))
    <3> HIDE DEF u1
    <3>1. QED BY <1>1, <2>1, ReadOn
  <2>5. Frame(s, op, at, p \o u1)
    BY <1>2, <2>1
  <2> HIDE DEF u1, t, s1
  <2>6. Rest(t, op[n], Len(s) + 1, Comma(s)) = Rest(t, op[n], Len(s1) + 1, Comma(s1))
    <3> DEFINE e == End(t, Len(s \o p) + 1)
    <3>1. e # 0 /\ e = Len(s1) + 1
      BY <1>4, <2>3
    <3> HIDE DEF e
    <3>2. More(t, op[n], e) = Rest(t, op[n], e, TRUE)
      BY <3>1 DEF More
    <3>3. Rest(t, op[n], Len(s) + 1, Comma(s)) = More(t, op[n], e)
      BY <2>4 DEF e
    <3> DEFINE c == Comma(s1)
    <3>4. c = TRUE
      BY <1>5
    <3> HIDE DEF c
    <3>5. QED BY <3>1, <3>2, <3>3, <3>4 DEF c
  <2>7. \A k \in 1 .. n :
            End(t, at[k]) = IF k = n THEN Rest(t, op[k], Len(s) + 1, Comma(s))
                            ELSE More(t, op[k], End(t, at[k + 1]))
    BY <2>5 DEF Frame, t
  <2>8. QED BY <2>2, <2>6, <2>7 DEF Frame
<1> HIDE DEF s1
<1>7. QED BY <1>2, <1>6 DEF Framed, s1

\* A text of one token.
Single(v, m) == Len(v) = 1 /\ v[1] = m

\* So is a container that begins there, which is then the innermost.
LEMMA AddStart ==
  ASSUME SyntaxAssumption, NEW s \in Seq(Tokens), NEW op \in Seq(Marks), op # << >>, Framed(s, op),
         NEW p \in Seq(Tokens), Leads(s, Last(op), p), NEW m \in Marks,
         NEW v \in Seq(Tokens), Single(v, m)
  PROVE  Framed(s \o (p \o v), Append(op, m))
<1> DEFINE n == Len(op)
<1> DEFINE s1 == s \o (p \o v)
<1> DEFINE op1 == Append(op, m)
<1>1. n \in Nat \ {0} /\ Last(op) \in Marks /\ Last(op) = op[n]
  BY EmptySeq DEF Last
<1>2. PICK at \in [1 .. n -> Nat] : at[1] = 1 /\ \A u \in Seq(Tokens) : Frame(s, op, at, u)
  BY DEF Framed
<1>3. v \in Seq(Tokens) /\ Len(v) = 1 /\ v[1] = m /\ m # "]" /\ m \in Tokens
  <2>1. m \in Tokens
    BY TokenKinds
  <2>2. m # "]"
    BY DEF Marks
  <2>3. QED BY <2>1, <2>2 DEF Single
<1>4. /\ op1 \in Seq(Marks) /\ Len(op1) = n + 1 /\ op1[n + 1] = m /\ op1 # << >>
      /\ \A k \in 1 .. n : op1[k] = op[k]
  BY <1>1, AppendProperties
<1> HIDE DEF op1
<1>5. /\ s1 \in Seq(Tokens) /\ Len(s1) = Len(s \o p) + 1 /\ s1 # << >>
      /\ s1[Len(s1)] = m /\ Len(s1) \in Nat \ {0} /\ Len(s \o p) \in Nat /\ s \o p \in Seq(Tokens)
  <2>0. /\ Len(s) \in Nat /\ Len(p) \in Nat /\ s \o p \in Seq(Tokens) /\ Len(s \o p) = Len(s) + Len(p)
    BY ConcatProperties
  <2>1. /\ s1 \in Seq(Tokens) /\ Len(s1) = Len(s) + Len(p) + Len(v)
        /\ \A i \in 1 .. Len(v) : s1[Len(s) + Len(p) + i] = v[i]
    BY Joined
  <2> HIDE DEF s1
  <2>2. s1[Len(s) + Len(p) + 1] = m
    BY <1>3, <2>0, <2>1
  <2>3. QED BY <1>3, <2>0, <2>1, <2>2, EmptySeq
<1> HIDE DEF s1
<1>6. Comma(s1) = FALSE
  <2>1. Last(s1) \in Marks
    BY <1>5 DEF Last
  <2>2. QED BY <1>5, <2>1, CommaAfter
<1> DEFINE at1 == [k \in 1 .. n + 1 |-> IF k = n + 1 THEN Len(s1) ELSE at[k]]
<1>7. /\ at1 \in [1 .. n + 1 -> Nat] /\ at1[1] = 1 /\ at1[n + 1] = Len(s1)
      /\ \A k \in 1 .. n : at1[k] = at[k] /\ k \in 1 .. n + 1
  <2>1. n + 1 \in 1 .. n + 1 /\ 1 \in 1 .. n /\ 1 \in 1 .. n + 1 /\ 1 # n + 1
    BY <1>1
  <2>2. \A k \in 1 .. n : k # n + 1 /\ k \in 1 .. n + 1 /\ at[k] \in Nat
    <3> HIDE DEF n
    <3>1. QED BY <1>1, <1>2
  <2>3. Len(s1) \in Nat /\ at[1] = 1
    BY <1>2, <1>5
  <2>4. QED BY <2>1, <2>2, <2>3
<1> HIDE DEF at1
<1>8. ASSUME NEW u \in Seq(Tokens) PROVE Frame(s1, op1, at1, u)
  <2> DEFINE u1 == v \o u
  <2> DEFINE t == s \o (p \o u1)
  <2>1. /\ u1 \in Seq(Tokens) /\ Len(u1) = 1 + Len(u)
        /\ \A i \in 1 .. 1 + Len(u) : u1[i] = IF i <= 1 THEN v[i] ELSE u[i - 1]
    <3>1. v \in Seq(Tokens) /\ u \in Seq(Tokens) /\ Len(v) = 1
      BY <1>3
    <3>2. /\ u1 \in Seq(Tokens) /\ Len(u1) = Len(v) + Len(u)
          /\ \A i \in 1 .. Len(v) + Len(u) : u1[i] = IF i <= Len(v) THEN v[i] ELSE u[i - Len(v)]
      BY <3>1, ConcatProperties
    <3> HIDE DEF u1
    <3>3. QED BY <3>1, <3>2
  <2>2. t = s1 \o u
    <3> DEFINE q == p \o v
    <3>1. q \in Seq(Tokens)
      BY Concatenated
    <3>2. p \o (v \o u) = q \o u
      BY Associated, SMTT(30) DEF Associates
    <3>3. s1 = s \o q
      BY DEF s1
    <3> HIDE DEF q
    <3>4. Associates(s, q, u)
      BY <3>1, Associated
    <3>5. QED BY <3>2, <3>3, <3>4 DEF Associates
  <2> HIDE DEF u1
  <2>3. u1 # << >> /\ u1[1] = m /\ Len(u1) \in Nat \ {0}
    <3>1. 1 \in 1 .. 1 + Len(u) /\ 1 + Len(u) # 0
      OBVIOUS
    <3>2. QED BY <1>3, <2>1, <3>1
  <2>4. t = (s \o p) \o u1 /\ t \in Seq(Tokens) /\ p \o u1 \in Seq(Tokens)
    <3>1. t = (s \o p) \o u1
      <4>1. Associates(s, p, u1)
        BY <2>1, Associated
      <4>2. QED BY <4>1 DEF Associates
    <3>2. p \o u1 \in Seq(Tokens)
      BY <2>1, Concatenated
    <3>3. t \in Seq(Tokens)
      BY <3>2, Concatenated
    <3>4. QED BY <3>1, <3>2, <3>3
  <2>5. Len(s1) \in 1 .. Len(t) /\ t[Len(s1)] = m
    <3> DEFINE r == s \o p
    <3>1. r \in Seq(Tokens) /\ Len(r) \in Nat /\ Len(s1) = Len(r) + 1
      BY <1>5
    <3> HIDE DEF r
    <3>2. /\ Len(r \o u1) = Len(r) + Len(u1)
          /\ \A i \in 1 .. Len(r) + Len(u1) : (r \o u1)[i] = IF i <= Len(r) THEN r[i] ELSE u1[i - Len(r)]
      BY <2>1, <3>1, ConcatProperties
    <3>3. Len(s1) \in 1 .. Len(r) + Len(u1) /\ ~(Len(s1) <= Len(r)) /\ Len(s1) - Len(r) = 1
      BY <2>3, <3>1
    <3>4. QED BY <2>3, <2>4, <3>2, <3>3 DEF r
  <2>6. Rest(t, op[n], Len(s) + 1, Comma(s)) = More(t, op[n], End(t, Len(s1)))
    <3>1. Rest(t, op[n], Len(s) + 1, Comma(s)) = More(t, op[n], End(t, Len(s \o p) + 1))
      BY <1>1, <1>3, <2>1, <2>3, ReadOn
    <3>2. QED BY <1>5, <3>1
  <2>7. Frame(s, op, at, p \o u1)
    BY <1>2, <2>4
  <2> HIDE DEF t
  <2>8. End(t, Len(s1)) = Rest(t, m, Len(s1) + 1, Comma(s1))
    <3>1. End(t, Len(s1)) = Rest(t, t[Len(s1)], Len(s1) + 1, FALSE)
      BY <2>4, <2>5, Opened
    <3>2. QED BY <1>6, <2>5, <3>1
  <2>9. \A k \in 1 .. n :
            End(t, at[k]) = IF k = n THEN Rest(t, op[k], Len(s) + 1, Comma(s))
                            ELSE More(t, op[k], End(t, at[k + 1]))
    BY <2>7 DEF Frame, t
  <2>10. ASSUME NEW k \in 1 .. n + 1
         PROVE  End(t, at1[k]) = IF k = n + 1 THEN Rest(t, op1[k], Len(s1) + 1, Comma(s1))
                                 ELSE More(t, op1[k], End(t, at1[k + 1]))
    <3>1. CASE k = n + 1
      BY <1>4, <1>7, <2>8, <3>1
    <3>2. CASE k = n
      <4>1. k \in 1 .. n /\ k # n + 1 /\ k + 1 = n + 1
        BY <1>1, <3>2
      <4>2. End(t, at[k]) = More(t, op[k], End(t, Len(s1)))
        BY <2>6, <2>9, <3>2, <4>1
      <4>3. QED BY <1>4, <1>7, <4>1, <4>2
    <3>3. CASE k \in 1 .. n - 1
      <4>1. k \in 1 .. n /\ k # n /\ k # n + 1 /\ k + 1 \in 1 .. n
        BY <1>1, <3>3
      <4>2. End(t, at[k]) = More(t, op[k], End(t, at[k + 1]))
        BY <2>9, <4>1
      <4>3. QED BY <1>4, <1>7, <4>1, <4>2
    <3>4. QED BY <1>1, <3>1, <3>2, <3>3
  <2>11. QED BY <1>4, <2>2, <2>10 DEF Frame
<1>9. QED BY <1>4, <1>7, <1>8 DEF Framed, s1, op1

\* All but the last of a sequence.
LEMMA FrontIs ==
  ASSUME NEW S, NEW q \in Seq(S), q # << >>
  PROVE  /\ Front(q) \in Seq(S) /\ Len(Front(q)) = Len(q) - 1 /\ Len(q) \in Nat \ {0}
         /\ \A k \in 1 .. Len(q) - 1 : Front(q)[k] = q[k]
<1>1. Len(q) \in Nat \ {0}
  BY EmptySeq
<1>2. Front(q) = SubSeq(q, 1, Len(q) - 1)
  BY DEF Front
<1> DEFINE n == Len(q) - 1
<1>3. 1 \in Int /\ n \in Int /\ n \in Nat /\ \A k \in 1 .. n : q[k] \in S
  BY <1>1
<1> HIDE DEF n
<1>4. /\ SubSeq(q, 1, n) \in Seq(S) /\ Len(SubSeq(q, 1, n)) = IF 1 <= n THEN n - 1 + 1 ELSE 0
      /\ \A k \in 1 .. n - 1 + 1 : SubSeq(q, 1, n)[k] = q[1 + k - 1]
  BY <1>3, SubSeqProperties
<1>5. n - 1 + 1 = n /\ (~(1 <= n) => n = 0) /\ \A k \in 1 .. n : 1 + k - 1 = k
  BY <1>3
<1>6. Len(SubSeq(q, 1, n)) = n /\ \A k \in 1 .. n : SubSeq(q, 1, n)[k] = q[k]
  BY <1>4, <1>5
<1>7. QED BY <1>1, <1>2, <1>4, <1>6 DEF n

\* A container that is closed ends, and the one around it reads on.
LEMMA AddEnd ==
  ASSUME SyntaxAssumption, NEW s \in Seq(Tokens), NEW op \in Seq(Marks), op # << >>, Framed(s, op)
  PROVE  Framed(s \o <<ClosingOf(Last(op))>>, Front(op))
<1> DEFINE n == Len(op)
<1> DEFINE c == ClosingOf(Last(op))
<1> DEFINE v == <<c>>
<1> DEFINE s1 == s \o v
<1> DEFINE op1 == Front(op)
<1>1. n \in Nat \ {0} /\ Last(op) \in Marks /\ Last(op) = op[n]
  BY EmptySeq DEF Last
<1>2. PICK at \in [1 .. n -> Nat] : at[1] = 1 /\ \A u \in Seq(Tokens) : Frame(s, op, at, u)
  BY DEF Framed
<1>3. c \in Tokens /\ c \in Closing
  BY <1>1, TokenKinds
<1> HIDE DEF c
<1>4. v \in Seq(Tokens) /\ Len(v) = 1 /\ v[1] = c
  BY <1>3
<1>5. /\ op1 \in Seq(Marks) /\ Len(op1) = n - 1 /\ n - 1 \in Nat
      /\ \A k \in 1 .. n - 1 : op1[k] = op[k]
  BY <1>1, FrontIs
<1> HIDE DEF v, op1
<1>6. /\ s1 \in Seq(Tokens) /\ Len(s1) = Len(s) + 1 /\ s1 # << >> /\ Len(s) \in Nat
      /\ s1[Len(s1)] = c
  <2>1. /\ s1 \in Seq(Tokens) /\ Len(s1) = Len(s) + Len(v)
        /\ \A i \in 1 .. Len(s) + Len(v) : s1[i] = IF i <= Len(s) THEN s[i] ELSE v[i - Len(s)]
    BY <1>4, ConcatProperties
  <2> HIDE DEF s1
  <2>2. Len(s) \in Nat /\ Len(s) + 1 \in 1 .. Len(s) + Len(v) /\ ~(Len(s) + 1 <= Len(s)) /\ Len(s) + 1 - Len(s) = 1
    BY <1>4
  <2>3. QED BY <1>4, <2>1, <2>2, EmptySeq
<1> HIDE DEF s1
<1>7. Comma(s1) = TRUE
  <2>1. Last(s1) \in Closing
    BY <1>3, <1>6 DEF Last
  <2>2. QED BY <1>6, <2>1, CommaAfter
<1>8. ASSUME NEW u \in Seq(Tokens)
      PROVE  /\ s1 \o u \in Seq(Tokens) /\ End(s1 \o u, at[n]) = Len(s1) + 1
             /\ \A k \in 1 .. n - 1 : End(s1 \o u, at[k]) = More(s1 \o u, op[k], End(s1 \o u, at[k + 1]))
  <2> DEFINE u1 == v \o u
  <2> DEFINE t == s \o u1
  <2>1. /\ u1 \in Seq(Tokens) /\ Len(u1) = 1 + Len(u)
        /\ \A i \in 1 .. 1 + Len(u) : u1[i] = IF i <= 1 THEN v[i] ELSE u[i - 1]
    <3>1. v \in Seq(Tokens) /\ u \in Seq(Tokens) /\ Len(v) = 1
      BY <1>4
    <3>2. /\ u1 \in Seq(Tokens) /\ Len(u1) = Len(v) + Len(u)
          /\ \A i \in 1 .. Len(v) + Len(u) : u1[i] = IF i <= Len(v) THEN v[i] ELSE u[i - Len(v)]
      BY <3>1, ConcatProperties
    <3> HIDE DEF u1
    <3>3. QED BY <3>1, <3>2
  <2>2. t = s1 \o u
    BY <1>4, Associated DEF s1, Associates
  <2> HIDE DEF u1
  <2>3. u1[1] = c /\ Len(u1) \in Nat \ {0}
    <3>1. 1 \in 1 .. 1 + Len(u) /\ 1 + Len(u) # 0
      OBVIOUS
    <3>2. QED BY <1>4, <2>1, <3>1
  <2>4. t \in Seq(Tokens) /\ Len(s) + 1 \in 1 .. Len(t) /\ t[Len(s) + 1] = c
    <3>1. /\ t \in Seq(Tokens) /\ Len(t) = Len(s) + Len(u1)
          /\ \A i \in 1 .. Len(s) + Len(u1) : t[i] = IF i <= Len(s) THEN s[i] ELSE u1[i - Len(s)]
      BY <2>1, ConcatProperties
    <3>2. /\ Len(s) + 1 \in 1 .. Len(s) + Len(u1) /\ ~(Len(s) + 1 <= Len(s))
          /\ Len(s) + 1 - Len(s) = 1
      BY <1>6, <2>3
    <3> HIDE DEF t
    <3>3. QED BY <2>3, <3>1, <3>2
  <2>5. Frame(s, op, at, u1)
    BY <1>2, <2>1
  <2> HIDE DEF t
  <2>6. \A k \in 1 .. n :
            End(t, at[k]) = IF k = n THEN Rest(t, op[k], Len(s) + 1, Comma(s))
                            ELSE More(t, op[k], End(t, at[k + 1]))
    BY <2>5 DEF Frame, t
  <2>7. Rest(t, op[n], Len(s) + 1, Comma(s)) = Len(s1) + 1
    <3> DEFINE i == Len(s) + 1
    <3> DEFINE b == Comma(s)
    <3>1. b \in BOOLEAN
      BY DEF Comma
    <3>2. i \in 1 .. Len(t) /\ t[i] = ClosingOf(op[n]) /\ op[n] \in Marks
      BY <1>1, <2>4 DEF c
    <3> HIDE DEF i, b
    <3>3. Rest(t, op[n], i, b) = i + 1
      BY <2>4, <3>1, <3>2, Closed
    <3>4. QED BY <1>6, <3>3 DEF i, b
  <2>8. End(t, at[n]) = Len(s1) + 1
    BY <1>1, <2>6, <2>7
  <2>9. ASSUME NEW k \in 1 .. n - 1 PROVE End(t, at[k]) = More(t, op[k], End(t, at[k + 1]))
    <3>1. k \in 1 .. n /\ k # n
      BY <1>1
    <3>2. QED BY <2>6, <3>1
  <2>10. QED BY <2>2, <2>4, <2>8, <2>9
<1>9. CASE n = 1
  <2>1. op1 = << >> /\ at[n] = 1
    BY <1>2, <1>5, <1>9, EmptySeq
  <2>2. \A u \in Seq(Tokens) : End(s1 \o u, 1) = Len(s1) + 1
    BY <1>8, <2>1
  <2>3. Framed(s1, op1)
    BY <2>1, <2>2 DEF Framed
  <2>4. QED BY <2>3 DEF s1, op1, v, c
<1>10. CASE n # 1
  <2> DEFINE at1 == [k \in 1 .. n - 1 |-> at[k]]
  <2>1. /\ at1 \in [1 .. n - 1 -> Nat] /\ at1[1] = 1 /\ op1 # << >>
        /\ \A k \in 1 .. n - 1 : at1[k] = at[k]
    <3> HIDE DEF n
    <3>0. 1 \in 1 .. n - 1 /\ \A k \in 1 .. n - 1 : k \in 1 .. n
      BY <1>1, <1>10
    <3>1. \A k \in 1 .. n - 1 : at[k] \in Nat
      BY <1>2, <3>0
    <3>2. Len(op1) # 0
      BY <1>1, <1>5, <1>10
    <3>3. op1 # << >>
      BY <3>2
    <3>4. QED BY <1>2, <3>0, <3>1, <3>3
  <2> HIDE DEF at1
  <2>2. ASSUME NEW u \in Seq(Tokens) PROVE Frame(s1, op1, at1, u)
    <3> DEFINE t == s1 \o u
    <3>1. /\ End(t, at[n]) = Len(s1) + 1
          /\ \A k \in 1 .. n - 1 : End(t, at[k]) = More(t, op[k], End(t, at[k + 1]))
      BY <1>8
    <3> HIDE DEF t
    <3>2. ASSUME NEW k \in 1 .. n - 1
          PROVE  End(t, at1[k]) = IF k = n - 1 THEN Rest(t, op1[k], Len(s1) + 1, Comma(s1))
                                  ELSE More(t, op1[k], End(t, at1[k + 1]))
      <4>1. CASE k = n - 1
        <5>1. k + 1 = n
          BY <1>1, <4>1
        <5>2. End(t, at[k]) = More(t, op[k], Len(s1) + 1)
          BY <3>1, <5>1
        <5>3. Len(s1) + 1 # 0
          BY <1>6
        <5>4. More(t, op[k], Len(s1) + 1) = Rest(t, op[k], Len(s1) + 1, TRUE)
          BY <5>3 DEF More
        <5>5. QED BY <1>5, <1>7, <2>1, <4>1, <5>2, <5>4
      <4>2. CASE k # n - 1
        <5>1. k + 1 \in 1 .. n - 1
          BY <1>1, <4>2
        <5>2. QED BY <1>5, <2>1, <3>1, <4>2, <5>1
      <4>3. QED BY <4>1, <4>2
    <3>3. QED BY <1>5, <3>2 DEF Frame, t
  <2>3. Framed(s1, op1)
    BY <1>5, <2>1, <2>2 DEF Framed
  <2>4. QED BY <2>3 DEF s1, op1, v, c
<1>11. QED BY <1>9, <1>10

-----------------------------------------------------------------------------
(* What the generator's calls write.                                         *)

\* Stripped, with the comma by its name.
LEMMA StrippedIs ==
  ASSUME NEW x
  PROVE  Stripped(x) = IF x # << >> /\ Last(x) = CommaToken THEN Front(x) ELSE x
BY DEF Stripped, CommaToken

\* A text and one token behind it.
LEMMA OneMore ==
  ASSUME NEW o \in Seq(Tokens), NEW c \in Tokens
  PROVE  /\ o \o <<c>> \in Seq(Tokens) /\ o \o <<c>> # << >> /\ Len(o \o <<c>>) = Len(o) + 1
         /\ Last(o \o <<c>>) = c /\ Front(o \o <<c>>) = o
         /\ \A i \in 1 .. Len(o) : (o \o <<c>>)[i] = o[i]
<1> DEFINE v == <<c>>
<1> DEFINE x == o \o v
<1>1. v \in Seq(Tokens) /\ Len(v) = 1 /\ v[1] = c /\ Len(o) \in Nat
  OBVIOUS
<1> HIDE DEF v
<1>2. /\ x \in Seq(Tokens) /\ Len(x) = Len(o) + Len(v)
      /\ \A i \in 1 .. Len(o) + Len(v) : x[i] = IF i <= Len(o) THEN o[i] ELSE v[i - Len(o)]
  BY <1>1, ConcatProperties
<1> HIDE DEF x
<1>3. Len(x) = Len(o) + 1 /\ x # << >>
  BY <1>1, <1>2, EmptySeq
<1>4. \A i \in 1 .. Len(o) : x[i] = o[i]
  <2>1. \A i \in 1 .. Len(o) : i \in 1 .. Len(o) + Len(v) /\ i <= Len(o)
    BY <1>1
  <2>2. QED BY <1>2, <2>1
<1>5. Last(x) = c
  <2>1. /\ Len(o) + 1 \in 1 .. Len(o) + Len(v) /\ ~(Len(o) + 1 <= Len(o))
        /\ Len(o) + 1 - Len(o) = 1
    BY <1>1
  <2>2. x[Len(o) + 1] = c
    BY <1>1, <1>2, <2>1
  <2>3. QED BY <1>3, <2>2 DEF Last
<1>6. Front(x) = o
  <2> DEFINE f == Front(x)
  <2>1. f \in Seq(Tokens) /\ Len(f) = Len(x) - 1 /\ \A k \in 1 .. Len(x) - 1 : f[k] = x[k]
    BY <1>2, <1>3, FrontIs
  <2> HIDE DEF f
  <2>2. Len(x) - 1 = Len(o)
    BY <1>1, <1>3
  <2>3. Len(f) = Len(o) /\ \A k \in 1 .. Len(f) : f[k] = o[k]
    BY <1>4, <2>1, <2>2
  <2>4. f = o
    BY <2>1, <2>3, SeqEqual
  <2>5. QED BY <2>4 DEF f
<1>7. QED BY <1>2, <1>3, <1>4, <1>5, <1>6 DEF x, v

\* One token is a text.
LEMMA OneToken == ASSUME NEW m \in Tokens PROVE <<m>> \in Seq(Tokens)
OBVIOUS

\* Two tokens and one.
LEMMA ThreeOf ==
  ASSUME NEW x \in Tokens, NEW y \in Tokens, NEW z \in Tokens
  PROVE  <<x, y>> \o <<z>> = <<x, y, z>>
<1> DEFINE a == <<x>>
<1> DEFINE b == <<y>>
<1> DEFINE c == <<z>>
<1>1. a \in Seq(Tokens) /\ b \in Seq(Tokens) /\ c \in Seq(Tokens)
  OBVIOUS
<1>2. a \o b = <<x, y>> /\ b \o c = <<y, z>> /\ a \o <<y, z>> = <<x, y, z>>
  BY Two, Three
<1> HIDE DEF a, b, c
<1>3. (a \o b) \o c = a \o (b \o c)
  BY <1>1, Associated DEF Associates
<1>4. QED BY <1>2, <1>3 DEF c

\* A comma behind a text is taken away again.
LEMMA StripsComma ==
  ASSUME SyntaxAssumption, NEW o \in Seq(Tokens)
  PROVE  Stripped(o \o <<CommaToken>>) = o
<1> DEFINE x == o \o <<CommaToken>>
<1>1. x # << >> /\ Last(x) = CommaToken /\ Front(x) = o
  BY OneMore, TokenKinds
<1> HIDE DEF x
<1>2. Stripped(x) = o
  BY <1>1, StrippedIs
<1>3. QED BY <1>2 DEF x

\* The text between two calls, o, is s with the comma behind it that may have to go.
State(o, s, op) ==
    /\ s \in Seq(Tokens) /\ op \in Seq(Marks)
    /\ o = s \o Sep(s)
    /\ Framed(s, op)

\* strip_comma gives the text without the comma that may have to go.
LEMMA StateIs ==
  ASSUME SyntaxAssumption, NEW o, NEW s, NEW op, State(o, s, op)
  PROVE  /\ o \in Seq(Tokens) /\ Stripped(o) = s
         /\ o = << >> <=> s = << >>
<1>1. s \in Seq(Tokens) /\ o = s \o Sep(s)
  BY DEF State
<1> DEFINE c == Comma(s)
<1>2. c \in BOOLEAN /\ (c => Sep(s) = <<CommaToken>>) /\ (~c => Sep(s) = << >>)
  BY <1>1, SepIs
<1>3. c = TRUE <=> ~(s = << >> \/ Last(s) \in Marks)
  BY DEF Comma
<1> HIDE DEF c
<1>4. CASE c
  <2>1. o = s \o <<CommaToken>>
    BY <1>1, <1>2, <1>4
  <2>2. o \in Seq(Tokens) /\ o # << >>
    BY <1>1, <2>1, OneMore, TokenKinds
  <2>3. Stripped(o) = s
    BY <1>1, <2>1, StripsComma
  <2>4. s # << >>
    BY <1>3, <1>4
  <2>5. QED BY <2>2, <2>3, <2>4
<1>5. CASE ~c
  <2>1. o = s \o << >>
    BY <1>1, <1>2, <1>5
  <2>2. o = s
    BY <1>1, <2>1, ConcatEmptySeq
  <2>3. s = << >> \/ Last(s) # CommaToken
    BY <1>2, <1>3, <1>5, TokenKinds
  <2>4. Stripped(o) = s
    BY <2>2, <2>3, StrippedIs
  <2>5. QED BY <1>1, <2>2, <2>4
<1>6. QED BY <1>2, <1>4, <1>5

\* What is written in front of a value but for the comma.
Named(ts, mark) ==
    \/ mark = "[" /\ ts = << >>
    \/ mark = "{" /\ \E name \in Strings : ts = <<name, ColonToken>>

\* With the comma that is due, a name leads to the member, and nothing to the element.
LEMMA NamedLeads ==
  ASSUME SyntaxAssumption, NEW s \in Seq(Tokens), NEW mark \in Marks, NEW ts, Named(ts, mark)
  PROVE  ts \in Seq(Tokens) /\ Leads(s, mark, Sep(s) \o ts) /\ Sep(s) \o ts \in Seq(Tokens)
<1>1. Sep(s) \in Seq(Tokens)
  BY SepIs
<1>2. CASE mark = "["
  <2>1. ts = << >>
    BY <1>2 DEF Named
  <2>2. Sep(s) \o ts = Sep(s)
    BY <1>1, <2>1, ConcatEmptySeq
  <2>3. QED BY <1>1, <1>2, <2>1, <2>2 DEF Leads
<1>3. CASE mark = "{"
  <2>1. PICK name \in Strings : ts = <<name, ColonToken>>
    BY <1>3 DEF Named
  <2>2. ts \in Seq(Tokens)
    BY <2>1, TokenKinds
  <2>3. Sep(s) \o ts \in Seq(Tokens)
    BY <1>1, <2>2, Concatenated
  <2>4. QED BY <1>3, <2>1, <2>2, <2>3 DEF Leads
<1>4. QED BY <1>2, <1>3 DEF Marks

\* The end of a value calls for a comma.
LEMMA CommaBehind ==
  ASSUME SyntaxAssumption, NEW s \in Seq(Tokens), s # << >>, Last(s) \in Closing
  PROVE  Sep(s) = <<CommaToken>>
<1> DEFINE c == Comma(s)
<1>1. c = TRUE
  BY CommaAfter
<1> HIDE DEF c
<1>2. QED BY <1>1 DEF Sep, c

\* Behind an opening bracket no comma is written.
LEMMA NoCommaBehind ==
  ASSUME SyntaxAssumption, NEW s \in Seq(Tokens), s # << >>, Last(s) \in Marks
  PROVE  s \o Sep(s) = s
<1> DEFINE c == Comma(s)
<1>1. c = FALSE
  BY CommaAfter
<1> HIDE DEF c
<1>2. Sep(s) = << >>
  BY <1>1 DEF Sep, c
<1>3. QED BY <1>2, ConcatEmptySeq

\* A text ends with what was put behind it.
LEMMA LastOfJoined ==
  ASSUME NEW a \in Seq(Tokens), NEW w \in Seq(Tokens), w # << >>
  PROVE  a \o w \in Seq(Tokens) /\ Last(a \o w) = Last(w) /\ a \o w # << >>
<1> DEFINE x == a \o w
<1>1. /\ x \in Seq(Tokens) /\ Len(x) = Len(a) + Len(w)
      /\ \A i \in 1 .. Len(a) + Len(w) : x[i] = IF i <= Len(a) THEN a[i] ELSE w[i - Len(a)]
  BY ConcatProperties
<1> HIDE DEF x
<1>2. Len(a) \in Nat /\ Len(w) \in Nat \ {0}
  BY EmptySeq
<1> DEFINE n == Len(a) + Len(w)
<1>3. n \in 1 .. Len(a) + Len(w) /\ ~(n <= Len(a)) /\ n - Len(a) = Len(w) /\ n # 0
  BY <1>2
<1>4. x[n] = w[Len(w)]
  BY <1>1, <1>3
<1>5. QED BY <1>1, <1>3, <1>4 DEF x, Last

\* A value that is put in, with its name in an object, and the comma behind it.
LEMMA PutValue ==
  ASSUME SyntaxAssumption, NEW o, NEW s, NEW op, State(o, s, op), op # << >>,
         NEW ts, Named(ts, Last(op)), NEW w \in Seq(Tokens), IsValid(w)
  PROVE  State((o \o (ts \o w)) \o <<CommaToken>>, o \o (ts \o w), op)
<1>1. s \in Seq(Tokens) /\ op \in Seq(Marks) /\ o = s \o Sep(s) /\ Framed(s, op)
  BY DEF State
<1>2. Last(op) \in Marks
  <2>1. Len(op) \in Nat \ {0}
    BY <1>1, EmptySeq
  <2>2. QED BY <1>1, <2>1 DEF Last
<1>3. ts \in Seq(Tokens) /\ Leads(s, Last(op), Sep(s) \o ts) /\ Sep(s) \o ts \in Seq(Tokens)
  BY <1>1, <1>2, NamedLeads
<1> DEFINE p == Sep(s) \o ts
<1> DEFINE s1 == s \o (p \o w)
<1>4. s1 = o \o (ts \o w)
  <2> DEFINE x == Sep(s)
  <2>1. x \in Seq(Tokens) /\ s \in Seq(Tokens) /\ ts \in Seq(Tokens) /\ w \in Seq(Tokens)
    BY <1>1, <1>3, SepIs
  <2> HIDE DEF x
  <2>2. (s \o x) \o (ts \o w) = s \o ((x \o ts) \o w)
    <3> DEFINE d == ts \o w
    <3>1. d \in Seq(Tokens)
      BY <2>1, Concatenated
    <3>2. x \o d = (x \o ts) \o w
      <4>1. Associates(x, ts, w)
        BY <2>1, Associated
      <4>2. QED BY <4>1 DEF Associates
    <3> HIDE DEF d
    <3>3. (s \o x) \o d = s \o (x \o d)
      <4>1. Associates(s, x, d)
        BY <2>1, <3>1, Associated
      <4>2. QED BY <4>1 DEF Associates
    <3>4. QED BY <3>2, <3>3 DEF d
  <2>3. QED BY <1>1, <2>2 DEF x
<1> HIDE DEF p
<1>5. p \in Seq(Tokens) /\ Leads(s, Last(op), p)
  BY <1>3 DEF p
<1>6. Framed(s1, op)
  BY <1>1, <1>5, AddValue
<1>7. s1 \in Seq(Tokens) /\ s1 # << >> /\ Last(s1) \in Closing
  <2>1. w # << >> /\ Last(w) \in Closing
    BY ValidEnds
  <2>2. (s \o p) \o w = s1 /\ s \o p \in Seq(Tokens)
    <3>1. (s \o p) \o w = s \o (p \o w)
      BY <1>1, <1>5, Associated DEF Associates
    <3>2. s \o p \in Seq(Tokens)
      BY <1>1, <1>5, Concatenated
    <3>3. QED BY <3>1, <3>2
  <2> HIDE DEF s1
  <2>3. QED BY <2>1, <2>2, LastOfJoined
<1> HIDE DEF s1
<1>8. Sep(s1) = <<CommaToken>>
  BY <1>7, CommaBehind
<1>9. State(s1 \o <<CommaToken>>, s1, op)
  BY <1>1, <1>6, <1>7, <1>8 DEF State
<1>10. QED BY <1>4, <1>9

\* A value that is the whole text, and the comma behind it.
LEMMA FirstValue ==
  ASSUME SyntaxAssumption, NEW w \in Seq(Tokens), IsValid(w)
  PROVE  State(w \o <<CommaToken>>, w, << >>)
<1>1. w # << >> /\ Last(w) \in Closing
  BY ValidEnds
<1>2. Sep(w) = <<CommaToken>>
  BY <1>1, CommaBehind
<1>3. Framed(w, << >>) /\ << >> \in Seq(Marks)
  BY RootValue
<1>4. QED BY <1>2, <1>3 DEF State

\* A container that is begun.
LEMMA PutStart ==
  ASSUME SyntaxAssumption, NEW o, NEW s, NEW op, State(o, s, op), op # << >>,
         NEW ts, Named(ts, Last(op)), NEW m \in Marks
  PROVE  State(o \o (ts \o <<m>>), o \o (ts \o <<m>>), Append(op, m))
<1> DEFINE w == <<m>>
<1>0. w \in Seq(Tokens) /\ Single(w, m) /\ w # << >> /\ Last(w) = m
  <2>1. m \in Tokens
    BY TokenKinds
  <2>2. w \in Seq(Tokens) /\ Len(w) = 1 /\ w[1] = m
    BY <2>1
  <2>3. QED BY <2>2 DEF Single, Last
<1> HIDE DEF w
<1>1. s \in Seq(Tokens) /\ op \in Seq(Marks) /\ o = s \o Sep(s) /\ Framed(s, op)
  BY DEF State
<1>2. Last(op) \in Marks
  <2>1. Len(op) \in Nat \ {0}
    BY <1>1, EmptySeq
  <2>2. QED BY <1>1, <2>1 DEF Last
<1>3. ts \in Seq(Tokens) /\ Leads(s, Last(op), Sep(s) \o ts) /\ Sep(s) \o ts \in Seq(Tokens)
  BY <1>1, <1>2, NamedLeads
<1> DEFINE p == Sep(s) \o ts
<1> DEFINE s1 == s \o (p \o w)
<1>4. s1 = o \o (ts \o w)
  <2> DEFINE x == Sep(s)
  <2>1. x \in Seq(Tokens) /\ s \in Seq(Tokens) /\ ts \in Seq(Tokens) /\ w \in Seq(Tokens)
    BY <1>0, <1>1, <1>3, SepIs
  <2> HIDE DEF x
  <2>2. (s \o x) \o (ts \o w) = s \o ((x \o ts) \o w)
    <3> DEFINE d == ts \o w
    <3>1. d \in Seq(Tokens)
      BY <2>1, Concatenated
    <3>2. x \o d = (x \o ts) \o w
      <4>1. Associates(x, ts, w)
        BY <2>1, Associated
      <4>2. QED BY <4>1 DEF Associates
    <3> HIDE DEF d
    <3>3. (s \o x) \o d = s \o (x \o d)
      <4>1. Associates(s, x, d)
        BY <2>1, <3>1, Associated
      <4>2. QED BY <4>1 DEF Associates
    <3>4. QED BY <3>2, <3>3 DEF d
  <2>3. QED BY <1>1, <2>2 DEF x
<1> HIDE DEF p
<1>5. p \in Seq(Tokens) /\ Leads(s, Last(op), p)
  BY <1>3 DEF p
<1>6. Framed(s1, Append(op, m))
  BY <1>0, <1>1, <1>5, AddStart
<1>7. s1 \in Seq(Tokens) /\ s1 # << >> /\ Last(s1) \in Marks
  <2>1. (s \o p) \o w = s1 /\ s \o p \in Seq(Tokens)
    <3>1. (s \o p) \o w = s \o (p \o w)
      BY <1>0, <1>1, <1>5, Associated DEF Associates
    <3>2. s \o p \in Seq(Tokens)
      BY <1>1, <1>5, Concatenated
    <3>3. QED BY <3>1, <3>2
  <2> HIDE DEF s1
  <2>2. QED BY <1>0, <2>1, LastOfJoined
<1> HIDE DEF s1
<1>8. s1 \o Sep(s1) = s1
  BY <1>7, NoCommaBehind
<1>9. Append(op, m) \in Seq(Marks)
  BY <1>1
<1>10. State(s1, s1, Append(op, m))
  BY <1>6, <1>7, <1>8, <1>9 DEF State
<1>11. QED BY <1>4, <1>10 DEF w

\* A container that is the first thing written.
LEMMA FirstStart ==
  ASSUME SyntaxAssumption, NEW m \in Marks
  PROVE  State(<<m>>, <<m>>, <<m>>)
<1> DEFINE w == <<m>>
<1>1. w \in Seq(Marks) /\ w \in Seq(Tokens) /\ w # << >> /\ Last(w) \in Marks
  <2>1. m \in Tokens
    BY TokenKinds
  <2>2. w \in Seq(Marks) /\ w \in Seq(Tokens) /\ Len(w) = 1 /\ w[1] = m
    BY <2>1
  <2>3. QED BY <2>2 DEF Last
<1>2. Framed(w, w)
  BY RootStart
<1> HIDE DEF w
<1>3. w \o Sep(w) = w
  BY <1>1, NoCommaBehind
<1>4. State(w, w, w)
  BY <1>1, <1>2, <1>3 DEF State
<1>5. QED BY <1>4 DEF w

\* The innermost container, closed.
LEMMA PutEnd ==
  ASSUME SyntaxAssumption, NEW o, NEW s, NEW op, State(o, s, op), op # << >>,
         NEW c, c = ClosingOf(Last(op))
  PROVE  State((s \o <<c>>) \o <<CommaToken>>, s \o <<c>>, Front(op)) /\ c \in Tokens
<1> DEFINE s1 == s \o <<c>>
<1>1. s \in Seq(Tokens) /\ op \in Seq(Marks) /\ Framed(s, op)
  BY DEF State
<1>2. Last(op) \in Marks
  <2>1. Len(op) \in Nat \ {0}
    BY <1>1, EmptySeq
  <2>2. QED BY <1>1, <2>1 DEF Last
<1>3. c \in Tokens /\ c \in Closing
  BY <1>2, TokenKinds
<1>4. Framed(s1, Front(op))
  BY <1>1, AddEnd
<1>5. s1 \in Seq(Tokens) /\ s1 # << >> /\ Last(s1) \in Closing
  BY <1>1, <1>3, OneMore
<1>6. Front(op) \in Seq(Marks)
  BY <1>1, FrontIs
<1> HIDE DEF s1
<1>7. Sep(s1) = <<CommaToken>>
  BY <1>5, CommaBehind
<1>8. State(s1 \o <<CommaToken>>, s1, Front(op))
  BY <1>4, <1>5, <1>6, <1>7 DEF State
<1>9. QED BY <1>3, <1>8 DEF s1

\* With nothing open any more, the text is valid.
LEMMA WholeText ==
  ASSUME SyntaxAssumption, NEW o, NEW s, State(o, s, << >>), o # << >>
  PROVE  IsValid(s)
<1>1. s \in Seq(Tokens) /\ Framed(s, << >>) /\ s # << >>
  BY StateIs DEF State
<1>2. << >> \in Seq(Tokens) /\ s \o << >> = s
  BY <1>1, ConcatEmptySeq
<1>3. End(s, 1) = Len(s) + 1
  <2>1. \A u \in Seq(Tokens) : End(s \o u, 1) = Len(s) + 1
    BY <1>1 DEF Framed
  <2>2. End(s \o << >>, 1) = Len(s) + 1
    BY <1>2, <2>1
  <2>3. QED BY <1>2, <2>2
<1>4. Len(s) \in Nat /\ Len(s) + 1 # 0 /\ ~(Len(s) + 1 <= Len(s))
  BY <1>1
<1> DEFINE e == End(s, 1)
<1>5. e # 0 /\ ~(e <= Len(s))
  BY <1>3, <1>4
<1> HIDE DEF e
<1>6. Token(s, e) = "none"
  BY <1>5 DEF Token
<1>7. QED BY <1>5, <1>6 DEF IsValid, e

-----------------------------------------------------------------------------
(* Call by call.                                                             *)

\* The inductive invariant.
GenInv == State(out, Stripped(out), open)

\* What was written, and a comma if one belongs there, is what the generator has.
LEMMA WrittenIs ==
  ASSUME SyntaxAssumption, GenInv, NEW ts
  PROVE  Writer!Written(ts) = out \o ts
<1> DEFINE s == Stripped(out)
<1> DEFINE none == << >>
<1> DEFINE one == <<CommaToken>>
<1> DEFINE first == s = << >> \/ Last(s) \in Marks
<1> DEFINE final == Writer!Last(s)
<1>0. final = Last(s)
  BY DEF Writer!Last, Last
<1> HIDE DEF final
<1>1. Writer!Written(ts) = (s \o (IF s = << >> \/ final \in Marks THEN none ELSE one)) \o ts
  BY DEF Writer!Written, Marks, CommaToken, final
<1>2. Sep(s) = IF ~first THEN one ELSE none
  BY DEF Sep, Comma
<1>3. first \in BOOLEAN
  OBVIOUS
<1>4. out = s \o Sep(s)
  BY DEF GenInv, State
<1> HIDE DEF s, none, one, first
<1>5. (IF first THEN none ELSE one) = IF ~first THEN one ELSE none
  BY <1>3
<1>6. (s = << >> \/ final \in Marks) = first
  BY <1>0 DEF first
<1>7. QED BY <1>1, <1>2, <1>4, <1>5, <1>6

\* What callers pass.
LEMMA Passed ==
  ASSUME GenAssumption, NEW v \in Values \cup {Missing}
  PROVE  LET w == IF v = Missing THEN Null ELSE v
         IN  /\ w \in Values \cup {Null} /\ w \in Seq(Tokens) /\ IsValid(w)
             /\ \A o : WithValue(o, v) = (o \o w) \o <<CommaToken>>
<1> DEFINE w == IF v = Missing THEN Null ELSE v
<1>1. w \in Values \cup {Null}
  OBVIOUS
<1>2. \A x \in Values \cup {Null} : x \in Seq(Tokens) /\ IsValid(x)
  BY DEF GenAssumption
<1>3. \A o : WithValue(o, v) = (o \o w) \o <<CommaToken>>
  BY DEF WithValue, CommaToken
<1> HIDE DEF w
<1>4. w \in Seq(Tokens) /\ IsValid(w)
  BY <1>1, <1>2
<1>5. QED BY <1>1, <1>3, <1>4 DEF w

\* The comma that is written behind a name is made a colon.
LEMMA NameIs ==
  ASSUME GenAssumption, NEW o \in Seq(Tokens), NEW name \in MemberNames
  PROVE  /\ WithName(o, name) = o \o <<name, ColonToken>>
         /\ name \in Strings /\ <<name, ColonToken>> \in Seq(Tokens)
<1>1. SyntaxAssumption /\ name \in Strings /\ name \in Tokens
  BY TokenKinds DEF GenAssumption
<1>2. WithName(o, name) = Stripped(o \o <<name, CommaToken>>) \o <<ColonToken>>
  BY DEF WithName, CommaToken, ColonToken
<1> DEFINE a == <<name>>
<1> DEFINE b == <<CommaToken>>
<1> DEFINE c == <<ColonToken>>
<1>3. a \in Seq(Tokens) /\ b \in Seq(Tokens) /\ c \in Seq(Tokens)
  BY <1>1, TokenKinds
<1>4. a \o b = <<name, CommaToken>> /\ a \o c = <<name, ColonToken>>
  BY Two
<1> HIDE DEF a, b, c
<1>5. o \o (a \o b) = (o \o a) \o b /\ o \o a \in Seq(Tokens)
  BY <1>3, Associated, Concatenated DEF Associates
<1>6. Stripped(o \o (a \o b)) = o \o a
  BY <1>1, <1>5, StripsComma DEF b
<1>7. (o \o a) \o c = o \o (a \o c) /\ a \o c \in Seq(Tokens)
  BY <1>3, Associated, Concatenated DEF Associates
<1>8. QED BY <1>1, <1>2, <1>4, <1>6, <1>7 DEF c

\* s_json_gen_json and its siblings write an element.
LEMMA JsonStep ==
  ASSUME GenAssumption, GenInv, NEW v \in Values \cup {Missing}, GenJson(v)
  PROVE  GenInv' /\ \E x \in Values \cup {Null} : Writer!Element(x)
<1> DEFINE w == IF v = Missing THEN Null ELSE v
<1>1. SyntaxAssumption
  BY DEF GenAssumption
<1>2. /\ w \in Values \cup {Null} /\ w \in Seq(Tokens) /\ IsValid(w)
      /\ WithValue(out, v) = (out \o w) \o <<CommaToken>>
  BY Passed
<1> HIDE DEF w
<1>3. out' = (out \o w) \o <<CommaToken>> /\ open' = open /\ result' = result
  BY <1>2 DEF GenJson
<1>4. State((out \o w) \o <<CommaToken>>, out \o w, open)
  <2>1. CASE open = << >>
    <3>1. out = << >>
      BY <2>1 DEF GenJson, ValueExpected, Inside
    <3>2. out \o w = w
      BY <1>2, <3>1, ConcatEmptySeq
    <3>3. QED BY <1>1, <1>2, <2>1, <3>2, FirstValue
  <2>2. CASE open # << >>
    <3> DEFINE ts == << >>
    <3>1. Named(ts, Last(open))
      BY <2>2 DEF GenJson, ValueExpected, Inside, Named
    <3>2. ts \o w = w
      BY <1>2, ConcatEmptySeq
    <3> HIDE DEF ts
    <3>3. State((out \o (ts \o w)) \o <<CommaToken>>, out \o (ts \o w), open)
      BY <1>1, <1>2, <2>2, <3>1, PutValue DEF GenInv
    <3>4. QED BY <3>2, <3>3
  <2>3. QED BY <2>1, <2>2
<1>5. Stripped(out') = out \o w /\ GenInv'
  <2>1. Stripped(out') = out \o w
    BY <1>1, <1>3, <1>4, StateIs
  <2>2. State(out', Stripped(out'), open')
    BY <1>3, <1>4, <2>1
  <2>3. QED BY <2>1, <2>2 DEF GenInv
<1>6. Writer!Element(w)
  <2>1. Stripped(out') = Writer!Written(w)
    BY <1>1, <1>5, WrittenIs
  <2>2. Writer!Unfinished /\ Writer!ValueExpected
    <3>1. Stripped(out) = << >> <=> out = << >>
      BY <1>1, StateIs DEF GenInv
    <3>2. QED BY <3>1 DEF GenJson, Busy, ValueExpected, Inside, Last,
                          Writer!Unfinished, Writer!ValueExpected, Writer!Inside, Writer!Last
  <2>3. QED BY <1>3, <2>1, <2>2 DEF Writer!Element
<1>7. QED BY <1>2, <1>5, <1>6

\* What the settled text of the next state says of it.
LEMMA Settled ==
  ASSUME SyntaxAssumption, NEW o, NEW s, NEW op, State(o, s, op), out' = o, open' = op
  PROVE  Stripped(out') = s /\ GenInv'
<1>1. Stripped(out') = s
  BY StateIs
<1>2. State(out', Stripped(out'), open')
  BY <1>1
<1>3. QED BY <1>1, <1>2 DEF GenInv

\* The guards of the generator are those of the writer.
LEMMA Expected ==
  ASSUME SyntaxAssumption, GenInv
  PROVE  /\ Busy => Writer!Unfinished /\ result = << >>
         /\ ValueExpected => Writer!ValueExpected
         /\ Inside = Writer!Inside
         /\ ValueExpected => (open = << >> /\ out = << >>) \/ (open # << >> /\ Named(<< >>, Last(open)))
         /\ \A mark \in Marks : Inside = mark => open # << >> /\ Last(open) = mark
<1>1. Stripped(out) = << >> <=> out = << >>
  BY StateIs DEF GenInv
<1>2. QED BY <1>1 DEF Busy, ValueExpected, Inside, Named, Marks, Last,
                      Writer!Unfinished, Writer!ValueExpected, Writer!Inside, Writer!Last

\* s_json_gen_start_object and _start_array begin an element.
LEMMA StartStep ==
  ASSUME GenAssumption, GenInv, NEW m \in Marks, Busy, ValueExpected,
         out' = Append(out, m), open' = Append(open, m), result' = result
  PROVE  GenInv' /\ Writer!Start(m)
<1>1. SyntaxAssumption /\ m \in Tokens
  BY TokenKinds DEF GenAssumption
<1> DEFINE w == <<m>>
<1>2. w \in Seq(Tokens) /\ out \in Seq(Tokens) /\ open \in Seq(Marks)
  <2>1. w \in Seq(Tokens)
    BY <1>1
  <2> HIDE DEF w
  <2>2. out \in Seq(Tokens)
    BY <1>1, StateIs DEF GenInv
  <2>3. open \in Seq(Marks)
    BY DEF GenInv, State
  <2>4. QED BY <2>1, <2>2, <2>3
<1>3. out' = out \o w
  BY <1>1, <1>2, AppendIsConcat
<1>4. State(out \o w, out \o w, Append(open, m))
  <2>1. CASE open = << >> /\ out = << >>
    <3> HIDE DEF w
    <3>1. out \o w = w
      BY <1>2, <2>1, ConcatEmptySeq
    <3>2. Append(open, m) = w
      BY <2>1 DEF w
    <3>3. State(w, w, w)
      BY <1>1, FirstStart DEF w
    <3>4. QED BY <3>1, <3>2, <3>3
  <2>2. CASE open # << >> /\ Named(<< >>, Last(open))
    <3> DEFINE ts == << >>
    <3>1. ts \o w = w
      BY <1>2, ConcatEmptySeq
    <3>2. Named(ts, Last(open))
      BY <2>2
    <3> HIDE DEF ts
    <3>3. State(out \o (ts \o w), out \o (ts \o w), Append(open, m))
      BY <1>1, <2>2, <3>2, PutStart DEF GenInv
    <3>4. QED BY <3>1, <3>3
  <2>3. QED BY <1>1, <2>1, <2>2, Expected
<1> HIDE DEF w
<1>5. Stripped(out') = out \o w /\ GenInv'
  BY <1>1, <1>3, <1>4, Settled
<1>6. Stripped(out') = Writer!Written(w)
  BY <1>1, <1>5, WrittenIs
<1>7. QED BY <1>1, <1>5, <1>6, Expected DEF Writer!Start, w

\* s_json_gen_member_json and its siblings write a member.
LEMMA MemberStep ==
  ASSUME GenAssumption, GenInv, NEW v \in Values \cup {Missing}, NEW name \in MemberNames,
         MemberJson(name, v)
  PROVE  GenInv' /\ \E x \in Values \cup {Null} : Writer!Member(name, x)
<1> DEFINE w == IF v = Missing THEN Null ELSE v
<1> DEFINE ts == <<name, ColonToken>>
<1>1. SyntaxAssumption /\ out \in Seq(Tokens)
  BY StateIs DEF GenAssumption, GenInv
<1>2. /\ WithName(out, name) = out \o ts /\ name \in Strings /\ ts \in Seq(Tokens)
  BY <1>1, NameIs
<1>3. open # << >> /\ Last(open) = "{" /\ Named(ts, Last(open))
  <2>1. open # << >> /\ Last(open) = "{"
    BY <1>1, Expected DEF MemberJson, Marks
  <2>2. QED BY <1>2, <2>1 DEF Named
<1>4. /\ w \in Values \cup {Null} /\ w \in Seq(Tokens) /\ IsValid(w)
      /\ WithValue(out \o ts, v) = ((out \o ts) \o w) \o <<CommaToken>>
  BY Passed
<1> HIDE DEF w, ts
<1>5. (out \o ts) \o w = out \o (ts \o w)
  BY <1>1, <1>2, <1>4, Associated DEF Associates
<1>6. /\ out' = (out \o (ts \o w)) \o <<CommaToken>>
      /\ open' = open /\ result' = result
  BY <1>2, <1>4, <1>5 DEF MemberJson
<1>7. State((out \o (ts \o w)) \o <<CommaToken>>, out \o (ts \o w), open)
  BY <1>1, <1>3, <1>4, PutValue DEF GenInv
<1>8. Stripped(out') = out \o (ts \o w) /\ GenInv'
  BY <1>1, <1>6, <1>7, Settled
<1>9. Stripped(out') = Writer!Written(ts \o w)
  BY <1>1, <1>8, WrittenIs
<1>10. Writer!Written(ts \o w) = Writer!Written(<<name, ":">> \o w)
  BY DEF ts, ColonToken
<1>11. Writer!Unfinished /\ Writer!Inside = "{"
  BY <1>1, Expected DEF MemberJson
<1>12. Writer!Member(name, w)
  BY <1>6, <1>9, <1>10, <1>11 DEF Writer!Member
<1>13. QED BY <1>4, <1>8, <1>12

\* s_json_gen_member_object and _member_array begin a member.
LEMMA MemberStartStep ==
  ASSUME GenAssumption, GenInv, NEW m \in Marks, NEW name \in MemberNames, Busy, Inside = "{",
         out' = Append(WithName(out, name), m), open' = Append(open, m), result' = result
  PROVE  GenInv' /\ Writer!StartMember(name, m)
<1> DEFINE w == <<m>>
<1> DEFINE ts == <<name, ColonToken>>
<1>1. SyntaxAssumption /\ out \in Seq(Tokens) /\ m \in Tokens
  BY StateIs, TokenKinds DEF GenAssumption, GenInv
<1>2. /\ WithName(out, name) = out \o ts /\ name \in Strings /\ ts \in Seq(Tokens)
  BY <1>1, NameIs
<1>3. open # << >> /\ Named(ts, Last(open))
  <2>1. open # << >> /\ Last(open) = "{"
    BY <1>1, Expected DEF Marks
  <2>2. QED BY <1>2, <2>1 DEF Named
<1>4. w \in Seq(Tokens)
  BY <1>1, OneToken
<1>5. ts \o w = <<name, ColonToken, m>>
  BY <1>1, ThreeOf, TokenKinds, <1>2
<1> HIDE DEF ts
<1>6. out' = out \o (ts \o w)
  <2>1. out \o ts \in Seq(Tokens)
    BY <1>1, <1>2, Concatenated
  <2>2. Append(out \o ts, m) = (out \o ts) \o w
    BY <1>1, <2>1, AppendIsConcat
  <2> HIDE DEF w
  <2>3. (out \o ts) \o w = out \o (ts \o w)
    BY <1>1, <1>2, <1>4, Associated DEF Associates
  <2>4. QED BY <1>2, <2>2, <2>3
<1>7. State(out \o (ts \o w), out \o (ts \o w), Append(open, m))
  BY <1>1, <1>3, PutStart DEF GenInv
<1> HIDE DEF w
<1>8. Stripped(out') = out \o (ts \o w) /\ GenInv'
  BY <1>1, <1>6, <1>7, Settled
<1>9. Stripped(out') = Writer!Written(ts \o w)
  BY <1>1, <1>8, WrittenIs
<1>10. Writer!Written(ts \o w) = Writer!Written(<<name, ":", m>>)
  BY <1>5 DEF ColonToken
<1>11. QED BY <1>1, <1>8, <1>9, <1>10, Expected DEF Writer!StartMember

\* s_json_gen_end_object and _end_array close the innermost container.
LEMMA EndStep ==
  ASSUME GenAssumption, GenInv, NEW m \in Marks, result = << >>, Inside = m,
         out' = Stripped(out) \o <<ClosingOf(m), CommaToken>>, open' = Front(open), result' = result
  PROVE  GenInv' /\ Writer!End(m)
<1> DEFINE s == Stripped(out)
<1> DEFINE c == ClosingOf(m)
<1>1. SyntaxAssumption /\ s \in Seq(Tokens) /\ open # << >> /\ c = ClosingOf(Last(open))
  BY StateIs, Expected DEF GenAssumption, GenInv, State
<1>2. State((s \o <<c>>) \o <<CommaToken>>, s \o <<c>>, Front(open)) /\ c \in Tokens
  BY <1>1, PutEnd DEF GenInv
<1>3. <<c, CommaToken>> = <<c>> \o <<CommaToken>>
  BY Two
<1> DEFINE a == <<c>>
<1> DEFINE b == <<CommaToken>>
<1>4. a \in Seq(Tokens) /\ b \in Seq(Tokens)
  BY <1>1, <1>2, TokenKinds
<1>5. out' = s \o (a \o b)
  BY <1>3
<1> HIDE DEF s, a, b, c
<1>6. s \o (a \o b) = (s \o a) \o b
  BY <1>1, <1>4, Associated DEF Associates
<1>7. State((s \o a) \o b, s \o a, Front(open))
  BY <1>2 DEF a, b
<1>8. Stripped(out') = s \o a /\ GenInv'
  BY <1>1, <1>5, <1>6, <1>7, Settled
<1>9. s \o a = Append(s, c)
  BY <1>1, <1>2, AppendIsConcat DEF a
<1>10. Writer!Front(open) = Front(open)
  BY DEF Writer!Front, Front
<1>11. Writer!Inside = m
  BY <1>1, Expected
<1>12. QED BY <1>8, <1>9, <1>10, <1>11 DEF Writer!End, s, c, ClosingOf

\* s_json_gen_done returns the text: it is valid.
LEMMA DoneStep ==
  ASSUME GenAssumption, GenInv, Done
  PROVE  GenInv' /\ Writer!Done
<1>1. SyntaxAssumption
  BY DEF GenAssumption
<1>2. /\ result = << >> /\ open = << >> /\ out # << >> /\ out' = out /\ open' = open
      /\ result' = IF IsValid(Stripped(out)) THEN Stripped(out) ELSE <<"NULL">>
  BY DEF Done
<1>3. IsValid(Stripped(out)) /\ Stripped(out) # << >>
  BY <1>1, <1>2, WholeText, StateIs DEF GenInv
<1>4. GenInv'
  BY <1>2 DEF GenInv
<1>5. QED BY <1>2, <1>3, <1>4 DEF Writer!Done

\* Every call keeps the invariant and is a step of the writer.
LEMMA GenStep ==
  ASSUME GenAssumption, GenInv, [GenNext]_genVars
  PROVE  GenInv' /\ [Writer!Next]_(Writer!vars)
<1>1. CASE UNCHANGED genVars
  BY <1>1 DEF genVars, GenInv, Writer!vars
<1>2. ASSUME NEW v \in Values \cup {Missing}, GenJson(v)
      PROVE  GenInv' /\ Writer!Next
  BY <1>2, JsonStep DEF Writer!Next
<1>3. ASSUME NEW v \in Values \cup {Missing}, NEW name \in MemberNames, MemberJson(name, v)
      PROVE  GenInv' /\ Writer!Next
  <2>1. PICK x \in Values \cup {Null} : Writer!Member(name, x)
    BY <1>3, MemberStep
  <2>2. QED BY <1>3, <2>1, MemberStep DEF Writer!Next
<1>4. ASSUME NEW m \in Marks, Writer!Start(m) PROVE Writer!Next
  BY <1>4 DEF Writer!Next, Marks
<1>5. ASSUME NEW m \in Marks, Writer!End(m) PROVE Writer!Next
  BY <1>5 DEF Writer!Next, Marks
<1>6. ASSUME NEW m \in Marks, NEW name \in MemberNames, Writer!StartMember(name, m) PROVE Writer!Next
  BY <1>6 DEF Writer!Next, Marks
<1>7. "{" \in Marks /\ "[" \in Marks
  BY DEF Marks
<1>8. CASE StartObject
  <2>1. /\ Busy /\ ValueExpected
        /\ out' = Append(out, "{") /\ open' = Append(open, "{") /\ result' = result
    BY <1>8 DEF StartObject
  <2>2. QED BY <1>4, <1>7, <2>1, StartStep
<1>9. CASE StartArray
  <2>1. /\ Busy /\ ValueExpected
        /\ out' = Append(out, "[") /\ open' = Append(open, "[") /\ result' = result
    BY <1>9 DEF StartArray
  <2>2. QED BY <1>4, <1>7, <2>1, StartStep
<1>10. ASSUME NEW name \in MemberNames, MemberObject(name) PROVE GenInv' /\ Writer!Next
  <2>1. /\ Busy /\ Inside = "{" /\ out' = Append(WithName(out, name), "{")
        /\ open' = Append(open, "{") /\ result' = result
    BY <1>10 DEF MemberObject
  <2>2. QED BY <1>6, <1>7, <2>1, MemberStartStep
<1>11. ASSUME NEW name \in MemberNames, MemberArray(name) PROVE GenInv' /\ Writer!Next
  <2>1. /\ Busy /\ Inside = "{" /\ out' = Append(WithName(out, name), "[")
        /\ open' = Append(open, "[") /\ result' = result
    BY <1>11 DEF MemberArray
  <2>2. QED BY <1>6, <1>7, <2>1, MemberStartStep
<1>12. CASE EndObject
  <2>1. ClosingOf("{") = "}"
    BY DEF ClosingOf
  <2>2. /\ result = << >> /\ Inside = "{" /\ open' = Front(open) /\ result' = result
        /\ out' = Stripped(out) \o <<ClosingOf("{"), CommaToken>>
    BY <1>12, <2>1 DEF EndObject, CommaToken
  <2>3. QED BY <1>5, <1>7, <2>2, EndStep
<1>13. CASE EndArray
  <2>1. ClosingOf("[") = "]"
    BY DEF ClosingOf
  <2>2. /\ result = << >> /\ Inside = "[" /\ open' = Front(open) /\ result' = result
        /\ out' = Stripped(out) \o <<ClosingOf("["), CommaToken>>
    BY <1>13, <2>1 DEF EndArray, CommaToken
  <2>3. QED BY <1>5, <1>7, <2>2, EndStep
<1>14. CASE Done
  BY <1>14, DoneStep DEF Writer!Next
<1>15. QED
  BY <1>1, <1>2, <1>3, <1>8, <1>9, <1>10, <1>11, <1>12, <1>13, <1>14 DEF GenNext

\* s_json_gen_new starts with nothing written and nothing open.
LEMMA GenStart ==
  ASSUME GenAssumption, GenInit
  PROVE  GenInv /\ Writer!Init
<1> DEFINE none == << >>
<1>1. out = none /\ open = none /\ result = none
  BY DEF GenInit
<1>2. Stripped(none) = none /\ none \in Seq(Tokens) /\ none \in Seq(Marks)
  BY StrippedIs
<1>3. Sep(none) = none
  BY DEF Sep, Comma
<1>4. none \o Sep(none) = none
  BY <1>2, <1>3, ConcatEmptySeq
<1>5. Framed(none, none)
  BY DEF Framed
<1> HIDE DEF none
<1>6. State(none, none, none)
  BY <1>2, <1>4, <1>5 DEF State
<1>7. QED BY <1>1, <1>2, <1>6 DEF GenInv, Writer!Init, none

\* At every moment, whatever the nesting, the text is one that the parser reads up to
\* its end with just the caller's containers still open, and a comma is behind it
\* exactly where one would be needed (s_json_gen_* and strip_comma in libtools/sjson.c).
THEOREM TextIsFramed ==
  ASSUME GenAssumption
  PROVE  GenSpec => []GenInv
<1>1. GenInit => GenInv
  BY GenStart
<1>2. GenInv /\ [GenNext]_genVars => GenInv'
  BY GenStep
<1>3. QED BY <1>1, <1>2, PTL DEF GenSpec

\* The generator writes what JsonWriter promises for any values that are JSON texts and
\* any names: commas that are written behind and taken back give commas in front, and
\* s_json_is_valid never refuses what calls that nest have written.
THEOREM GeneratorKeepsPromise ==
  ASSUME GenAssumption
  PROVE  GenSpec => WritesAsPromised
<1>1. GenInit => Writer!Init
  BY GenStart
<1>2. GenInv /\ [GenNext]_genVars => [Writer!Next]_(Writer!vars)
  BY GenStep
<1>3. GenSpec => []GenInv
  BY TextIsFramed
<1>4. QED BY <1>1, <1>2, <1>3, PTL DEF GenSpec, WritesAsPromised, Writer!Spec
=============================================================================
