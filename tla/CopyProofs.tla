----------------------------- MODULE CopyProofs -----------------------------
(***************************************************************************)
(* Proofs about Copy and LinkDownload, for directories of any depth and    *)
(* any number of nodes, links, failures and files the user adds; and about *)
(* the paths they are copied by, for paths of any length.                  *)
(***************************************************************************)
EXTENDS Copy, LinkDownload, FiniteSetTheorems, SequenceTheorems, WellFoundedInduction, TLAPS

-----------------------------------------------------------------------------
(* Induction over the natural numbers, about a set.                         *)

\* The order the induction is along.
Less == OpToRel(<, Nat)

\* A set of numbers that is not empty has a smallest.
LEMMA Smallest ==
  ASSUME NEW M \in SUBSET Nat, M # {}
  PROVE  \E m \in M : \A k \in M : m <= k
<1>1. PICK m \in M : \A k \in M : <<k, m>> \notin Less
  BY NatLessThanWellFounded, WFMin DEF Less
<1>2. ASSUME NEW k \in M PROVE m <= k
  <2>1. k \in Nat /\ m \in Nat
    OBVIOUS
  <2>2. ~(k < m)
    BY <1>1, <2>1 DEF Less, OpToRel
  <2> QED BY <2>1, <2>2
<1> QED BY <1>2

\* A set that holds 0 and with each number the next holds all of them.
LEMMA Induct ==
  ASSUME NEW T \in SUBSET Nat, 0 \in T, \A n \in T : n + 1 \in T
  PROVE  T = Nat
<1> DEFINE M == {n \in Nat : n \notin T}
<1>1. SUFFICES ASSUME M # {} PROVE FALSE
  OBVIOUS
<1>2. PICK m \in M : \A k \in M : m <= k
  <2>1. M \in SUBSET Nat
    OBVIOUS
  <2> HIDE DEF M
  <2> QED BY <1>1, <2>1, Smallest
<1>3. m \in Nat /\ m # 0 /\ m \notin T
  BY <1>2
<1>4. m - 1 \in Nat /\ m - 1 < m /\ (m - 1) + 1 = m
  BY <1>3
<1>5. m - 1 \in T
  BY <1>2, <1>4
<1> QED BY <1>3, <1>4, <1>5

\* The largest of some numbers up to n.
LEMMA Largest ==
  ASSUME NEW n \in Nat, NEW t \in SUBSET (1 .. n), t # {}
  PROVE  /\ Max(t) \in t /\ \A k \in t : k <= Max(t)
         /\ n \in t => Max(t) = n
<1>1. \E m \in t : \A k \in t : m >= k
  <2> DEFINE M == {n - k : k \in t}
  <2>1. M \in SUBSET Nat /\ M # {}
    <3>1. \A k \in t : n - k \in Nat
      OBVIOUS
    <3> QED BY <3>1
  <2>2. PICK d \in M : \A e \in M : d <= e
    <3> HIDE DEF M
    <3> QED BY <2>1, Smallest
  <2>3. PICK m \in t : d = n - m
    OBVIOUS
  <2>4. ASSUME NEW k \in t PROVE m >= k
    <3>1. n - k \in M /\ m \in 1 .. n /\ k \in 1 .. n
      OBVIOUS
    <3>2. n - m <= n - k
      BY <2>2, <2>3, <3>1
    <3> QED BY <3>1, <3>2
  <2> QED BY <2>4
<1>2. Max(t) \in t /\ \A k \in t : Max(t) >= k
  BY <1>1 DEF Max
<1>3. \A k \in t : k \in Nat /\ k <= n
  OBVIOUS
<1>4. Max(t) \in Nat /\ Max(t) <= n
  BY <1>2, <1>3
<1>5. \A k \in t : k <= Max(t)
  BY <1>2, <1>3, <1>4
<1>6. n \in t => Max(t) = n
  BY <1>4, <1>5
<1> QED BY <1>2, <1>5, <1>6

-----------------------------------------------------------------------------
(* Folds.  A fold goes through the sets 1 .. k of the places of a list; the *)
(* operation is a function G here.                                          *)

\* An operation on results of D and elements of C, and a result to begin with.
FoldOp(D, C, G, base) == G \in [D \X C -> D] /\ base \in D

\* What f says of the first k places, as long as it stays in D.
IsFold(f, D, G, base, s) ==
    /\ f[1 .. 0] = base
    /\ \A k \in 0 .. Len(s) - 1 : f[1 .. k] \in D => f[1 .. k + 1] = G[<<f[1 .. k], s[k + 1]>>]

\* What a fold of the whole list ends with.
Folded(D, G, base, s) == LET f == CHOOSE f : IsFold(f, D, G, base, s) IN f[1 .. Len(s)]

\* The function by which the fold operators of the library are defined, where it
\* stays in the range of the operation.
FoldsAll(f, D, G, base, s) ==
    \A t \in SUBSET (1 .. Len(s)) :
        /\ t = {} => f[t] = base
        /\ t # {} /\ f[t \ {Max(t)}] \in D => f[t] = G[<<f[t \ {Max(t)}], s[Max(t)]>>]

\* There is such a function for each list.
LEMMA FoldExists ==
  ASSUME NEW D, NEW C, NEW G, NEW base, FoldOp(D, C, G, base), NEW s \in Seq(C)
  PROVE  \E f \in [SUBSET (1 .. Len(s)) -> D] : FoldsAll(f, D, G, base, s)
<1> DEFINE Upto(k, f) == \A t \in SUBSET (1 .. k) :
                             f[t] = IF t = {} THEN base ELSE G[<<f[t \ {Max(t)}], s[Max(t)]>>]
           Ex(k) == \E f \in [SUBSET (1 .. k) -> D] : Upto(k, f)
           T == {k \in Nat : k <= Len(s) => Ex(k)}
<1>1. Ex(0)
  <2> DEFINE f == [t \in SUBSET (1 .. 0) |-> base]
  <2>1. f \in [SUBSET (1 .. 0) -> D]
    BY DEF FoldOp
  <2>2. \A t \in SUBSET (1 .. 0) : t = {} /\ f[t] = base
    OBVIOUS
  <2>3. Upto(0, f)
    <3> HIDE DEF f
    <3> QED BY <2>2
  <2> QED BY <2>1, <2>3
<1>2. ASSUME NEW k \in Nat, k + 1 <= Len(s), Ex(k) PROVE Ex(k + 1)
  <2>2. k + 1 \in 1 .. Len(s) /\ s[k + 1] \in C
    BY <1>2
  <2>3. PICK f \in [SUBSET (1 .. k) -> D] : Upto(k, f)
    BY <1>2
  <2> DEFINE g == [t \in SUBSET (1 .. k + 1) |->
                      IF k + 1 \in t THEN G[<<f[t \ {k + 1}], s[k + 1]>>] ELSE f[t]]
  <2>4. \A t \in SUBSET (1 .. k + 1) : t \ {k + 1} \in SUBSET (1 .. k) /\ (k + 1 \notin t => t \in SUBSET (1 .. k))
    BY <2>2
  <2>5. g \in [SUBSET (1 .. k + 1) -> D]
    BY <2>2, <2>4 DEF FoldOp
  <2>6. ASSUME NEW t \in SUBSET (1 .. k + 1)
        PROVE  g[t] = IF t = {} THEN base ELSE G[<<g[t \ {Max(t)}], s[Max(t)]>>]
    <3>1. CASE k + 1 \in t
      <4>1. Max(t) = k + 1
        BY <2>2, <3>1, Largest
      <4>2. g[t \ {k + 1}] = f[t \ {k + 1}]
        BY <2>2, <2>4
      <4>3. g[t] = G[<<f[t \ {k + 1}], s[k + 1]>>]
        BY <3>1
      <4> QED BY <3>1, <4>1, <4>2, <4>3
    <3>2. CASE k + 1 \notin t
      <4>1. t \in SUBSET (1 .. k) /\ t \ {Max(t)} \in SUBSET (1 .. k) /\ k + 1 \notin t \ {Max(t)}
        BY <2>4, <3>2
      <4>2. g[t] = f[t] /\ g[t \ {Max(t)}] = f[t \ {Max(t)}]
        BY <2>2, <3>2, <4>1
      <4> HIDE DEF g
      <4> QED BY <2>3, <4>1, <4>2
    <3> QED BY <3>1, <3>2
  <2> HIDE DEF g
  <2> QED BY <2>5, <2>6
<1>3. Ex(Len(s))
  <2> HIDE DEF Ex
  <2>1. T \in SUBSET Nat /\ Len(s) \in Nat
    OBVIOUS
  <2>2. 0 \in T
    BY <1>1
  <2>3. ASSUME NEW k \in T PROVE k + 1 \in T
    BY <1>2
  <2>4. T = Nat
    <3> HIDE DEF T
    <3> QED BY <2>1, <2>2, <2>3, Induct
  <2> QED BY <2>1, <2>4
<1> QED BY <1>3 DEF FoldsAll

\* It goes through the places one after the other.
LEMMA FoldsAllIsFold ==
  ASSUME NEW D, NEW C, NEW G, NEW base, FoldOp(D, C, G, base), NEW s \in Seq(C),
         NEW f, FoldsAll(f, D, G, base, s)
  PROVE  IsFold(f, D, G, base, s)
<1>1. f[1 .. 0] = base
  <2>1. 1 .. 0 = {} /\ 1 .. 0 \in SUBSET (1 .. Len(s))
    OBVIOUS
  <2> QED BY <2>1 DEF FoldsAll
<1>2. ASSUME NEW k \in 0 .. Len(s) - 1, f[1 .. k] \in D PROVE f[1 .. k + 1] = G[<<f[1 .. k], s[k + 1]>>]
  <2>1. k \in Nat /\ k + 1 <= Len(s) /\ k + 1 \in 1 .. k + 1 /\ k + 1 \in Nat
    OBVIOUS
  <2>2. Max(1 .. k + 1) = k + 1
    <3>1. 1 .. k + 1 \in SUBSET (1 .. k + 1) /\ 1 .. k + 1 # {}
      BY <2>1
    <3> QED BY <2>1, <3>1, Largest
  <2>3. (1 .. k + 1) \ {k + 1} = 1 .. k
    BY <2>1
  <2>4. 1 .. k + 1 \in SUBSET (1 .. Len(s)) /\ 1 .. k + 1 # {}
    <3>1. \A j \in 1 .. k + 1 : j \in 1 .. Len(s)
      BY <2>1
    <3> QED BY <2>1, <3>1
  <2> QED BY <1>2, <2>2, <2>3, <2>4 DEF FoldsAll
<1> QED BY <1>1, <1>2 DEF IsFold

\* Two folds agree, and stay in the range of the operation; the second may be of
\* a longer list.
LEMMA FoldsAgree ==
  ASSUME NEW D, NEW C, NEW G, NEW base, FoldOp(D, C, G, base), NEW s \in Seq(C), NEW u \in Seq(C),
         Len(s) <= Len(u), \A k \in 1 .. Len(s) : u[k] = s[k],
         NEW f, IsFold(f, D, G, base, s), NEW g, IsFold(g, D, G, base, u)
  PROVE  \A k \in 0 .. Len(s) : f[1 .. k] = g[1 .. k] /\ f[1 .. k] \in D
<1> DEFINE T == {k \in Nat : k <= Len(s) => f[1 .. k] = g[1 .. k] /\ f[1 .. k] \in D}
<1>1. 0 \in T
  BY DEF IsFold, FoldOp
<1>2. ASSUME NEW k \in T PROVE k + 1 \in T
  <2>1. SUFFICES ASSUME k + 1 <= Len(s)
                 PROVE  f[1 .. k + 1] = g[1 .. k + 1] /\ f[1 .. k + 1] \in D
    OBVIOUS
  <2>2. k \in 0 .. Len(s) - 1 /\ k \in 0 .. Len(u) - 1 /\ k + 1 \in 1 .. Len(s) /\ s[k + 1] \in C
    BY <2>1
  <2>3. f[1 .. k] = g[1 .. k] /\ f[1 .. k] \in D
    BY <2>2
  <2>4. f[1 .. k + 1] = G[<<f[1 .. k], s[k + 1]>>]
    BY <2>2, <2>3 DEF IsFold
  <2>5. g[1 .. k + 1] = G[<<g[1 .. k], u[k + 1]>>]
    BY <2>2, <2>3 DEF IsFold
  <2>6. u[k + 1] = s[k + 1]
    BY <2>2
  <2> QED BY <2>2, <2>3, <2>4, <2>5, <2>6 DEF FoldOp
<1>3. T = Nat
  <2>1. T \in SUBSET Nat
    OBVIOUS
  <2> HIDE DEF T
  <2> QED BY <1>1, <1>2, <2>1, Induct
<1>4. QED BY <1>3

\* Any fold gives the same.
LEMMA FoldedIs ==
  ASSUME NEW D, NEW C, NEW G, NEW base, FoldOp(D, C, G, base), NEW s \in Seq(C),
         NEW f, IsFold(f, D, G, base, s)
  PROVE  f[1 .. Len(s)] = Folded(D, G, base, s) /\ Folded(D, G, base, s) \in D
<1> DEFINE g == CHOOSE g : IsFold(g, D, G, base, s)
<1>1. IsFold(g, D, G, base, s)
  OBVIOUS
<1>2. Folded(D, G, base, s) = g[1 .. Len(s)]
  BY DEF Folded
<1>3. Len(s) \in 0 .. Len(s) /\ Len(s) <= Len(s)
  OBVIOUS
<1> HIDE DEF g
<1>4. f[1 .. Len(s)] = g[1 .. Len(s)] /\ f[1 .. Len(s)] \in D
  BY <1>1, <1>3, FoldsAgree
<1> QED BY <1>2, <1>4

\* A fold of nothing, and of a list with one more element.
LEMMA FoldedAppend ==
  ASSUME NEW D, NEW C, NEW G, NEW base, FoldOp(D, C, G, base)
  PROVE  /\ Folded(D, G, base, << >>) = base
         /\ \A s \in Seq(C) : Folded(D, G, base, s) \in D
         /\ \A s \in Seq(C), c \in C :
               Folded(D, G, base, Append(s, c)) = G[<<Folded(D, G, base, s), c>>]
<1>1. ASSUME NEW s \in Seq(C) PROVE \E f : IsFold(f, D, G, base, s)
  <2>1. PICK f \in [SUBSET (1 .. Len(s)) -> D] : FoldsAll(f, D, G, base, s)
    BY FoldExists
  <2> QED BY <2>1, FoldsAllIsFold
<1>2. Folded(D, G, base, << >>) = base
  <2>1. ASSUME NEW e \in Seq(C), Len(e) = 0 PROVE Folded(D, G, base, e) = base
    <3>1. PICK f : IsFold(f, D, G, base, e)
      BY <1>1
    <3>2. f[1 .. Len(e)] = Folded(D, G, base, e)
      BY <3>1, FoldedIs
    <3> QED BY <2>1, <3>1, <3>2 DEF IsFold
  <2>2. << >> \in Seq(C) /\ Len(<< >>) = 0
    OBVIOUS
  <2> QED BY <2>1, <2>2
<1>3. ASSUME NEW s \in Seq(C) PROVE Folded(D, G, base, s) \in D
  BY <1>1, FoldedIs
<1>4. ASSUME NEW s \in Seq(C), NEW c \in C
      PROVE  Folded(D, G, base, Append(s, c)) = G[<<Folded(D, G, base, s), c>>]
  <2> DEFINE u == Append(s, c)
  <2>1. u \in Seq(C) /\ Len(u) = Len(s) + 1 /\ u[Len(s) + 1] = c /\ \A k \in 1 .. Len(s) : u[k] = s[k]
    OBVIOUS
  <2> HIDE DEF u
  <2>2. PICK f : IsFold(f, D, G, base, s)
    BY <1>1
  <2>3. PICK g : IsFold(g, D, G, base, u)
    BY <1>1, <2>1
  <2>4. Len(s) \in 0 .. Len(s) /\ Len(s) \in 0 .. Len(u) - 1 /\ Len(s) <= Len(u)
    BY <2>1
  <2>5. f[1 .. Len(s)] = g[1 .. Len(s)] /\ f[1 .. Len(s)] \in D
    BY <2>1, <2>2, <2>3, <2>4, FoldsAgree
  <2>6. f[1 .. Len(s)] = Folded(D, G, base, s) /\ g[1 .. Len(u)] = Folded(D, G, base, u)
    <3>1. f[1 .. Len(s)] = Folded(D, G, base, s)
      BY <2>2, FoldedIs
    <3>2. g[1 .. Len(u)] = Folded(D, G, base, u)
      BY <2>1, <2>3, FoldedIs
    <3> QED BY <3>1, <3>2
  <2>7. g[1 .. Len(s) + 1] = G[<<g[1 .. Len(s)], u[Len(s) + 1]>>]
    BY <2>3, <2>4, <2>5 DEF IsFold
  <2> QED BY <2>1, <2>5, <2>6, <2>7 DEF u
<1> QED BY <1>2, <1>3, <1>4

\* The largest of some places of a list is one of them, and leaves others.
LEMMA LastPlace ==
  ASSUME NEW C, NEW s \in Seq(C), NEW t \in SUBSET (1 .. Len(s)), t # {}
  PROVE  s[Max(t)] \in C /\ t \ {Max(t)} \in SUBSET (1 .. Len(s))
<1>1. Max(t) \in 1 .. Len(s)
  <2>1. Len(s) \in Nat
    OBVIOUS
  <2>2. Max(t) \in t
    BY <2>1, Largest
  <2> QED BY <2>2
<1> DEFINE m == Max(t)
<1> HIDE DEF m
<1>2. m \in 1 .. Len(s) => s[m] \in C
  OBVIOUS
<1>3. t \ {m} \in SUBSET (1 .. Len(s))
  OBVIOUS
<1> QED BY <1>1, <1>2, <1>3 DEF m

-----------------------------------------------------------------------------
(* Paths without runs of slashes.                                           *)

\* OneSlash's operation, and as a function on paths of S.
SlashStep(done, c) ==
    IF c = Slash /\ done # << >> /\ Last(done) = Slash THEN done ELSE Append(done, c)

SlashFold(S) == [x \in Seq(S) \X S |-> SlashStep(x[1], x[2])]

\* OneSlash is a fold of sequences.
LEMMA OneSlashIs ==
  ASSUME NEW S, NEW path \in Seq(S)
  PROVE  /\ FoldOp(Seq(S), S, SlashFold(S), << >>)
         /\ OneSlash(path) = Folded(Seq(S), SlashFold(S), << >>, path)
<1> DEFINE D == Seq(S)
           G == SlashFold(S)
           Is(f) == f = [t \in SUBSET DOMAIN path |->
                            IF t = {} THEN << >> ELSE SlashStep(f[t \ {Max(t)}], path[Max(t)])]
<1>1. OneSlash(path) = (CHOOSE f : Is(f))[DOMAIN path]
  BY DEF OneSlash, FoldLeft, MapThenFoldSet, SlashStep
<1>2. DOMAIN path = 1 .. Len(path)
  OBVIOUS
<1>3. /\ FoldOp(D, S, G, << >>)
      /\ \A d \in D, c \in S : G[<<d, c>>] = SlashStep(d, c)
  <2>1. \A d \in D, c \in S : SlashStep(d, c) \in D
    BY DEF SlashStep
  <2>2. G \in [D \X S -> D]
    BY <2>1 DEF SlashFold
  <2>3. \A d \in D, c \in S : G[<<d, c>>] = SlashStep(d, c)
    BY DEF SlashFold
  <2> QED BY <2>2, <2>3 DEF FoldOp
<1> HIDE DEF D, G
<1>4. \E f : Is(f)
  <2>1. PICK f \in [SUBSET (1 .. Len(path)) -> D] : FoldsAll(f, D, G, << >>, path)
    BY <1>3, FoldExists
  <2>2. \A t \in SUBSET DOMAIN path :
          f[t] = IF t = {} THEN << >> ELSE SlashStep(f[t \ {Max(t)}], path[Max(t)])
    BY <1>2, <1>3, <2>1, LastPlace DEF FoldsAll
  <2>3. Is(f)
    BY <1>2, <2>1, <2>2
  <2> QED BY <2>3
<1>5. PICK f : Is(f) /\ OneSlash(path) = f[DOMAIN path]
  BY <1>1, <1>4
<1>6. FoldsAll(f, D, G, << >>, path)
  <2>1. \A t \in SUBSET (1 .. Len(path)) :
          f[t] = IF t = {} THEN << >> ELSE SlashStep(f[t \ {Max(t)}], path[Max(t)])
    BY <1>2, <1>5
  <2> QED BY <1>3, <2>1, LastPlace DEF FoldsAll
<1>7. OneSlash(path) = Folded(D, G, << >>, path)
  <2>1. IsFold(f, D, G, << >>, path)
    BY <1>3, <1>6, FoldsAllIsFold
  <2>2. f[1 .. Len(path)] = Folded(D, G, << >>, path)
    BY <1>3, <2>1, FoldedIs
  <2> QED BY <1>2, <1>5, <2>2
<1> QED BY <1>3, <1>7 DEF D, G

\* What OneSlash does with one more symbol.
LEMMA OneSlashAppend ==
  ASSUME NEW S
  PROVE  /\ \A path \in Seq(S) : OneSlash(path) \in Seq(S)
         /\ \A path \in Seq(S), c \in S : OneSlash(Append(path, c)) = SlashStep(OneSlash(path), c)
<1> DEFINE G == SlashFold(S)
<1>1. FoldOp(Seq(S), S, G, << >>)
  <2>1. << >> \in Seq(S)
    OBVIOUS
  <2> QED BY <2>1, OneSlashIs
<1>2. \A path \in Seq(S) : OneSlash(path) = Folded(Seq(S), G, << >>, path)
  BY OneSlashIs
<1>3. \A d \in Seq(S), c \in S : G[<<d, c>>] = SlashStep(d, c)
  BY DEF SlashFold
<1> HIDE DEF G
<1>4. \A path \in Seq(S) : OneSlash(path) \in Seq(S)
  BY <1>1, <1>2, FoldedAppend
<1>5. ASSUME NEW path \in Seq(S), NEW c \in S
      PROVE  OneSlash(Append(path, c)) = SlashStep(OneSlash(path), c)
  <2>1. Append(path, c) \in Seq(S)
    OBVIOUS
  <2>2. Folded(Seq(S), G, << >>, Append(path, c)) = G[<<Folded(Seq(S), G, << >>, path), c>>]
    BY <1>1, FoldedAppend
  <2> QED BY <1>2, <1>3, <1>4, <2>1, <2>2
<1> QED BY <1>4, <1>5

-----------------------------------------------------------------------------
(* The elements of a path.                                                  *)

\* Split's operation.
SplitStep(done, c) ==
    IF c = Slash THEN Append(done, Empty) ELSE [done EXCEPT ![Len(done)] = c]

\* Lists of elements, of which there is always one.
Lists(S) == {d \in Seq(S \cup {Empty}) : d # << >>}

\* The same as a function, and what Split makes of a path.
SplitFold(S) == [x \in Lists(S) \X S |-> SplitStep(x[1], x[2])]

Pieces(S, path) == Folded(Lists(S), SplitFold(S), <<Empty>>, path)

\* The steps of Split stay among the lists.
LEMMA SplitFoldTyped ==
  ASSUME NEW S
  PROVE  /\ FoldOp(Lists(S), S, SplitFold(S), <<Empty>>)
         /\ \A d \in Lists(S), c \in S : SplitFold(S)[<<d, c>>] = SplitStep(d, c)
<1> DEFINE D == Lists(S)
           G == SplitFold(S)
<1>1. \A d \in D, c \in S : SplitStep(d, c) \in D
  <2>1. SUFFICES ASSUME NEW d \in D, NEW c \in S PROVE SplitStep(d, c) \in D
    OBVIOUS
  <2>2. d \in Seq(S \cup {Empty}) /\ d # << >> /\ Len(d) \in 1 .. Len(d)
    BY DEF Lists
  <2>3. Append(d, Empty) \in D
    BY <2>2 DEF Lists
  <2>4. [d EXCEPT ![Len(d)] = c] \in Seq(S \cup {Empty}) /\ [d EXCEPT ![Len(d)] = c] # << >>
    BY <2>2, ExceptSeq
  <2> QED BY <2>3, <2>4 DEF SplitStep, Lists
<1>2. G \in [D \X S -> D]
  BY <1>1 DEF SplitFold
<1>3. <<Empty>> \in D
  BY DEF Lists
<1>4. \A d \in D, c \in S : G[<<d, c>>] = SplitStep(d, c)
  BY DEF SplitFold
<1> QED BY <1>2, <1>3, <1>4 DEF FoldOp

\* Split is a fold of lists of elements.
LEMMA SplitIs ==
  ASSUME NEW S, NEW path \in Seq(S), path # << >>
  PROVE  Split(path) = Pieces(S, path)
<1> DEFINE D == Lists(S)
           G == SplitFold(S)
           Is(f) == f = [t \in SUBSET DOMAIN path |->
                            IF t = {} THEN <<Empty>> ELSE SplitStep(f[t \ {Max(t)}], path[Max(t)])]
<1>1. Split(path) = (CHOOSE f : Is(f))[DOMAIN path]
  BY DEF Split, FoldLeft, MapThenFoldSet, SplitStep
<1>2. DOMAIN path = 1 .. Len(path)
  OBVIOUS
<1>3. /\ FoldOp(D, S, G, <<Empty>>)
      /\ \A d \in D, c \in S : G[<<d, c>>] = SplitStep(d, c)
  BY SplitFoldTyped
<1> HIDE DEF D, G
<1>4. \E f : Is(f)
  <2>1. PICK f \in [SUBSET (1 .. Len(path)) -> D] : FoldsAll(f, D, G, <<Empty>>, path)
    BY <1>3, FoldExists
  <2>2. \A t \in SUBSET DOMAIN path :
          f[t] = IF t = {} THEN <<Empty>> ELSE SplitStep(f[t \ {Max(t)}], path[Max(t)])
    BY <1>2, <1>3, <2>1, LastPlace DEF FoldsAll
  <2>3. Is(f)
    BY <1>2, <2>1, <2>2
  <2> QED BY <2>3
<1>5. PICK f : Is(f) /\ Split(path) = f[DOMAIN path]
  BY <1>1, <1>4
<1>6. FoldsAll(f, D, G, <<Empty>>, path)
  <2>1. \A t \in SUBSET (1 .. Len(path)) :
          f[t] = IF t = {} THEN <<Empty>> ELSE SplitStep(f[t \ {Max(t)}], path[Max(t)])
    BY <1>2, <1>5
  <2> QED BY <1>3, <2>1, LastPlace DEF FoldsAll
<1>7. Split(path) = Folded(D, G, <<Empty>>, path)
  <2>1. IsFold(f, D, G, <<Empty>>, path)
    BY <1>3, <1>6, FoldsAllIsFold
  <2>2. f[1 .. Len(path)] = Folded(D, G, <<Empty>>, path)
    BY <1>3, <2>1, FoldedIs
  <2> QED BY <1>2, <1>5, <2>2
<1> QED BY <1>7 DEF Pieces, D, G

\* One more symbol.
LEMMA PiecesAppend ==
  ASSUME NEW S
  PROVE  /\ Pieces(S, << >>) = <<Empty>>
         /\ \A path \in Seq(S) : Pieces(S, path) \in Lists(S)
         /\ \A path \in Seq(S), c \in S : Pieces(S, Append(path, c)) = SplitStep(Pieces(S, path), c)
<1>1. FoldOp(Lists(S), S, SplitFold(S), <<Empty>>)
  BY SplitFoldTyped
<1>2. \A path \in Seq(S) : Pieces(S, path) \in Lists(S)
  BY <1>1, FoldedAppend DEF Pieces
<1>3. Pieces(S, << >>) = <<Empty>>
  BY <1>1, FoldedAppend DEF Pieces
<1>4. ASSUME NEW path \in Seq(S), NEW c \in S
      PROVE  Pieces(S, Append(path, c)) = SplitStep(Pieces(S, path), c)
  <2>1. Pieces(S, Append(path, c)) = SplitFold(S)[<<Pieces(S, path), c>>]
    BY <1>1, FoldedAppend DEF Pieces
  <2> QED BY <1>2, <2>1, SplitFoldTyped
<1> QED BY <1>2, <1>3, <1>4

-----------------------------------------------------------------------------
(* The elements without "." and "..".                                       *)

\* Simplified's operation on one element.
TakeStep(absolute, acc, e) ==
    IF e = Dot THEN acc
    ELSE IF e = DotDot THEN Up(acc, absolute)
    ELSE [acc EXCEPT !.out = Append(@, e)]

\* What Simplified holds on its way, the operation as a function, and where it begins.
Taken(S) == [out : Seq(S), subroot : Nat]

TakeFold(S, absolute) == [x \in Taken(S) \X S |-> TakeStep(absolute, x[1], x[2])]

Nothing == [out |-> << >>, subroot |-> 0]

\* The elements of a path that begins with a slash.
IsAbsolute(elements) == Len(elements) > 1 /\ Head(elements) = Empty

\* The steps of Simplified stay in their range.
LEMMA TakeFoldTyped ==
  ASSUME NEW S, DotDot \in S, NEW absolute
  PROVE  /\ FoldOp(Taken(S), S, TakeFold(S, absolute), Nothing)
         /\ \A d \in Taken(S), c \in S : TakeFold(S, absolute)[<<d, c>>] = TakeStep(absolute, d, c)
<1> DEFINE D == Taken(S)
           G == TakeFold(S, absolute)
<1>1. ASSUME NEW d \in D, NEW c \in S PROVE TakeStep(absolute, d, c) \in D
  <2>1. d.out \in Seq(S) /\ d.subroot \in Nat
    BY DEF Taken
  <2>2. ASSUME NEW out \in Seq(S), NEW sub \in Nat
        PROVE  [d EXCEPT !.out = out] \in D /\ [d EXCEPT !.out = out, !.subroot = sub] \in D
    BY DEF Taken
  <2>3. Append(d.out, c) \in Seq(S) /\ Append(d.out, DotDot) \in Seq(S) /\ d.subroot + 1 \in Nat
    BY <2>1
  <2>4. Len(d.out) > 0 => Front(d.out) \in Seq(S)
    BY <2>1 DEF Front
  <2>5. Len(d.out) \in Nat
    BY <2>1
  <2>6. Up(d, absolute) \in D
    <3>1. [d EXCEPT !.out = IF Len(@) > 1 THEN Front(@) ELSE @] \in D
      <4>1. (IF Len(d.out) > 1 THEN Front(d.out) ELSE d.out) \in Seq(S)
        BY <2>1, <2>4, <2>5
      <4>2. [d EXCEPT !.out = IF Len(@) > 1 THEN Front(@) ELSE @]
              = [d EXCEPT !.out = IF Len(d.out) > 1 THEN Front(d.out) ELSE d.out]
        OBVIOUS
      <4> QED BY <2>2, <4>1, <4>2
    <3>2. [d EXCEPT !.out = Append(@, DotDot)] \in D
      BY <2>2, <2>3
    <3>3. Len(d.out) > d.subroot => [d EXCEPT !.out = Front(@)] \in D
      <4>1. Len(d.out) > d.subroot => Front(d.out) \in Seq(S)
        BY <2>1, <2>4, <2>5
      <4> QED BY <2>2, <4>1
    <3>4. [d EXCEPT !.out = Append(@, DotDot), !.subroot = @ + 1] \in D
      BY <2>2, <2>3
    <3> QED BY <3>1, <3>2, <3>3, <3>4 DEF Up
  <2> QED BY <2>2, <2>3, <2>6 DEF TakeStep
<1>2. G \in [D \X S -> D]
  BY <1>1 DEF TakeFold
<1>3. Nothing \in D
  BY DEF Nothing, Taken
<1>4. \A d \in D, c \in S : G[<<d, c>>] = TakeStep(absolute, d, c)
  BY DEF TakeFold
<1> QED BY <1>2, <1>3, <1>4 DEF FoldOp

\* What Simplified holds at its end.
TakenFrom(S, absolute, elements) == Folded(Taken(S), TakeFold(S, absolute), Nothing, elements)

\* Simplified is a fold of what is taken.
LEMMA SimplifiedIs ==
  ASSUME NEW S, DotDot \in S, NEW elements \in Seq(S)
  PROVE  Simplified(elements) = TakenFrom(S, IsAbsolute(elements), elements).out
<1> DEFINE absolute == IsAbsolute(elements)
           D == Taken(S)
           G == TakeFold(S, absolute)
           Is(f) == f = [t \in SUBSET DOMAIN elements |->
                            IF t = {} THEN Nothing
                            ELSE TakeStep(absolute, f[t \ {Max(t)}], elements[Max(t)])]
<1>1. Simplified(elements) = (CHOOSE f : Is(f))[DOMAIN elements].out
  BY DEF Simplified, FoldLeft, MapThenFoldSet, TakeStep, IsAbsolute, Nothing
<1>2. DOMAIN elements = 1 .. Len(elements)
  OBVIOUS
<1>3. /\ FoldOp(D, S, G, Nothing)
      /\ \A d \in D, c \in S : G[<<d, c>>] = TakeStep(absolute, d, c)
  BY TakeFoldTyped
<1> HIDE DEF D, G, absolute
<1>4. \E f : Is(f)
  <2>1. PICK f \in [SUBSET (1 .. Len(elements)) -> D] : FoldsAll(f, D, G, Nothing, elements)
    BY <1>3, FoldExists
  <2>2. \A t \in SUBSET DOMAIN elements :
          f[t] = IF t = {} THEN Nothing
                 ELSE TakeStep(absolute, f[t \ {Max(t)}], elements[Max(t)])
    BY <1>2, <1>3, <2>1, LastPlace DEF FoldsAll
  <2>3. Is(f)
    BY <1>2, <2>1, <2>2
  <2> QED BY <2>3
<1>5. PICK f : Is(f) /\ Simplified(elements) = f[DOMAIN elements].out
  BY <1>1, <1>4
<1>6. FoldsAll(f, D, G, Nothing, elements)
  <2>1. \A t \in SUBSET (1 .. Len(elements)) :
          f[t] = IF t = {} THEN Nothing
                 ELSE TakeStep(absolute, f[t \ {Max(t)}], elements[Max(t)])
    BY <1>2, <1>5
  <2> QED BY <1>3, <2>1, LastPlace DEF FoldsAll
<1>7. Simplified(elements) = Folded(D, G, Nothing, elements).out
  <2>1. IsFold(f, D, G, Nothing, elements)
    BY <1>3, <1>6, FoldsAllIsFold
  <2>2. f[1 .. Len(elements)] = Folded(D, G, Nothing, elements)
    BY <1>3, <2>1, FoldedIs
  <2> QED BY <1>2, <1>5, <2>2
<1> QED BY <1>7 DEF TakenFrom, D, G, absolute

\* One more element.
LEMMA TakenAppend ==
  ASSUME NEW S, DotDot \in S, NEW absolute
  PROVE  /\ TakenFrom(S, absolute, << >>) = Nothing
         /\ \A es \in Seq(S) : TakenFrom(S, absolute, es) \in Taken(S)
         /\ \A es \in Seq(S), e \in S :
               TakenFrom(S, absolute, Append(es, e)) = TakeStep(absolute, TakenFrom(S, absolute, es), e)
<1>1. FoldOp(Taken(S), S, TakeFold(S, absolute), Nothing)
  BY TakeFoldTyped
<1>2. \A es \in Seq(S) : TakenFrom(S, absolute, es) \in Taken(S)
  BY <1>1, FoldedAppend DEF TakenFrom
<1>3. TakenFrom(S, absolute, << >>) = Nothing
  BY <1>1, FoldedAppend DEF TakenFrom
<1>4. ASSUME NEW es \in Seq(S), NEW e \in S
      PROVE  TakenFrom(S, absolute, Append(es, e)) = TakeStep(absolute, TakenFrom(S, absolute, es), e)
  <2>1. TakenFrom(S, absolute, Append(es, e)) = TakeFold(S, absolute)[<<TakenFrom(S, absolute, es), e>>]
    BY <1>1, FoldedAppend DEF TakenFrom
  <2> QED BY <1>2, <2>1, TakeFoldTyped
<1> QED BY <1>2, <1>3, <1>4

-----------------------------------------------------------------------------
(* Sequences of sequences.                                                  *)

\* The operation of FlattenSeq as a function, and its fold.
ConcatFold(S) == [x \in Seq(S) \X Seq(S) |-> x[1] \o x[2]]

Flattened(S, ss) == Folded(Seq(S), ConcatFold(S), << >>, ss)

\* Putting sequences of S one after the other gives a sequence of S.
LEMMA ConcatFoldTyped ==
  ASSUME NEW S
  PROVE  /\ FoldOp(Seq(S), Seq(S), ConcatFold(S), << >>)
         /\ \A a, b \in Seq(S) : ConcatFold(S)[<<a, b>>] = a \o b
<1>1. \A a, b \in Seq(S) : a \o b \in Seq(S)
  BY ConcatProperties
<1>2. ConcatFold(S) \in [Seq(S) \X Seq(S) -> Seq(S)]
  BY <1>1 DEF ConcatFold
<1>3. \A a, b \in Seq(S) : ConcatFold(S)[<<a, b>>] = a \o b
  BY DEF ConcatFold
<1>4. << >> \in Seq(S)
  OBVIOUS
<1>5. FoldOp(Seq(S), Seq(S), ConcatFold(S), << >>)
  BY <1>2, <1>4 DEF FoldOp
<1> QED BY <1>3, <1>5

\* FlattenSeq is a fold.
LEMMA FlattenIs ==
  ASSUME NEW S, NEW ss \in Seq(Seq(S))
  PROVE  FlattenSeq(ss) = Flattened(S, ss)
<1> DEFINE n == Len(ss)
           D == Seq(S)
           G == ConcatFold(S)
           Is(f) == f = [k \in 1 .. n |-> IF k = 1 THEN ss[k] ELSE f[k - 1] \o ss[k]]
<1>1. /\ FoldOp(D, D, G, << >>)
      /\ \A a, b \in D : G[<<a, b>>] = a \o b
      /\ << >> \in D
  <2>1. << >> \in D
    OBVIOUS
  <2> QED BY <2>1, ConcatFoldTyped
<1>2. n \in Nat /\ ss \in Seq(D) /\ \A k \in 1 .. n : ss[k] \in D
  OBVIOUS
<1>3. PICK g : IsFold(g, D, G, << >>, ss)
  <2> HIDE DEF D, G
  <2>1. PICK g \in [SUBSET (1 .. Len(ss)) -> D] : FoldsAll(g, D, G, << >>, ss)
    BY <1>1, <1>2, FoldExists
  <2> QED BY <1>1, <1>2, <2>1, FoldsAllIsFold
<1>4. g[1 .. n] = Flattened(S, ss) /\ \A k \in 0 .. n : g[1 .. k] \in D
  <2>1. g[1 .. n] = Folded(D, G, << >>, ss)
    <3> HIDE DEF D, G
    <3> QED BY <1>1, <1>2, <1>3, FoldedIs
  <2>2. \A k \in 0 .. n : g[1 .. k] \in D
    <3>1. Len(ss) <= Len(ss)
      OBVIOUS
    <3> HIDE DEF D, G
    <3> QED BY <1>1, <1>2, <1>3, <3>1, FoldsAgree
  <2> QED BY <2>1, <2>2 DEF Flattened
<1>5. CASE n = 0
  <2>1. ss = << >> /\ FlattenSeq(ss) = ss
    BY <1>5 DEF FlattenSeq
  <2>2. g[1 .. 0] = << >>
    BY <1>3 DEF IsFold
  <2> QED BY <1>4, <1>5, <2>1, <2>2
<1>6. CASE n # 0
  <2>1. FlattenSeq(ss) = (CHOOSE f : Is(f))[n]
    BY <1>6 DEF FlattenSeq
  <2> HIDE DEF D, G
  <2>2. ASSUME NEW k \in 1 .. n
        PROVE  g[1 .. k] = IF k = 1 THEN ss[k] ELSE g[1 .. k - 1] \o ss[k]
    <3> DEFINE j == k - 1
    <3>1. j \in 0 .. n - 1 /\ j \in 0 .. n /\ j + 1 = k
      BY <1>2
    <3>2. g[1 .. j] \in D
      BY <1>4, <3>1
    <3>3. g[1 .. j + 1] = G[<<g[1 .. j], ss[j + 1]>>]
      BY <1>3, <3>1, <3>2 DEF IsFold
    <3>4. g[1 .. k] = g[1 .. j] \o ss[k]
      BY <1>1, <1>2, <3>1, <3>2, <3>3
    <3>5. k = 1 => g[1 .. j] = << >> /\ << >> \o ss[k] = ss[k]
      <4>1. ss[k] \in Seq(S)
        BY <1>2 DEF D
      <4> QED BY <1>3, <4>1, ConcatEmptySeq DEF IsFold
    <3> HIDE DEF j
    <3>6. CASE k = 1
      BY <3>4, <3>5, <3>6
    <3>7. CASE k # 1
      BY <3>4, <3>7 DEF j
    <3> QED BY <3>6, <3>7
  <2>3. \E f : Is(f)
    <3> DEFINE f == [k \in 1 .. n |-> g[1 .. k]]
    <3>1. \A k \in 1 .. n : f[k] = g[1 .. k] /\ (k # 1 => k - 1 \in 1 .. n)
      BY <1>2
    <3>2. \A k \in 1 .. n : f[k] = IF k = 1 THEN ss[k] ELSE f[k - 1] \o ss[k]
      <4> HIDE DEF f
      <4> QED BY <2>2, <3>1
    <3>3. f = [k \in 1 .. n |-> f[k]]
      OBVIOUS
    <3> HIDE DEF f
    <3>4. Is(f)
      BY <3>2, <3>3
    <3> QED BY <3>4
  <2>4. PICK f : Is(f) /\ FlattenSeq(ss) = f[n]
    BY <2>1, <2>3
  <2>5. \A k \in 1 .. n : f[k] = IF k = 1 THEN ss[k] ELSE f[k - 1] \o ss[k]
    BY <2>4
  <2> DEFINE T == {k \in Nat : k + 1 <= n => f[k + 1] = g[1 .. k + 1]}
  <2>6. 0 \in T
    <3>1. 1 \in 1 .. n
      BY <1>2, <1>6
    <3>2. f[1] = ss[1] /\ g[1 .. 1] = ss[1]
      BY <2>2, <2>5, <3>1
    <3> QED BY <3>2
  <2>7. ASSUME NEW k \in T PROVE k + 1 \in T
    <3>1. SUFFICES ASSUME (k + 1) + 1 <= n PROVE f[(k + 1) + 1] = g[1 .. (k + 1) + 1]
      OBVIOUS
    <3> DEFINE m == (k + 1) + 1
    <3>2. m \in 1 .. n /\ m # 1 /\ m - 1 = k + 1 /\ k + 1 <= n /\ k \in Nat
      BY <1>2, <3>1
    <3>3. f[k + 1] = g[1 .. k + 1]
      BY <3>2
    <3> HIDE DEF m
    <3>4. f[m] = f[k + 1] \o ss[m] /\ g[1 .. m] = g[1 .. k + 1] \o ss[m]
      BY <2>2, <2>5, <3>2
    <3> QED BY <3>3, <3>4 DEF m
  <2>8. T = Nat
    <3>1. T \in SUBSET Nat
      OBVIOUS
    <3> HIDE DEF T
    <3> QED BY <2>6, <2>7, <3>1, Induct
  <2>9. f[n] = g[1 .. n]
    <3>1. n - 1 \in Nat /\ (n - 1) + 1 = n /\ (n - 1) + 1 <= n
      BY <1>2, <1>6
    <3>2. \A k \in Nat : k + 1 <= n => f[k + 1] = g[1 .. k + 1]
      BY <2>8
    <3> HIDE DEF n
    <3>3. f[(n - 1) + 1] = g[1 .. (n - 1) + 1]
      BY <3>1, <3>2
    <3> QED BY <3>1, <3>3
  <2> QED BY <1>4, <2>4, <2>9
<1> QED BY <1>5, <1>6

\* One more sequence.
LEMMA FlattenAppend ==
  ASSUME NEW S
  PROVE  /\ FlattenSeq(<< >>) = << >>
         /\ \A ss \in Seq(Seq(S)) : FlattenSeq(ss) \in Seq(S)
         /\ \A ss \in Seq(Seq(S)), t \in Seq(S) : FlattenSeq(Append(ss, t)) = FlattenSeq(ss) \o t
<1>1. FoldOp(Seq(S), Seq(S), ConcatFold(S), << >>)
  BY ConcatFoldTyped
<1>2. \A ss \in Seq(Seq(S)) : FlattenSeq(ss) = Flattened(S, ss) /\ Flattened(S, ss) \in Seq(S)
  BY <1>1, FlattenIs, FoldedAppend DEF Flattened
<1>3. FlattenSeq(<< >>) = << >>
  BY DEF FlattenSeq
<1>4. ASSUME NEW ss \in Seq(Seq(S)), NEW t \in Seq(S)
      PROVE  FlattenSeq(Append(ss, t)) = FlattenSeq(ss) \o t
  <2>1. Append(ss, t) \in Seq(Seq(S))
    OBVIOUS
  <2>2. Flattened(S, Append(ss, t)) = ConcatFold(S)[<<Flattened(S, ss), t>>]
    BY <1>1, FoldedAppend DEF Flattened
  <2>3. ConcatFold(S)[<<Flattened(S, ss), t>>] = Flattened(S, ss) \o t
    <3>1. Flattened(S, ss) \in Seq(S)
      BY <1>2
    <3> QED BY <3>1, ConcatFoldTyped
  <2> QED BY <1>2, <2>1, <2>2, <2>3
<1> QED BY <1>2, <1>3, <1>4

-----------------------------------------------------------------------------
(* The text of some names, and of some elements.                            *)

\* The last of a list that is not empty.
LEMMA FrontLast ==
  ASSUME NEW S, NEW s \in Seq(S), s # << >>
  PROVE  /\ Front(s) \in Seq(S) /\ Last(s) \in S /\ s = Append(Front(s), Last(s))
         /\ Len(s) \in Nat \ {0} /\ Len(Front(s)) = Len(s) - 1
<1>1. Len(s) \in Nat \ {0} /\ Len(s) - 1 \in Nat
  OBVIOUS
<1>2. /\ Front(s) \in Seq(S) /\ Len(Front(s)) = Len(s) - 1
      /\ \A k \in 1 .. Len(s) - 1 : Front(s)[k] = s[k]
  <2> DEFINE n == Len(s) - 1
  <2>1. 1 \in Int /\ n \in Int /\ n \in Nat /\ \A k \in 1 .. n : s[k] \in S
    BY <1>1
  <2>2. /\ SubSeq(s, 1, n) \in Seq(S)
        /\ Len(SubSeq(s, 1, n)) = IF 1 <= n THEN n - 1 + 1 ELSE 0
        /\ \A k \in 1 .. n - 1 + 1 : SubSeq(s, 1, n)[k] = s[1 + k - 1]
    <3> HIDE DEF n
    <3> QED BY <2>1, SubSeqProperties
  <2>3. Len(SubSeq(s, 1, n)) = n /\ \A k \in 1 .. n : SubSeq(s, 1, n)[k] = s[k]
    <3> HIDE DEF n
    <3> QED BY <2>1, <2>2
  <2>4. Front(s) = SubSeq(s, 1, n)
    BY DEF Front
  <2> QED BY <2>2, <2>3, <2>4
<1>3. Last(s) = s[Len(s)] /\ Last(s) \in S
  BY <1>1 DEF Last
<1> HIDE DEF Front, Last
<1> DEFINE u == Append(Front(s), Last(s))
<1>4. u \in Seq(S) /\ Len(u) = Len(s) /\ u[Len(s)] = s[Len(s)] /\ \A k \in 1 .. Len(s) - 1 : u[k] = s[k]
  BY <1>1, <1>2, <1>3
<1> HIDE DEF u
<1>5. \A k \in 1 .. Len(s) : u[k] = s[k]
  BY <1>1, <1>4
<1>6. u = s
  BY <1>4, <1>5, SeqEqual
<1> QED BY <1>1, <1>2, <1>3, <1>6 DEF u

\* The text of a path of names is of slashes and names, and grows by a slash and a
\* name with each name.
LEMMA TextAppend ==
  ASSUME NEW S, Slash \in S
  PROVE  /\ TextOf(<< >>) = << >>
         /\ \A ns \in Seq(S) : TextOf(ns) \in Seq(S)
         /\ \A ns \in Seq(S), x \in S : TextOf(Append(ns, x)) = TextOf(ns) \o <<Slash, x>>
<1> DEFINE T(ns) == [k \in DOMAIN ns |-> <<Slash, ns[k]>>]
<1>1. \A ns : TextOf(ns) = FlattenSeq(T(ns))
  BY DEF TextOf
<1>2. \A x \in S : <<Slash, x>> \in Seq(S)
  OBVIOUS
<1>9. ASSUME NEW ns \in Seq(S) PROVE T(ns) \in Seq(Seq(S)) /\ Len(T(ns)) = Len(ns)
  <2>1. DOMAIN ns = 1 .. Len(ns) /\ Len(ns) \in Nat /\ \A k \in 1 .. Len(ns) : ns[k] \in S
    OBVIOUS
  <2>2. T(ns) = [k \in 1 .. Len(ns) |-> <<Slash, ns[k]>>]
    BY <2>1
  <2>3. \A k \in 1 .. Len(ns) : <<Slash, ns[k]>> \in Seq(S)
    BY <1>2, <2>1
  <2> QED BY <2>1, <2>2, <2>3
<1>3. ASSUME NEW ns \in Seq(S), NEW x \in S PROVE T(Append(ns, x)) = Append(T(ns), <<Slash, x>>)
  <2> DEFINE u == Append(ns, x)
             y == <<Slash, x>>
  <2>1. /\ u \in Seq(S) /\ Len(u) = Len(ns) + 1 /\ u[Len(ns) + 1] = x
        /\ \A k \in 1 .. Len(ns) : u[k] = ns[k]
        /\ Len(ns) \in Nat
    OBVIOUS
  <2> HIDE DEF u
  <2>2. y \in Seq(S)
    BY <1>2
  <2>3. \A k \in 1 .. Len(ns) + 1 : T(u)[k] = <<Slash, u[k]>>
    BY <2>1
  <2>4. \A k \in 1 .. Len(ns) : T(ns)[k] = <<Slash, ns[k]>>
    OBVIOUS
  <2> HIDE DEF T
  <2>5. T(u)[Len(ns) + 1] = y
    BY <2>1, <2>3
  <2> HIDE DEF y
  <2>6. ASSUME NEW k \in 1 .. Len(ns) PROVE T(u)[k] = T(ns)[k]
    <3>1. k \in 1 .. Len(ns) + 1 /\ u[k] = ns[k]
      BY <2>1
    <3> QED BY <2>3, <2>4, <3>1
  <2>7. /\ T(u) \in Seq(Seq(S)) /\ T(ns) \in Seq(Seq(S))
        /\ Len(T(u)) = Len(ns) + 1 /\ Len(T(ns)) = Len(ns)
    BY <1>9, <2>1
  <2>8. T(u) = Append(T(ns), y)
    <3> DEFINE w == Append(T(ns), y)
    <3>1. /\ w \in Seq(Seq(S)) /\ Len(w) = Len(ns) + 1 /\ w[Len(ns) + 1] = y
          /\ \A k \in 1 .. Len(ns) : w[k] = T(ns)[k]
      BY <2>2, <2>7, AppendProperties
    <3> HIDE DEF w
    <3>2. ASSUME NEW k \in 1 .. Len(ns) + 1 PROVE T(u)[k] = w[k]
      <4>1. k \in 1 .. Len(ns) \/ k = Len(ns) + 1
        BY <2>1
      <4> QED BY <2>5, <2>6, <3>1, <4>1
    <3>3. T(u) = w
      BY <2>7, <3>1, <3>2, SeqEqual
    <3> QED BY <3>3 DEF w
  <2> QED BY <2>8 DEF u, y
<1>4. TextOf(<< >>) = << >>
  <2>1. T(<< >>) = << >>
    OBVIOUS
  <2> HIDE DEF T
  <2> QED BY <1>1, <2>1, FlattenAppend
<1>5. \A ns \in Seq(S) : TextOf(ns) \in Seq(S)
  <2> HIDE DEF T
  <2> QED BY <1>1, <1>9, FlattenAppend
<1>6. ASSUME NEW ns \in Seq(S), NEW x \in S PROVE TextOf(Append(ns, x)) = TextOf(ns) \o <<Slash, x>>
  <2>1. Append(ns, x) \in Seq(S)
    OBVIOUS
  <2> HIDE DEF T
  <2>2. FlattenSeq(Append(T(ns), <<Slash, x>>)) = FlattenSeq(T(ns)) \o <<Slash, x>>
    BY <1>2, <1>9, FlattenAppend
  <2> QED BY <1>1, <1>3, <2>1, <2>2
<1> QED BY <1>4, <1>5, <1>6

\* Every second symbol of the text is a name.
LEMMA TextLong ==
  ASSUME NEW S, Slash \in S
  PROVE  \A ns \in Seq(S) : /\ Len(TextOf(ns)) = 2 * Len(ns)
                            /\ \A j \in 1 .. Len(ns) : TextOf(ns)[2 * j] = ns[j]
<1> DEFINE Long(ns) == /\ Len(TextOf(ns)) = 2 * Len(ns)
                       /\ \A j \in 1 .. Len(ns) : TextOf(ns)[2 * j] = ns[j]
           T == {k \in Nat : \A ns \in Seq(S) : Len(ns) = k => Long(ns)}
<1>1. 0 \in T
  <2>1. ASSUME NEW ns \in Seq(S), Len(ns) = 0 PROVE Long(ns)
    <3>1. TextOf(ns) = << >>
      <4>1. ns = << >>
        BY <2>1
      <4> QED BY <4>1, TextAppend
    <3> QED BY <2>1, <3>1
  <2> QED BY <2>1
<1>2. ASSUME NEW k \in T PROVE k + 1 \in T
  <2>1. SUFFICES ASSUME NEW ns \in Seq(S), Len(ns) = k + 1 PROVE Long(ns)
    OBVIOUS
  <2>9. k \in Nat /\ ns # << >>
    BY <2>1
  <2>10. PICK f \in Seq(S), x \in S : ns = Append(f, x)
    BY <2>9, SequenceEmptyOrAppend
  <2>2. Len(f) = k /\ k \in Nat
    <3>1. Len(f) \in Nat /\ Len(ns) = Len(f) + 1
      BY <2>10
    <3> QED BY <2>1, <2>9, <3>1
  <2>3. Long(f)
    BY <2>2
  <2>4. TextOf(ns) = TextOf(f) \o <<Slash, x>> /\ TextOf(f) \in Seq(S)
    BY <2>10, TextAppend
  <2> DEFINE u == TextOf(f)
  <2>5. u \in Seq(S) /\ Len(u) = 2 * k
    BY <2>2, <2>3, <2>4
  <2> HIDE DEF u
  <2>6. /\ Len(u \o <<Slash, x>>) = 2 * (k + 1)
        /\ (u \o <<Slash, x>>)[2 * (k + 1)] = x
        /\ \A j \in 1 .. k : (u \o <<Slash, x>>)[2 * j] = u[2 * j]
    <3> DEFINE y == <<Slash, x>>
    <3>1. y \in Seq(S) /\ Len(y) = 2 /\ y[2] = x
      OBVIOUS
    <3> HIDE DEF y
    <3>2. /\ Len(u \o y) = Len(u) + 2
          /\ \A i \in 1 .. Len(u) + 2 : (u \o y)[i] = IF i <= Len(u) THEN u[i] ELSE y[i - Len(u)]
      <4>1. /\ Len(u \o y) = Len(u) + Len(y)
            /\ \A i \in 1 .. Len(u) + Len(y) : (u \o y)[i] = IF i <= Len(u) THEN u[i] ELSE y[i - Len(u)]
        BY <2>5, <3>1, ConcatProperties
      <4> QED BY <3>1, <4>1
    <3>3. Len(u \o y) = 2 * (k + 1)
      BY <2>2, <2>5, <3>2
    <3>4. (u \o y)[2 * (k + 1)] = x
      <4>1. 2 * (k + 1) = 2 * k + 2 /\ 2 * k + 2 \in 1 .. 2 * k + 2 /\ ~(2 * k + 2 <= 2 * k) /\ (2 * k + 2) - 2 * k = 2
        BY <2>2
      <4>2. (u \o y)[2 * k + 2] = y[(2 * k + 2) - 2 * k]
        BY <2>5, <3>2, <4>1
      <4> QED BY <3>1, <4>1, <4>2
    <3>5. ASSUME NEW j \in 1 .. k PROVE (u \o y)[2 * j] = u[2 * j]
      <4>1. 2 * j \in 1 .. 2 * k + 2 /\ 2 * j <= 2 * k
        BY <2>2
      <4> QED BY <2>5, <3>2, <4>1
    <3> QED BY <3>3, <3>4, <3>5 DEF y
  <2>7. ASSUME NEW j \in 1 .. Len(ns) PROVE TextOf(ns)[2 * j] = ns[j]
    <3>1. CASE j = k + 1
      <4>1. ns[j] = x
        BY <2>2, <2>10, <3>1
      <4> QED BY <2>4, <2>6, <3>1, <4>1 DEF u
    <3>2. CASE j # k + 1
      <4>1. j \in 1 .. k /\ ns[j] = f[j]
        BY <2>1, <2>2, <2>10, <3>2
      <4>2. TextOf(f)[2 * j] = f[j]
        BY <2>2, <2>3, <4>1
      <4> QED BY <2>4, <2>6, <4>1, <4>2 DEF u
    <3> QED BY <3>1, <3>2
  <2> QED BY <2>1, <2>4, <2>6, <2>7 DEF u
<1>3. T = Nat
  <2>1. T \in SUBSET Nat
    OBVIOUS
  <2> HIDE DEF T
  <2> QED BY <1>1, <1>2, <2>1, Induct
<1>4. QED
  <2>1. ASSUME NEW ns \in Seq(S) PROVE Long(ns)
    <3>1. Len(ns) \in T
      BY <1>3
    <3> QED BY <3>1
  <2> QED BY <2>1

\* Different names have different texts.
LEMMA TextInjective ==
  ASSUME NEW S, Slash \in S, NEW a \in Seq(S), NEW b \in Seq(S), TextOf(a) = TextOf(b)
  PROVE  a = b
<1>1. 2 * Len(a) = 2 * Len(b)
  BY TextLong
<1>2. Len(a) = Len(b)
  BY <1>1
<1>3. \A j \in 1 .. Len(a) : a[j] = b[j]
  BY <1>2, TextLong
<1> QED BY <1>2, <1>3, SeqEqual

\* Two sequences of one element.
LEMMA TwoOf ==
  ASSUME NEW a, NEW b
  PROVE  <<a>> \o <<b>> = <<a, b>>
<1> DEFINE S == {a, b}
           p == <<a>>
           q == <<b>>
           r == <<a, b>>
<1>1. /\ p \in Seq(S) /\ Len(p) = 1 /\ p[1] = a
      /\ q \in Seq(S) /\ Len(q) = 1 /\ q[1] = b
      /\ r \in Seq(S) /\ Len(r) = 2 /\ r[1] = a /\ r[2] = b
  OBVIOUS
<1> HIDE DEF S, p, q, r
<1>2. /\ p \o q \in Seq(S) /\ Len(p \o q) = 2
      /\ \A i \in 1 .. 2 : (p \o q)[i] = IF i <= 1 THEN p[i] ELSE q[i - 1]
  <2>1. /\ p \o q \in Seq(S) /\ Len(p \o q) = Len(p) + Len(q)
        /\ \A i \in 1 .. Len(p) + Len(q) : (p \o q)[i] = IF i <= Len(p) THEN p[i] ELSE q[i - Len(p)]
    BY <1>1, ConcatProperties
  <2> QED BY <1>1, <2>1
<1>3. \A i \in 1 .. 2 : (p \o q)[i] = r[i]
  <2>1. (p \o q)[1] = p[1] /\ (p \o q)[2] = q[1]
    BY <1>2
  <2>2. ASSUME NEW i \in 1 .. 2 PROVE (p \o q)[i] = r[i]
    <3>1. i = 1 \/ i = 2
      OBVIOUS
    <3> QED BY <1>1, <2>1, <3>1
  <2> QED BY <2>2
<1>4. p \o q = r
  BY <1>1, <1>2, <1>3, SeqEqual
<1> QED BY <1>4 DEF p, q, r

\* One more element at the end of none, and of one.
LEMMA OneMore ==
  ASSUME NEW a, NEW b
  PROVE  Append(<< >>, a) = <<a>> /\ Append(<<a>>, b) = <<a, b>>
<1> DEFINE S == {a, b}
<1>1. << >> \in Seq(S) /\ <<a>> \in Seq(S) /\ b \in S
  OBVIOUS
<1>2. Append(<<a>>, b) = <<a>> \o <<b>>
  <2> HIDE DEF S
  <2> QED BY <1>1, AppendIsConcat
<1>3. Append(<< >>, a) = <<a>>
  OBVIOUS
<1> QED BY <1>2, <1>3, TwoOf

\* The text of one element, with the slash before it.
Piece(es, k) ==
    (IF k > 1 THEN <<Slash>> ELSE << >>) \o (IF es[k] = Empty THEN << >> ELSE <<es[k]>>)

\* The text of elements, with one more.
LEMMA JoinAppend ==
  ASSUME NEW S, Slash \in S
  PROVE  /\ Join(<< >>) = << >>
         /\ \A es \in Seq(S) : Join(es) \in Seq(S)
         /\ Join(<<Empty>>) = << >>
         /\ \A es \in Seq(S), x \in S \ {Empty} : es # << >> => Join(Append(es, x)) = Join(es) \o <<Slash, x>>
         /\ \A es \in Seq(S) : es # << >> => Join(Append(es, Empty)) = Append(Join(es), Slash)
<1> DEFINE W == S \cup {Empty}
           T(es) == [k \in DOMAIN es |-> Piece(es, k)]
<1>1. \A es : Join(es) = FlattenSeq(T(es))
  BY DEF Join, Piece
<1>2. \A es \in Seq(W) : \A k \in DOMAIN es : Piece(es, k) \in Seq(S)
  <2>1. SUFFICES ASSUME NEW es \in Seq(W), NEW k \in DOMAIN es PROVE Piece(es, k) \in Seq(S)
    OBVIOUS
  <2>2. es[k] \in W /\ k \in Nat
    OBVIOUS
  <2>3. (IF k > 1 THEN <<Slash>> ELSE << >>) \in Seq(S)
    OBVIOUS
  <2>4. (IF es[k] = Empty THEN << >> ELSE <<es[k]>>) \in Seq(S)
    BY <2>2
  <2> QED BY <2>3, <2>4, ConcatProperties DEF Piece
<1>3. ASSUME NEW es \in Seq(W) PROVE T(es) \in Seq(Seq(S)) /\ Len(T(es)) = Len(es)
  <2>1. \A k \in 1 .. Len(es) : T(es)[k] \in Seq(S)
    BY <1>2
  <2>2. DOMAIN T(es) = 1 .. Len(es) /\ Len(es) \in Nat
    OBVIOUS
  <2> QED BY <2>1, <2>2
<1>4. ASSUME NEW es \in Seq(W), NEW x \in W, es # << >>
      PROVE  T(Append(es, x)) = Append(T(es), <<Slash>> \o (IF x = Empty THEN << >> ELSE <<x>>))
  <2> DEFINE u == Append(es, x)
             y == <<Slash>> \o (IF x = Empty THEN << >> ELSE <<x>>)
  <2>1. /\ u \in Seq(W) /\ Len(u) = Len(es) + 1 /\ u[Len(es) + 1] = x
        /\ \A k \in 1 .. Len(es) : u[k] = es[k]
        /\ Len(es) \in Nat /\ Len(es) + 1 > 1
    BY <1>4
  <2> HIDE DEF u
  <2>2. \A k \in 1 .. Len(es) : Piece(u, k) = Piece(es, k)
    BY <2>1 DEF Piece
  <2>3. Piece(u, Len(es) + 1) = y
    BY <2>1 DEF Piece
  <2>4. y \in Seq(S)
    <3>1. <<Slash>> \in Seq(S) /\ (IF x = Empty THEN << >> ELSE <<x>>) \in Seq(S)
      OBVIOUS
    <3> QED BY <3>1, ConcatProperties
  <2> HIDE DEF y
  <2>5. /\ T(u) \in Seq(Seq(S)) /\ Append(T(es), y) \in Seq(Seq(S))
        /\ Len(T(u)) = Len(es) + 1 /\ Len(Append(T(es), y)) = Len(es) + 1
    <3>1. T(u) \in Seq(Seq(S)) /\ Len(T(u)) = Len(u) /\ T(es) \in Seq(Seq(S)) /\ Len(T(es)) = Len(es)
      BY <1>3, <2>1
    <3> HIDE DEF T
    <3>2. Append(T(es), y) \in Seq(Seq(S)) /\ Len(Append(T(es), y)) = Len(T(es)) + 1
      BY <2>4, <3>1, AppendProperties
    <3> QED BY <2>1, <3>1, <3>2
  <2>6. ASSUME NEW k \in 1 .. Len(es) + 1 PROVE T(u)[k] = Append(T(es), y)[k]
    <3>1. T(u)[k] = Piece(u, k)
      BY <2>1
    <3>2. CASE k \in 1 .. Len(es)
      <4>1. T(es)[k] = Piece(es, k)
        BY <3>2
      <4>2. Append(T(es), y)[k] = T(es)[k]
        BY <1>3, <3>2
      <4> QED BY <2>2, <3>1, <3>2, <4>1, <4>2
    <3>3. CASE k = Len(es) + 1
      <4>1. Append(T(es), y)[k] = y
        BY <1>3, <3>3
      <4> QED BY <2>3, <3>1, <3>3, <4>1
    <3> QED BY <2>1, <3>2, <3>3
  <2>7. T(u) = Append(T(es), y)
    <3> HIDE DEF T
    <3> QED BY <2>5, <2>6, SeqEqual
  <2> QED BY <2>7 DEF u, y
<1>5. Join(<< >>) = << >>
  <2>1. T(<< >>) = << >>
    OBVIOUS
  <2> QED BY <1>1, <2>1, FlattenAppend
<1>6. \A es \in Seq(W) : Join(es) \in Seq(S)
  <2> HIDE DEF T
  <2> QED BY <1>1, <1>3, FlattenAppend
<1>7. Join(<<Empty>>) = << >>
  <2>1. T(<<Empty>>) = <<<< >>>>
    BY DEF Piece
  <2>2. <<<< >>>> = Append(<< >>, << >>) /\ << >> \in Seq(Seq(S)) /\ << >> \in Seq(S)
    OBVIOUS
  <2>3. FlattenSeq(Append(<< >>, << >>)) = FlattenSeq(<< >>) \o << >>
    BY <2>2, FlattenAppend
  <2>4. << >> \o << >> = << >>
    OBVIOUS
  <2> QED BY <1>1, <2>1, <2>2, <2>3, <2>4, FlattenAppend
<1>8. ASSUME NEW es \in Seq(W), NEW x \in W, es # << >>
      PROVE  Join(Append(es, x)) = Join(es) \o (<<Slash>> \o (IF x = Empty THEN << >> ELSE <<x>>))
  <2> DEFINE y == <<Slash>> \o (IF x = Empty THEN << >> ELSE <<x>>)
  <2>1. y \in Seq(S)
    <3>1. <<Slash>> \in Seq(S) /\ (IF x = Empty THEN << >> ELSE <<x>>) \in Seq(S)
      OBVIOUS
    <3> QED BY <3>1, ConcatProperties
  <2> HIDE DEF y, T
  <2>2. FlattenSeq(Append(T(es), y)) = FlattenSeq(T(es)) \o y
    BY <1>3, <2>1, FlattenAppend
  <2>3. T(Append(es, x)) = Append(T(es), y)
    BY <1>4, <1>8 DEF y
  <2> QED BY <1>1, <2>2, <2>3 DEF y
<1> HIDE DEF T
<1>9. ASSUME NEW es \in Seq(S), NEW x \in S \ {Empty}, es # << >>
      PROVE  Join(Append(es, x)) = Join(es) \o <<Slash, x>>
  <2>1. es \in Seq(W) /\ x \in W
    OBVIOUS
  <2>3. <<Slash>> \o <<x>> = <<Slash, x>>
    BY TwoOf
  <2>2. Join(Append(es, x)) = Join(es) \o (<<Slash>> \o (IF x = Empty THEN << >> ELSE <<x>>))
    BY <1>8, <1>9, <2>1
  <2> QED BY <1>9, <2>2, <2>3
<1>10. ASSUME NEW es \in Seq(S), es # << >> PROVE Join(Append(es, Empty)) = Append(Join(es), Slash)
  <2>1. es \in Seq(W) /\ Empty \in W /\ <<Slash>> \o << >> = <<Slash>>
    OBVIOUS
  <2>2. Join(Append(es, Empty)) = Join(es) \o <<Slash>>
    <3>1. Join(Append(es, Empty)) = Join(es) \o (<<Slash>> \o (IF Empty = Empty THEN << >> ELSE <<Empty>>))
      BY <1>8, <1>10, <2>1
    <3> QED BY <2>1, <3>1
  <2> QED BY <1>6, <2>1, <2>2, AppendIsConcat
<1>11. \A es \in Seq(S) : es \in Seq(W)
  OBVIOUS
<1> QED BY <1>5, <1>6, <1>7, <1>9, <1>10, <1>11

-----------------------------------------------------------------------------
(* The path of a child.                                                     *)

\* The elements of a path without runs of slashes, simplified and joined.
Cleaned(S, path) ==
    LET es == Pieces(S, path)
    IN Join(TakenFrom(S \cup {Empty}, IsAbsolute(es), es).out)

\* Simplify of a path, and the empty path.
LEMMA SimplifyIs ==
  ASSUME NEW S, DotDot \in S, Slash \in S
  PROVE  /\ \A path \in Seq(S) : Sanitize(path) \in Seq(S)
         /\ \A path \in Seq(S) : Sanitize(path) = << >> => Simplify(path) = << >>
         /\ \A path \in Seq(S) : Sanitize(path) # << >> => Simplify(path) = Cleaned(S, Sanitize(path))
<1> DEFINE W == S \cup {Empty}
<1>1. \A es \in Seq(W) : Simplified(es) = TakenFrom(W, IsAbsolute(es), es).out
  BY SimplifiedIs
<1>2. ASSUME NEW path \in Seq(S) PROVE Sanitize(path) \in Seq(S)
  <2>1. OneSlash(path) \in Seq(S)
    BY OneSlashAppend
  <2> DEFINE o == OneSlash(path)
  <2> HIDE DEF o
  <2>2. o \in Seq(S)
    BY <2>1 DEF o
  <2>3. CASE Len(o) > 1 /\ Last(o) = Slash
    <3>1. o # << >>
      BY <2>2, <2>3
    <3>2. Front(o) \in Seq(S)
      BY <2>2, <3>1, FrontLast
    <3> QED BY <2>3, <3>2 DEF Sanitize, Trimmed, o
  <2>4. CASE ~(Len(o) > 1 /\ Last(o) = Slash)
    BY <2>2, <2>4 DEF Sanitize, Trimmed, o
  <2> QED BY <2>3, <2>4
<1>3. ASSUME NEW path \in Seq(S), Sanitize(path) = << >> PROVE Simplify(path) = << >>
  <2>1. Elements(path) = << >>
    BY <1>3 DEF Elements, Split
  <2>2. << >> \in Seq(W) /\ DotDot \in W
    OBVIOUS
  <2>3. Simplified(<< >>) = Nothing.out
    <3>1. Simplified(<< >>) = TakenFrom(W, IsAbsolute(<< >>), << >>).out
      BY <1>1, <2>2
    <3>2. TakenFrom(W, IsAbsolute(<< >>), << >>) = Nothing
      BY <2>2, TakenAppend
    <3> QED BY <3>1, <3>2
  <2>4. Join(<< >>) = << >>
    BY JoinAppend
  <2> QED BY <2>1, <2>3, <2>4 DEF Simplify, Nothing
<1>4. ASSUME NEW path \in Seq(S), Sanitize(path) # << >>
      PROVE  Simplify(path) = Cleaned(S, Sanitize(path))
  <2>1. Elements(path) = Pieces(S, Sanitize(path))
    BY <1>2, <1>4, SplitIs DEF Elements
  <2>2. Pieces(S, Sanitize(path)) \in Seq(W)
    BY <1>2, PiecesAppend DEF Lists
  <2> QED BY <1>1, <2>1, <2>2 DEF Simplify, Cleaned
<1> QED BY <1>2, <1>3, <1>4

\* A slash and a name more.
LEMMA PiecesChild ==
  ASSUME NEW S, Slash \in S, NEW path \in Seq(S), NEW x \in S, x # Slash
  PROVE  Pieces(S, path \o <<Slash, x>>) = Append(Pieces(S, path), x)
<1> DEFINE p == Pieces(S, path)
           q == Append(path, Slash)
<1>1. path \o <<Slash, x>> = Append(q, x) /\ q \in Seq(S)
  OBVIOUS
<1>2. p \in Seq(S \cup {Empty}) /\ p # << >>
  BY PiecesAppend DEF Lists
<1>3. Pieces(S, q) = Append(p, Empty)
  BY PiecesAppend DEF SplitStep
<1> HIDE DEF p, q
<1>4. Pieces(S, Append(q, x)) = [Append(p, Empty) EXCEPT ![Len(Append(p, Empty))] = x]
  <2>1. Pieces(S, Append(q, x)) = SplitStep(Pieces(S, q), x)
    BY <1>1, PiecesAppend
  <2> QED BY <1>3, <2>1 DEF SplitStep
<1>5. [Append(p, Empty) EXCEPT ![Len(Append(p, Empty))] = x] = Append(p, x)
  <2> DEFINE W == S \cup {Empty}
             a == Append(p, Empty)
             b == Append(p, x)
             n == Len(p)
             c == [a EXCEPT ![n + 1] = x]
  <2>1. /\ a \in Seq(W) /\ Len(a) = n + 1 /\ \A i \in 1 .. n : a[i] = p[i]
        /\ b \in Seq(W) /\ Len(b) = n + 1 /\ b[n + 1] = x /\ \A i \in 1 .. n : b[i] = p[i]
        /\ n \in Nat
    BY <1>2, AppendProperties
  <2> HIDE DEF a, b, n
  <2>2. n + 1 \in 1 .. Len(a) /\ x \in W
    BY <2>1
  <2>3. c \in Seq(W) /\ Len(c) = Len(a) /\ \A i \in 1 .. Len(a) : c[i] = IF i = n + 1 THEN x ELSE a[i]
    BY <2>1, <2>2, ExceptSeq
  <2> HIDE DEF c
  <2>4. ASSUME NEW i \in 1 .. n + 1 PROVE c[i] = b[i]
    <3>1. i \in 1 .. n \/ i = n + 1
      BY <2>1
    <3> QED BY <2>1, <2>3, <3>1
  <2>5. c = b
    BY <2>1, <2>3, <2>4, SeqEqual
  <2> QED BY <2>1, <2>5 DEF a, b, c, n
<1> QED BY <1>1, <1>4, <1>5 DEF p

\* The path of a child of a directory has no other slashes.
LEMMA SanitizeChild ==
  ASSUME NEW S, Slash \in S, NEW path \in Seq(S), NEW x \in S, x # Slash,
         Sanitize(path) # << >>, Sanitize(path) # <<Slash>>
  PROVE  Sanitize(path \o <<Slash, x>>) = Sanitize(path) \o <<Slash, x>>
<1> DEFINE o == OneSlash(path)
           q == Append(path, Slash)
<1>1. path \o <<Slash, x>> = Append(q, x) /\ q \in Seq(S)
  OBVIOUS
<1>2. o \in Seq(S)
  BY OneSlashAppend
<1>3. OneSlash(q) = SlashStep(o, Slash)
  BY OneSlashAppend
<1> HIDE DEF o, q
<1>4. OneSlash(Append(q, x)) = Append(SlashStep(o, Slash), x)
  BY <1>1, <1>3, OneSlashAppend DEF SlashStep
<1>5. Sanitize(path) = Trimmed(o)
  BY DEF Sanitize, o
<1>6. o # << >>
  <2>1. Trimmed(<< >>) = << >>
    BY DEF Trimmed
  <2> QED BY <1>5, <2>1
<1>7. SlashStep(o, Slash) = Append(Trimmed(o), Slash)
  <2>1. CASE Last(o) = Slash
    <3>1. SlashStep(o, Slash) = o
      BY <1>6, <2>1 DEF SlashStep
    <3>2. Len(o) > 1
      <4>1. SUFFICES ASSUME ~(Len(o) > 1) PROVE FALSE
        OBVIOUS
      <4>2. Len(o) = 1
        <5>1. Len(o) \in Nat /\ (Len(o) = 0 => o = << >>)
          BY <1>2
        <5> QED BY <1>6, <4>1, <5>1
      <4>3. o = <<Slash>>
        BY <1>2, <2>1, <4>2 DEF Last
      <4>4. Trimmed(o) = o
        BY <4>1 DEF Trimmed
      <4> QED BY <1>5, <4>3, <4>4
    <3>3. Trimmed(o) = Front(o) /\ o = Append(Front(o), Last(o))
      BY <1>2, <1>6, <2>1, <3>2, FrontLast DEF Trimmed
    <3> QED BY <2>1, <3>1, <3>3
  <2>2. CASE Last(o) # Slash
    BY <2>2 DEF SlashStep, Trimmed
  <2> QED BY <2>1, <2>2
<1>8. Trimmed(o) \in Seq(S)
  <2>1. Front(o) \in Seq(S)
    BY <1>2, <1>6, FrontLast
  <2> QED BY <1>2, <2>1 DEF Trimmed
<1> DEFINE t == Trimmed(o)
           u == Append(Append(t, Slash), x)
<1> HIDE DEF t
<1>9. u = t \o <<Slash, x>> /\ u \in Seq(S) /\ u[Len(u)] = x
  BY <1>8 DEF t
<1> HIDE DEF u
<1>10. OneSlash(path \o <<Slash, x>>) = u
  BY <1>1, <1>4, <1>7 DEF t, u
<1>11. Trimmed(u) = u
  BY <1>9 DEF Trimmed, Last
<1> QED BY <1>5, <1>9, <1>10, <1>11 DEF Sanitize, t

\* The empty elements of "/".
LEMMA TakenEmpty ==
  ASSUME PathsAssumption, NEW W, Empty \in W, DotDot \in W, NEW absolute
  PROVE  /\ TakenFrom(W, absolute, <<Empty>>).out = <<Empty>>
         /\ TakenFrom(W, absolute, <<Empty, Empty>>).out = <<Empty, Empty>>
<1>1. << >> \in Seq(W) /\ <<Empty>> \in Seq(W)
  OBVIOUS
<1>2. Append(<< >>, Empty) = <<Empty>> /\ Append(<<Empty>>, Empty) = <<Empty, Empty>>
  BY OneMore
<1>3. TakenFrom(W, absolute, <<Empty>>) = TakeStep(absolute, Nothing, Empty)
  <2>1. TakenFrom(W, absolute, Append(<< >>, Empty)) = TakeStep(absolute, TakenFrom(W, absolute, << >>), Empty)
    BY <1>1, TakenAppend
  <2>2. TakenFrom(W, absolute, << >>) = Nothing
    BY TakenAppend
  <2> QED BY <1>2, <2>1, <2>2
<1>4. TakenFrom(W, absolute, <<Empty, Empty>>) = TakeStep(absolute, TakenFrom(W, absolute, <<Empty>>), Empty)
  <2>1. TakenFrom(W, absolute, Append(<<Empty>>, Empty)) = TakeStep(absolute, TakenFrom(W, absolute, <<Empty>>), Empty)
    BY <1>1, TakenAppend
  <2> QED BY <1>2, <2>1
<1>5. TakeStep(absolute, Nothing, Empty) = [out |-> <<Empty>>, subroot |-> 0]
  BY <1>2 DEF TakeStep, PathsAssumption, Nothing
<1>6. TakeStep(absolute, [out |-> <<Empty>>, subroot |-> 0], Empty) = [out |-> <<Empty, Empty>>, subroot |-> 0]
  BY <1>2 DEF TakeStep, PathsAssumption
<1> QED BY <1>3, <1>4, <1>5, <1>6

\* "/" is joined of two empty elements.
LEMMA JoinTop == Join(<<Empty, Empty>>) = <<Slash>>
<1> DEFINE S == {Slash, Empty}
<1>1. <<Empty>> \in Seq(S) /\ Slash \in S /\ <<Empty>> # << >>
  OBVIOUS
<1>2. Join(Append(<<Empty>>, Empty)) = Append(Join(<<Empty>>), Slash)
  <2> HIDE DEF S
  <2> QED BY <1>1, JoinAppend
<1>3. Join(<<Empty>>) = << >>
  <2> HIDE DEF S
  <2> QED BY <1>1, JoinAppend
<1>4. Append(<<Empty>>, Empty) = <<Empty, Empty>> /\ Append(<< >>, Slash) = <<Slash>>
  BY OneMore
<1> QED BY <1>2, <1>3, <1>4

\* Simplify of the path of a child is the simplified path of the parent, a slash
\* and the child's name, as long as the parent is not the top.
LEMMA SimplifyChild ==
  ASSUME PathsAssumption, NEW S, Slash \in S, DotDot \in S, NEW path \in Seq(S),
         NEW x \in S \ {Slash, Dot, DotDot, Empty},
         Simplify(path) # << >>, Simplify(path) # <<Slash>>
  PROVE  Simplify(path \o <<Slash, x>>) = Simplify(path) \o <<Slash, x>>
<1> DEFINE W == S \cup {Empty}
           t == Sanitize(path)
           es == Pieces(S, t)
           out == TakenFrom(W, IsAbsolute(es), es).out
<1>1. t \in Seq(S) /\ t # << >> /\ Simplify(path) = Cleaned(S, t)
  BY SimplifyIs
<1> HIDE DEF t
<1>2. es \in Seq(W) /\ es # << >> /\ Cleaned(S, t) = Join(out)
  BY <1>1, PiecesAppend DEF Lists, Cleaned
<1> HIDE DEF es
<1>3. DotDot \in W /\ Slash \in W /\ x \in W
  OBVIOUS
<1>4. TakenFrom(W, IsAbsolute(es), es) \in Taken(W)
  BY <1>2, <1>3, TakenAppend
<1>5. out \in Seq(W)
  BY <1>4 DEF Taken
<1>6. es # <<Empty>>
  <2>1. SUFFICES ASSUME es = <<Empty>> PROVE FALSE
    OBVIOUS
  <2>2. out = <<Empty>>
    BY <1>3, <2>1, TakenEmpty
  <2> QED BY <1>1, <1>2, <2>2, JoinAppend
<1>7. es # <<Empty, Empty>>
  <2>1. SUFFICES ASSUME es = <<Empty, Empty>> PROVE FALSE
    OBVIOUS
  <2>2. out = <<Empty, Empty>>
    BY <1>3, <2>1, TakenEmpty
  <2> QED BY <1>1, <1>2, <2>2, JoinTop
<1>8. t # <<Slash>>
  <2>1. Pieces(S, <<Slash>>) = <<Empty, Empty>>
    <3>1. << >> \in Seq(S) /\ <<Slash>> = Append(<< >>, Slash)
      OBVIOUS
    <3>2. Pieces(S, Append(<< >>, Slash)) = SplitStep(<<Empty>>, Slash)
      BY <3>1, PiecesAppend
    <3>3. SplitStep(<<Empty>>, Slash) = <<Empty, Empty>>
      BY OneMore DEF SplitStep
    <3> QED BY <3>1, <3>2, <3>3
  <2> QED BY <1>7, <2>1 DEF es
<1>9. IsAbsolute(Append(es, x)) = IsAbsolute(es)
  <2>1. Append(es, x) \in Seq(W) /\ Len(Append(es, x)) = Len(es) + 1 /\ Append(es, x)[1] = es[1]
        /\ Len(es) \in Nat \ {0}
    BY <1>2, <1>3
  <2>2. Head(es) = es[1] /\ Head(Append(es, x)) = es[1]
    BY <1>2, <2>1
  <2>3. ~(Len(es) = 1 /\ es[1] = Empty)
    BY <1>2, <1>6
  <2>4. CASE IsAbsolute(es)
    BY <2>1, <2>2, <2>4 DEF IsAbsolute
  <2>5. CASE ~IsAbsolute(es)
    <3>1. es[1] # Empty
      <4>1. SUFFICES ASSUME es[1] = Empty PROVE FALSE
        OBVIOUS
      <4>2. Len(es) > 1
        <5>1. Len(es) # 1
          BY <2>3, <4>1
        <5>2. Len(es) \in Nat /\ Len(es) # 0
          BY <2>1
        <5> HIDE DEF out, W
        <5> DEFINE n == Len(es)
        <5>3. n \in Nat /\ n # 0 /\ n # 1
          BY <5>1, <5>2
        <5> HIDE DEF n
        <5>4. n > 1
          BY <5>3
        <5> QED BY <5>4 DEF n
      <4>3. Head(es) = Empty
        BY <2>2, <4>1
      <4> QED BY <2>5, <4>2, <4>3 DEF IsAbsolute
    <3> QED BY <2>2, <3>1 DEF IsAbsolute
  <2> QED BY <2>4, <2>5
<1>10. TakenFrom(W, IsAbsolute(es), Append(es, x)).out = Append(out, x)
  <2> DEFINE acc == TakenFrom(W, IsAbsolute(es), es)
  <2>1. TakenFrom(W, IsAbsolute(es), Append(es, x)) = TakeStep(IsAbsolute(es), acc, x)
    <3> HIDE DEF W
    <3> QED BY <1>2, <1>3, TakenAppend
  <2>2. acc \in Taken(W)
    BY <1>4
  <2> HIDE DEF acc
  <2>3. TakeStep(IsAbsolute(es), acc, x).out = Append(acc.out, x)
    BY <2>2 DEF TakeStep, Taken
  <2> QED BY <2>1, <2>3 DEF acc
<1>11. Sanitize(path \o <<Slash, x>>) = t \o <<Slash, x>>
  BY <1>1, <1>8, SanitizeChild DEF t
<1>12. t \o <<Slash, x>> # << >> /\ path \o <<Slash, x>> \in Seq(S)
  BY <1>1
<1>13. Simplify(path \o <<Slash, x>>) = Cleaned(S, t \o <<Slash, x>>)
  BY <1>11, <1>12, SimplifyIs
<1>14. Cleaned(S, t \o <<Slash, x>>) = Join(Append(out, x))
  <2>1. Pieces(S, t \o <<Slash, x>>) = Append(es, x)
    BY <1>1, PiecesChild DEF es
  <2> HIDE DEF W
  <2> QED BY <1>9, <1>10, <2>1 DEF Cleaned, W
<1>15. out # << >>
  BY <1>1, <1>2, JoinAppend
<1> HIDE DEF out
<1>16. Join(Append(out, x)) = Join(out) \o <<Slash, x>>
  <2>1. x \in W \ {Empty}
    OBVIOUS
  <2> HIDE DEF W
  <2> QED BY <1>3, <1>5, <1>15, <2>1, JoinAppend
<1> QED BY <1>1, <1>2, <1>13, <1>14, <1>16

\* A name at the top of the account has a path that is simple.
LEMMA SimplifyTop ==
  ASSUME PathsAssumption, NEW S, Slash \in S, DotDot \in S,
         NEW x \in S \ {Slash, Dot, DotDot, Empty}
  PROVE  Simplify(<<Slash, x>>) = <<Slash, x>>
<1> DEFINE W == S \cup {Empty}
           p == <<Slash, x>>
<1>1. /\ << >> \in Seq(S) /\ <<Slash>> \in Seq(S) /\ p \in Seq(S) /\ p # << >>
      /\ << >> \o p = p
  OBVIOUS
<1>2. Append(<< >>, Slash) = <<Slash>> /\ Append(<<Slash>>, x) = p
  BY OneMore
<1>3. OneSlash(<< >>) = << >>
  <2>1. FoldOp(Seq(S), S, SlashFold(S), << >>) /\ OneSlash(<< >>) = Folded(Seq(S), SlashFold(S), << >>, << >>)
    BY <1>1, OneSlashIs
  <2> QED BY <2>1, FoldedAppend
<1>4. OneSlash(<<Slash>>) = <<Slash>>
  <2>1. OneSlash(Append(<< >>, Slash)) = SlashStep(<< >>, Slash)
    BY <1>1, <1>3, OneSlashAppend
  <2> QED BY <1>2, <2>1 DEF SlashStep
<1>5. OneSlash(p) = p
  <2>1. OneSlash(Append(<<Slash>>, x)) = SlashStep(<<Slash>>, x)
    BY <1>1, <1>4, OneSlashAppend
  <2> QED BY <1>2, <2>1 DEF SlashStep
<1>6. Sanitize(p) = p
  <2>1. Last(p) = x
    BY DEF Last
  <2> HIDE DEF p
  <2> QED BY <1>5, <2>1 DEF Sanitize, Trimmed
<1>7. Pieces(S, p) = <<Empty, x>>
  <2>1. Pieces(S, << >>) = <<Empty>>
    BY PiecesAppend
  <2>2. Pieces(S, << >> \o <<Slash, x>>) = Append(Pieces(S, << >>), x)
    BY <1>1, PiecesChild
  <2> QED BY <1>1, <2>1, <2>2, OneMore
<1>8. IsAbsolute(<<Empty, x>>) = TRUE
  BY DEF IsAbsolute
<1>9. TakenFrom(W, TRUE, <<Empty, x>>).out = <<Empty, x>>
  <2>1. <<Empty>> \in Seq(W) /\ << >> \in Seq(W) /\ x \in W /\ Empty \in W /\ DotDot \in W
    OBVIOUS
  <2> HIDE DEF W
  <2>2. TakenFrom(W, TRUE, Append(<<Empty>>, x)) = TakeStep(TRUE, TakenFrom(W, TRUE, <<Empty>>), x)
    BY <2>1, TakenAppend
  <2>3. TakenFrom(W, TRUE, <<Empty>>).out = <<Empty>> /\ TakenFrom(W, TRUE, <<Empty>>) \in Taken(W)
    BY <2>1, TakenEmpty, TakenAppend
  <2> DEFINE acc == TakenFrom(W, TRUE, <<Empty>>)
  <2> HIDE DEF acc
  <2>4. acc.out = <<Empty>> /\ acc \in Taken(W)
    BY <2>3 DEF acc
  <2>5. TakeStep(TRUE, acc, x).out = Append(acc.out, x)
    BY <2>4 DEF TakeStep, Taken
  <2>6. Append(<<Empty>>, x) = <<Empty, x>>
    BY OneMore
  <2> QED BY <2>2, <2>4, <2>5, <2>6 DEF acc
<1>10. Join(<<Empty, x>>) = p
  <2>1. <<Empty>> \in Seq(W) /\ <<Empty>> # << >> /\ x \in W \ {Empty} /\ Slash \in W
    OBVIOUS
  <2> HIDE DEF W
  <2>2. Join(Append(<<Empty>>, x)) = Join(<<Empty>>) \o <<Slash, x>>
    <3> DEFINE es == <<Empty>>
    <3>1. es \in Seq(W) /\ es # << >>
      BY <2>1
    <3> HIDE DEF es
    <3>2. Join(Append(es, x)) = Join(es) \o <<Slash, x>>
      BY <2>1, <3>1, JoinAppend
    <3> QED BY <3>2 DEF es
  <2>3. Join(<<Empty>>) = << >>
    BY <2>1, JoinAppend
  <2> QED BY <1>1, <2>2, <2>3, OneMore
<1> HIDE DEF W
<1>11. Cleaned(S, p) = Join(<<Empty, x>>)
  BY <1>7, <1>8, <1>9 DEF Cleaned, W
<1> QED
  <2> HIDE DEF p
  <2>1. Simplify(p) = p
    BY <1>1, <1>6, <1>10, <1>11, SimplifyIs
  <2> QED BY <2>1 DEF p

\* A sequence of length one.
LEMMA OneElement ==
  ASSUME NEW C, NEW m \in Seq(C), Len(m) = 1
  PROVE  m = Append(<< >>, m[1]) /\ m[1] \in C
<1>1. m # << >>
  OBVIOUS
<1>2. PICK f \in Seq(C), x \in C : m = Append(f, x)
  BY <1>1, SequenceEmptyOrAppend
<1>3. Len(f) \in Nat /\ Len(m) = Len(f) + 1 /\ m[Len(f) + 1] = x
  BY <1>2, AppendProperties
<1>4. Len(f) = 0
  <2> DEFINE n == Len(f)
  <2>1. n \in Nat /\ 1 = n + 1
    BY <1>3
  <2> HIDE DEF n
  <2>2. n = 0
    BY <2>1
  <2> QED BY <2>2 DEF n
<1>5. f = << >>
  BY <1>4
<1> QED BY <1>2, <1>3, <1>4, <1>5

\* A path as mega_node_get_path writes it is simple.
LEMMA SimplifyText ==
  ASSUME PathsAssumption, NEW S, Slash \in S, DotDot \in S,
         NEW ns \in Seq(S \ {Slash, Dot, DotDot, Empty}), ns # << >>
  PROVE  Simplify(TextOf(ns)) = TextOf(ns)
<1> DEFINE C == S \ {Slash, Dot, DotDot, Empty}
           Simple(m) == Simplify(TextOf(m)) = TextOf(m)
           T == {k \in Nat : \A m \in Seq(C) : Len(m) = k + 1 => Simple(m)}
<1>1. 0 \in T
  <2>1. ASSUME NEW m \in Seq(C), Len(m) = 0 + 1 PROVE Simple(m)
    <3>1. m = Append(<< >>, m[1]) /\ m[1] \in C
      <4> HIDE DEF C
      <4>1. Len(m) = 1
        BY <2>1
      <4> QED BY <4>1, OneElement
    <3>2. << >> \in Seq(S) /\ m[1] \in S
      BY <3>1
    <3>3. TextOf(Append(<< >>, m[1])) = TextOf(<< >>) \o <<Slash, m[1]>> /\ TextOf(<< >>) = << >>
      BY <3>2, TextAppend
    <3>4. << >> \o <<Slash, m[1]>> = <<Slash, m[1]>>
      OBVIOUS
    <3>5. Simplify(<<Slash, m[1]>>) = <<Slash, m[1]>>
      BY <3>1, SimplifyTop
    <3> QED BY <3>1, <3>3, <3>4, <3>5
  <2> QED BY <2>1
<1>2. ASSUME NEW k \in T PROVE k + 1 \in T
  <2>1. SUFFICES ASSUME NEW m \in Seq(C), Len(m) = (k + 1) + 1 PROVE Simple(m)
    OBVIOUS
  <2>2. k \in Nat /\ m # << >>
    BY <2>1
  <2>3. PICK f \in Seq(C), x \in C : m = Append(f, x)
    <3> HIDE DEF C
    <3> QED BY <2>2, SequenceEmptyOrAppend
  <2>4. Len(f) = k + 1
    <3>1. Len(f) \in Nat /\ Len(m) = Len(f) + 1
      BY <2>3
    <3> QED BY <2>1, <2>2, <3>1
  <2>5. Simple(f)
    BY <2>4
  <2>6. f \in Seq(S) /\ x \in S
    OBVIOUS
  <2>7. TextOf(m) = TextOf(f) \o <<Slash, x>> /\ TextOf(f) \in Seq(S) /\ Len(TextOf(f)) = 2 * (k + 1)
    BY <2>3, <2>4, <2>6, TextAppend, TextLong
  <2>8. TextOf(f) # << >> /\ TextOf(f) # <<Slash>>
    <3>1. 2 * (k + 1) # 0 /\ 2 * (k + 1) # 1
      BY <2>2
    <3> QED BY <2>7, <3>1
  <2>9. Simplify(TextOf(f) \o <<Slash, x>>) = Simplify(TextOf(f)) \o <<Slash, x>>
    BY <2>5, <2>7, <2>8, SimplifyChild
  <2> QED BY <2>5, <2>7, <2>9
<1>3. T = Nat
  <2>1. T \in SUBSET Nat
    OBVIOUS
  <2> HIDE DEF T
  <2> QED BY <1>1, <1>2, <2>1, Induct
<1> QED
  <2>1. Len(ns) - 1 \in Nat /\ Len(ns) = (Len(ns) - 1) + 1
    OBVIOUS
  <2>2. Len(ns) - 1 \in T
    BY <1>3, <2>1
  <2> QED BY <2>1, <2>2

-----------------------------------------------------------------------------
(* The tree of the nodes.                                                   *)

\* The handles of nodes.
Handles(nodes) == {n.h : n \in Range(nodes)}

\* What Forest says, part by part.
LEMMA ForestIs ==
  ASSUME NEW nodes, Forest(nodes)
  PROVE  /\ \A i, j \in DOMAIN nodes : nodes[i].h = nodes[j].h => i = j
         /\ None \notin Handles(nodes) /\ None \notin Range(nodes) /\ None \notin Seq(Symbols(nodes))
         /\ \A n \in Range(nodes) : n.parent = None \/ n.parent \in Handles(nodes)
         /\ \A m, n \in Range(nodes) : n.parent = m.h => m.type # "file"
         /\ \A n \in Range(nodes) : n.h \in Handles(nodes) /\ n.name \notin {Slash, Dot, DotDot, Empty}
         /\ \A S \in SUBSET Handles(nodes) : S # {} => \E n \in Range(nodes) : n.h \in S /\ n.parent \notin S
<1>1. \A i, j \in DOMAIN nodes : nodes[i].h = nodes[j].h => i = j
  BY DEF Forest
<1>2. None \notin Handles(nodes) /\ None \notin Range(nodes) /\ None \notin Seq(Symbols(nodes))
  BY DEF Forest, Handles
<1>3. ASSUME NEW n \in Range(nodes)
      PROVE  /\ n.parent = None \/ \E m \in Range(nodes) : m.h = n.parent /\ m.type # "file"
             /\ n.name \notin {Slash, Dot, DotDot, Empty}
  BY DEF Forest
<1>4. \A S \in SUBSET Handles(nodes) : S # {} => \E n \in Range(nodes) : n.h \in S /\ n.parent \notin S
  BY DEF Forest, Handles
<1>5. \A n \in Range(nodes) : n.h \in Handles(nodes)
  BY DEF Handles
<1>6. \A m, n \in Range(nodes) : m.h = n.h => m = n
  <2>1. ASSUME NEW i \in DOMAIN nodes, NEW j \in DOMAIN nodes, nodes[i].h = nodes[j].h
        PROVE  nodes[i] = nodes[j]
    BY <1>1, <2>1
  <2> QED BY <2>1 DEF Range
<1>7. \A n \in Range(nodes) : n.parent = None \/ n.parent \in Handles(nodes)
  BY <1>3, <1>5
<1>8. ASSUME NEW m \in Range(nodes), NEW n \in Range(nodes), n.parent = m.h PROVE m.type # "file"
  <2>1. m.h # None
    BY <1>2, <1>5
  <2>2. PICK k \in Range(nodes) : k.h = n.parent /\ k.type # "file"
    BY <1>3, <1>8, <2>1
  <2> QED BY <1>6, <1>8, <2>2
<1> QED BY <1>1, <1>2, <1>3, <1>4, <1>5, <1>7, <1>8

\* A node is found by its handle.
LEMMA NodeOfIs ==
  ASSUME NEW nodes, Forest(nodes)
  PROVE  /\ \A n \in Range(nodes) : NodeOf(nodes, n.h) = n
         /\ \A h \in Handles(nodes) : NodeOf(nodes, h) \in Range(nodes) /\ NodeOf(nodes, h).h = h
<1>1. \A i, j \in DOMAIN nodes : nodes[i].h = nodes[j].h => i = j
  BY DEF Forest
<1>2. ASSUME NEW i \in DOMAIN nodes PROVE NodeOf(nodes, nodes[i].h) = nodes[i]
  <2>1. (CHOOSE j \in DOMAIN nodes : nodes[j].h = nodes[i].h) = i
    BY <1>1
  <2> QED BY <2>1 DEF NodeOf
<1>3. \A n \in Range(nodes) : NodeOf(nodes, n.h) = n
  BY <1>2 DEF Range
<1> QED BY <1>3 DEF Handles

\* The names of a node are those of its parent and its own.
LEMMA NamesOfIs ==
  ASSUME NEW nodes, Forest(nodes)
  PROVE  \A n \in Range(nodes) :
            NamesOf(nodes, n.h) = IF n.parent = None THEN <<n.name>>
                                  ELSE Append(NamesOf(nodes, n.parent), n.name)
<1> DEFINE H == {nodes[i].h : i \in DOMAIN nodes}
           Node(g) == NodeOf(nodes, g)
           Body(f, g) == IF Node(g).parent = None THEN <<Node(g).name>>
                         ELSE Append(f[Node(g).parent], Node(g).name)
           Closed(D) == D \in SUBSET H /\ \A g \in D : Node(g).parent = None \/ Node(g).parent \in D
           Solves(D, f) == Closed(D) /\ \A g \in D : f[g] = Body(f, g)
<1>1. H = Handles(nodes)
  BY DEF Handles, Range
<1>2. /\ \A n \in Range(nodes) : Node(n.h) = n
      /\ \A h \in H : Node(h) \in Range(nodes) /\ Node(h).h = h
  BY <1>1, NodeOfIs
<1> HIDE DEF H, Node
<1>3. \A h \in H : Node(h).parent = None \/ Node(h).parent \in H
  BY <1>1, <1>2, ForestIs
<1>4. ASSUME NEW S \in SUBSET H, S # {} PROVE \E h \in S : Node(h).parent \notin S
  <2>1. PICK n \in Range(nodes) : n.h \in S /\ n.parent \notin S
    BY <1>1, <1>4, ForestIs
  <2> QED BY <1>2, <2>1
<1>5. ASSUME NEW D, NEW f, Solves(D, f), NEW E, NEW g, Solves(E, g), NEW h \in D, h \in E PROVE f[h] = g[h]
  <2> DEFINE S == {k \in D \cap E : f[k] # g[k]}
  <2>1. SUFFICES ASSUME S # {} PROVE FALSE
    BY <1>5
  <2>2. PICK k \in S : Node(k).parent \notin S
    <3>1. S \in SUBSET H
      BY <1>5
    <3> HIDE DEF S
    <3> QED BY <1>4, <2>1, <3>1
  <2>3. Node(k).parent = None \/ (Node(k).parent \in D \cap E /\ f[Node(k).parent] = g[Node(k).parent])
    BY <1>5, <2>2
  <2>4. f[k] = Body(f, k) /\ g[k] = Body(g, k)
    BY <1>5, <2>2
  <2> QED BY <2>2, <2>3, <2>4
<1>6. ASSUME NEW h \in H PROVE \E D, f : Solves(D, f) /\ h \in D
  <2> DEFINE S == {k \in H : ~ \E D, f : Solves(D, f) /\ k \in D}
  <2>1. SUFFICES ASSUME S # {} PROVE FALSE
    OBVIOUS
  <2>2. PICK k \in S : Node(k).parent \notin S
    <3>1. S \in SUBSET H
      OBVIOUS
    <3> HIDE DEF S
    <3> QED BY <1>4, <2>1, <3>1
  <2>3. k \in H /\ \A D, f : Solves(D, f) => k \notin D
    <3> HIDE DEF Solves
    <3> QED BY <2>2
  <2>4. CASE Node(k).parent = None
    <3> DEFINE E == {k}
               g == [j \in E |-> <<Node(k).name>>]
    <3>1. Solves(E, g)
      BY <2>3, <2>4
    <3> HIDE DEF g, Solves
    <3> QED BY <2>3, <3>1
  <2>5. CASE Node(k).parent # None
    <3>1. Node(k).parent \in H /\ Node(k).parent \notin S
      BY <1>3, <2>2, <2>3, <2>5
    <3>2. PICK D, f : Solves(D, f) /\ Node(k).parent \in D
      BY <3>1
    <3> DEFINE E == D \cup {k}
               g == [j \in E |-> IF j = k THEN Append(f[Node(k).parent], Node(k).name) ELSE f[j]]
    <3>3. k \notin D
      BY <2>3, <3>2
    <3>4. \A j \in D : g[j] = f[j]
      BY <3>3
    <3>5. Closed(E)
      BY <2>3, <3>2
    <3>6. g[k] = Body(g, k)
      <4>1. g[k] = Append(f[Node(k).parent], Node(k).name)
        OBVIOUS
      <4> HIDE DEF g
      <4> QED BY <2>5, <3>2, <3>4, <4>1
    <3>7. ASSUME NEW j \in D PROVE g[j] = Body(g, j)
      <4>1. f[j] = Body(f, j) /\ (Node(j).parent = None \/ Node(j).parent \in D)
        BY <3>2
      <4> HIDE DEF g
      <4> QED BY <3>4, <4>1
    <3> HIDE DEF g
    <3>8. Solves(E, g)
      BY <3>5, <3>6, <3>7
    <3> HIDE DEF Solves
    <3> QED BY <2>3, <3>8
  <2> QED BY <2>4, <2>5
<1> DEFINE Value(h, z) == \E D, f : Solves(D, f) /\ h \in D /\ z = f[h]
           F == [h \in H |-> CHOOSE z : Value(h, z)]
<1>7. ASSUME NEW D, NEW f, Solves(D, f), NEW h \in D PROVE h \in H /\ F[h] = f[h]
  <2>1. h \in H
    BY <1>7
  <2>2. Value(h, f[h])
    BY <1>7
  <2>3. ASSUME NEW z, Value(h, z) PROVE z = f[h]
    <3> HIDE DEF Solves
    <3>1. PICK E, g : Solves(E, g) /\ h \in E /\ z = g[h]
      BY <2>3
    <3> QED BY <1>5, <1>7, <3>1
  <2> HIDE DEF Value
  <2>4. (CHOOSE z : Value(h, z)) = f[h]
    BY <2>2, <2>3
  <2> QED BY <2>1, <2>4
<1> HIDE DEF F
<1>8. ASSUME NEW h \in H PROVE F[h] = Body(F, h)
  <2>1. PICK D, f : Solves(D, f) /\ h \in D
    BY <1>6
  <2>2. F[h] = f[h] /\ f[h] = Body(f, h)
    BY <1>7, <2>1
  <2>3. Node(h).parent = None \/ Node(h).parent \in D
    BY <2>1
  <2>4. Node(h).parent \in D => F[Node(h).parent] = f[Node(h).parent]
    <3> HIDE DEF Solves
    <3> QED BY <1>7, <2>1
  <2> QED BY <2>2, <2>3, <2>4
<1> DEFINE Is(f) == f = [g \in H |-> Body(f, g)]
<1>9. Is(F)
  <2>1. F = [h \in H |-> F[h]]
    BY DEF F
  <2> QED BY <1>8, <2>1
<1>10. \A h : NamesOf(nodes, h) = (CHOOSE f : Is(f))[h]
  BY DEF NamesOf, H, Node
<1>11. PICK f : Is(f) /\ \A h : NamesOf(nodes, h) = f[h]
  BY <1>9, <1>10
<1>12. \A h \in H : f[h] = Body(f, h)
  BY <1>11
<1>13. \A n \in Range(nodes) : n.h \in H
  BY <1>1 DEF Handles
<1>14. ASSUME NEW n \in Range(nodes)
       PROVE  NamesOf(nodes, n.h) = IF n.parent = None THEN <<n.name>>
                                    ELSE Append(NamesOf(nodes, n.parent), n.name)
  <2>1. Node(n.h) = n /\ n.h \in H
    BY <1>2, <1>13
  <2>2. f[n.h] = Body(f, n.h)
    BY <1>12, <2>1
  <2> HIDE DEF Is
  <2> QED BY <1>11, <2>1, <2>2
<1> QED BY <1>14

\* What is true of a node whenever it is true of its parent is true of all.
LEMMA TreeInduct ==
  ASSUME NEW nodes, Forest(nodes), NEW T \in SUBSET Handles(nodes),
         \A n \in Range(nodes) : n.parent = None \/ n.parent \in T => n.h \in T
  PROVE  T = Handles(nodes)
<1> DEFINE S == Handles(nodes) \ T
<1>1. SUFFICES ASSUME S # {} PROVE FALSE
  OBVIOUS
<1>2. PICK n \in Range(nodes) : n.h \in S /\ n.parent \notin S
  <2>1. S \in SUBSET Handles(nodes)
    OBVIOUS
  <2> HIDE DEF S
  <2> QED BY <1>1, <2>1, ForestIs
<1>3. n.parent = None \/ n.parent \in Handles(nodes)
  BY ForestIs
<1> QED BY <1>2, <1>3

\* The names of nodes.
NamesIn(nodes) == {n.name : n \in Range(nodes)}

\* The names of a node are a list of names, and there is one at least.
LEMMA NamesTyped ==
  ASSUME NEW nodes, Forest(nodes), NEW h \in Handles(nodes)
  PROVE  NamesOf(nodes, h) \in Seq(NamesIn(nodes)) /\ NamesOf(nodes, h) # << >>
<1> DEFINE P(g) == NamesOf(nodes, g) \in Seq(NamesIn(nodes)) /\ NamesOf(nodes, g) # << >>
           T == {g \in Handles(nodes) : P(g)}
<1>1. ASSUME NEW n \in Range(nodes), n.parent = None \/ n.parent \in T PROVE n.h \in T
  <2>1. n.name \in NamesIn(nodes) /\ n.h \in Handles(nodes)
    BY DEF NamesIn, Handles
  <2>2. NamesOf(nodes, n.h) = IF n.parent = None THEN <<n.name>>
                              ELSE Append(NamesOf(nodes, n.parent), n.name)
    BY NamesOfIs
  <2>3. CASE n.parent = None
    <3>1. NamesOf(nodes, n.h) = <<n.name>>
      BY <2>2, <2>3
    <3>2. <<n.name>> \in Seq(NamesIn(nodes)) /\ <<n.name>> # << >>
      BY <2>1
    <3>3. P(n.h)
      BY <3>1, <3>2
    <3> QED BY <2>1, <3>3
  <2>4. CASE n.parent # None
    <3>1. NamesOf(nodes, n.parent) \in Seq(NamesIn(nodes))
      BY <1>1, <2>4
    <3>2. NamesOf(nodes, n.h) = Append(NamesOf(nodes, n.parent), n.name)
      BY <2>2, <2>4
    <3>3. P(n.h)
      BY <2>1, <3>1, <3>2, AppendProperties
    <3> QED BY <2>1, <3>3
  <2> QED BY <2>3, <2>4
<1>2. T = Handles(nodes)
  <2>1. T \in SUBSET Handles(nodes)
    OBVIOUS
  <2> HIDE DEF T
  <2> QED BY <1>1, <2>1, TreeInduct
<1> QED BY <1>2

\* A path that mega_node_get_path writes: of which names it is, and that it is
\* simple.
LEMMA PathTyped ==
  ASSUME PathsAssumption, NEW nodes, Forest(nodes), NEW h \in Handles(nodes)
  PROVE  /\ TextOf(NamesOf(nodes, h)) \in Seq(Symbols(nodes))
         /\ Simplify(TextOf(NamesOf(nodes, h))) = TextOf(NamesOf(nodes, h))
         /\ Len(TextOf(NamesOf(nodes, h))) > 1
<1> DEFINE S == Symbols(nodes)
           C == S \ {Slash, Dot, DotDot, Empty}
           ns == NamesOf(nodes, h)
<1>1. Slash \in S /\ DotDot \in S
  BY DEF Symbols, NamesIn
<1>2. ns \in Seq(NamesIn(nodes)) /\ ns # << >>
  BY NamesTyped
<1>3. NamesIn(nodes) \in SUBSET C /\ NamesIn(nodes) \in SUBSET S
  <2>1. NamesIn(nodes) \in SUBSET S
    BY DEF NamesIn, Symbols
  <2>2. \A x \in NamesIn(nodes) : x \notin {Slash, Dot, DotDot, Empty}
    BY ForestIs DEF NamesIn
  <2> QED BY <2>1, <2>2
<1> HIDE DEF S, C, ns
<1>4. ns \in Seq(C) /\ ns \in Seq(S)
  BY <1>2, <1>3
<1>5. TextOf(ns) \in Seq(S) /\ Len(TextOf(ns)) = 2 * Len(ns)
  BY <1>1, <1>4, TextAppend, TextLong
<1>6. Simplify(TextOf(ns)) = TextOf(ns)
  BY <1>1, <1>2, <1>4, SimplifyText DEF C
<1>7. Len(TextOf(ns)) > 1
  <2> DEFINE n == Len(ns)
             k == Len(TextOf(ns))
  <2>1. n \in Nat /\ n # 0 /\ k = 2 * n
    BY <1>2, <1>5
  <2> HIDE DEF n, k
  <2>2. k > 1
    BY <2>1
  <2> QED BY <2>2 DEF k
<1> QED BY <1>5, <1>6, <1>7 DEF S, ns

-----------------------------------------------------------------------------
(* What is found in the list of nodes.                                      *)

\* What a sequence t has is what s has, and c.
Adds(t, s, c) == Range(t) = Range(s) \cup {c}

\* One more element, at either end.
LEMMA RangeMore ==
  ASSUME NEW R, NEW s \in Seq(R), NEW c \in R
  PROVE  Adds(Append(s, c), s, c) /\ Adds(<<c>> \o s, s, c)
<1>1. Append(s, c) = s \o <<c>> /\ <<c>> \in Seq(R)
  BY AppendIsConcat
<1>2. Range(<<c>>) = {c}
  BY DEF Range
<1>3. /\ Range(s \o <<c>>) = Range(s) \cup Range(<<c>>)
      /\ Range(<<c>> \o s) = Range(<<c>>) \cup Range(s)
  <2> DEFINE one == <<c>>
  <2>1. one \in Seq(R)
    BY <1>1
  <2> HIDE DEF one
  <2>2. Range(s \o one) = Range(s) \cup Range(one)
    BY <2>1, RangeConcatenation
  <2>3. Range(one \o s) = Range(one) \cup Range(s)
    BY <2>1, RangeConcatenation
  <2> QED BY <2>2, <2>3 DEF one
<1>4. {c} \cup Range(s) = Range(s) \cup {c}
  OBVIOUS
<1> QED BY <1>1, <1>2, <1>3, <1>4 DEF Adds

\* The operation of a fold that keeps the elements of K.
Keeps(R, K, G) ==
    /\ FoldOp(Seq(R), R, G, << >>)
    /\ \A d \in Seq(R), c \in R : Range(G[<<d, c>>]) = Range(d) \cup (IF c \in K THEN {c} ELSE {})

\* Such a fold ends with those of the list.
LEMMA KeptIs ==
  ASSUME NEW R, NEW K, NEW G, Keeps(R, K, G)
  PROVE  \A s \in Seq(R) : /\ Folded(Seq(R), G, << >>, s) \in Seq(R)
                           /\ Range(Folded(Seq(R), G, << >>, s)) = {c \in Range(s) : c \in K}
<1> DEFINE F(s) == Folded(Seq(R), G, << >>, s)
           Right(s) == Range(F(s)) = {c \in Range(s) : c \in K}
           T == {k \in Nat : \A s \in Seq(R) : Len(s) = k => Right(s)}
<1>1. /\ F(<< >>) = << >>
      /\ \A s \in Seq(R) : F(s) \in Seq(R)
      /\ \A s \in Seq(R), c \in R : F(Append(s, c)) = G[<<F(s), c>>]
  BY FoldedAppend DEF Keeps
<1> HIDE DEF F
<1>2. 0 \in T
  <2>1. ASSUME NEW s \in Seq(R), Len(s) = 0 PROVE Right(s)
    <3>1. s = << >>
      BY <2>1
    <3>2. Range(<< >>) = {}
      BY DEF Range
    <3> QED BY <1>1, <3>1, <3>2
  <2> QED BY <2>1
<1>3. ASSUME NEW k \in T PROVE k + 1 \in T
  <2>1. SUFFICES ASSUME NEW s \in Seq(R), Len(s) = k + 1 PROVE Right(s)
    OBVIOUS
  <2>2. k \in Nat /\ s # << >>
    BY <2>1
  <2>3. PICK f \in Seq(R), x \in R : s = Append(f, x)
    BY <2>2, SequenceEmptyOrAppend
  <2>4. Len(f) = k
    <3>1. Len(f) \in Nat /\ Len(s) = Len(f) + 1
      BY <2>3
    <3> QED BY <2>1, <2>2, <3>1
  <2>5. Right(f)
    BY <2>4
  <2>6. Range(F(s)) = Range(F(f)) \cup (IF x \in K THEN {x} ELSE {})
    <3>1. F(f) \in Seq(R) /\ F(Append(f, x)) = G[<<F(f), x>>]
      BY <1>1
    <3>2. Range(G[<<F(f), x>>]) = Range(F(f)) \cup (IF x \in K THEN {x} ELSE {})
      BY <3>1 DEF Keeps
    <3> QED BY <2>3, <3>1, <3>2
  <2>7. Range(s) = Range(f) \cup {x}
    <3>1. Adds(Append(f, x), f, x)
      BY RangeMore, Zenon
    <3>2. Adds(s, f, x)
      BY <2>3, <3>1
    <3> QED BY <3>2 DEF Adds
  <2> QED BY <2>5, <2>6, <2>7
<1>4. T = Nat
  <2>1. T \in SUBSET Nat
    OBVIOUS
  <2> HIDE DEF T
  <2> QED BY <1>2, <1>3, <2>1, Induct
<1>5. ASSUME NEW s \in Seq(R) PROVE Right(s)
  <2>1. Len(s) \in T
    BY <1>4
  <2> QED BY <2>1
<1> QED BY <1>1, <1>5 DEF F

\* The children of a node are the nodes with its handle as their parent.
LEMMA ChildrenIs ==
  ASSUME NEW R, NEW nodes \in Seq(R), NEW h
  PROVE  /\ Children(nodes, h) \in Seq(R)
         /\ Range(Children(nodes, h)) = {n \in Range(nodes) : n.parent = h}
<1> DEFINE D == Seq(R)
           K == {n \in R : n.parent = h}
           Step(found, n) == IF n.parent = h THEN Append(found, n) ELSE found
           G == [x \in Seq(R) \X R |-> Step(x[1], x[2])]
           Is(f) == f = [t \in SUBSET DOMAIN nodes |->
                            IF t = {} THEN << >> ELSE Step(f[t \ {Max(t)}], nodes[Max(t)])]
<1>1. Children(nodes, h) = (CHOOSE f : Is(f))[DOMAIN nodes]
  BY DEF Children, FoldLeft, MapThenFoldSet
<1>2. DOMAIN nodes = 1 .. Len(nodes)
  OBVIOUS
<1>3. /\ FoldOp(D, R, G, << >>)
      /\ \A d \in D, c \in R : G[<<d, c>>] = Step(d, c)
  <2>1. \A d \in D, c \in R : Step(d, c) \in D
    OBVIOUS
  <2>2. \A d \in D, c \in R : G[<<d, c>>] = Step(d, c)
    OBVIOUS
  <2> HIDE DEF Step
  <2>3. G \in [D \X R -> D]
    BY <2>1
  <2> QED BY <2>2, <2>3 DEF FoldOp
<1>4. \A d \in D, c \in R : Range(G[<<d, c>>]) = Range(d) \cup (IF c \in K THEN {c} ELSE {})
  <2>1. SUFFICES ASSUME NEW d \in D, NEW c \in R
                 PROVE  Range(G[<<d, c>>]) = Range(d) \cup (IF c \in K THEN {c} ELSE {})
    OBVIOUS
  <2>2. G[<<d, c>>] = Step(d, c)
    BY <1>3
  <2> HIDE DEF G
  <2>3. CASE c \in K
    <3>1. Adds(Append(d, c), d, c)
      <4>1. d \in Seq(R)
        OBVIOUS
      <4> HIDE DEF D, K, Step
      <4> QED BY <4>1, RangeMore, Zenon
    <3>2. Step(d, c) = Append(d, c)
      BY <2>3
    <3> HIDE DEF Step
    <3>3. Adds(G[<<d, c>>], d, c)
      BY <2>2, <3>1, <3>2, Zenon
    <3> QED BY <2>3, <3>3 DEF Adds
  <2>4. CASE c \notin K
    <3>1. Step(d, c) = d
      BY <2>4
    <3> HIDE DEF Step
    <3> QED BY <2>2, <2>4, <3>1
  <2> QED BY <2>3, <2>4
<1> HIDE DEF D, G, Step
<1>5. \E f : Is(f)
  <2>1. PICK f \in [SUBSET (1 .. Len(nodes)) -> D] : FoldsAll(f, D, G, << >>, nodes)
    BY <1>3, FoldExists
  <2>2. \A t \in SUBSET DOMAIN nodes :
          f[t] = IF t = {} THEN << >> ELSE Step(f[t \ {Max(t)}], nodes[Max(t)])
    BY <1>2, <1>3, <2>1, LastPlace DEF FoldsAll
  <2>3. Is(f)
    BY <1>2, <2>1, <2>2
  <2> QED BY <2>3
<1>6. PICK f : Is(f) /\ Children(nodes, h) = f[DOMAIN nodes]
  BY <1>1, <1>5
<1>7. FoldsAll(f, D, G, << >>, nodes)
  <2>1. \A t \in SUBSET (1 .. Len(nodes)) :
          f[t] = IF t = {} THEN << >> ELSE Step(f[t \ {Max(t)}], nodes[Max(t)])
    BY <1>2, <1>6
  <2> QED BY <1>3, <2>1, LastPlace DEF FoldsAll
<1>8. Children(nodes, h) = Folded(D, G, << >>, nodes)
  <2>1. IsFold(f, D, G, << >>, nodes)
    BY <1>3, <1>7, FoldsAllIsFold
  <2>2. f[1 .. Len(nodes)] = Folded(D, G, << >>, nodes)
    BY <1>3, <2>1, FoldedIs
  <2> QED BY <1>2, <1>6, <2>2
<1>9. Folded(Seq(R), G, << >>, nodes) \in Seq(R) /\ Range(Folded(Seq(R), G, << >>, nodes)) = {c \in Range(nodes) : c \in K}
  <2> HIDE DEF K
  <2>1. FoldOp(Seq(R), R, G, << >>)
    BY <1>3 DEF D
  <2>2. \A d \in Seq(R), c \in R : Range(G[<<d, c>>]) = Range(d) \cup (IF c \in K THEN {c} ELSE {})
    BY <1>4 DEF D
  <2>3. Keeps(R, K, G)
    BY <2>1, <2>2 DEF Keeps
  <2> QED BY <2>3, KeptIs
<1>10. {c \in Range(nodes) : c \in K} = {n \in Range(nodes) : n.parent = h}
  <2>1. Range(nodes) \in SUBSET R
    BY RangeOfSeq
  <2> QED BY <2>1
<1> QED BY <1>8, <1>9, <1>10 DEF D

\* What a listing of one directory finds are nodes of the list that are in it.
LEMMA LsIs ==
  ASSUME NEW R, NEW nodes \in Seq(R), NEW path
  PROVE  /\ Ls(nodes, path, FALSE) \in Seq(R)
         /\ Range(Ls(nodes, path, FALSE))
               = {n \in Range(nodes) : InListing(nodes, n.h, Simplify(path), FALSE)}
<1> DEFINE D == Seq(R)
           In(n) == InListing(nodes, n.h, Simplify(path), FALSE)
           K == {n \in R : In(n)}
           Step(found, n) == IF In(n) THEN <<n>> \o found ELSE found
           G == [x \in Seq(R) \X R |-> Step(x[1], x[2])]
           Is(f) == f = [t \in SUBSET DOMAIN nodes |->
                            IF t = {} THEN << >> ELSE Step(f[t \ {Max(t)}], nodes[Max(t)])]
<1>1. Ls(nodes, path, FALSE) = (CHOOSE f : Is(f))[DOMAIN nodes]
  BY DEF Ls, FoldLeft, MapThenFoldSet
<1> HIDE DEF In
<1>2. DOMAIN nodes = 1 .. Len(nodes)
  OBVIOUS
<1>3. /\ FoldOp(D, R, G, << >>)
      /\ \A d \in D, c \in R : G[<<d, c>>] = Step(d, c)
  <2>1. \A d \in D, c \in R : Step(d, c) \in D
    <3>1. \A d \in D, c \in R : <<c>> \o d \in D
      <4>1. SUFFICES ASSUME NEW d \in D, NEW c \in R PROVE <<c>> \o d \in D
        OBVIOUS
      <4>2. <<c>> \in Seq(R)
        OBVIOUS
      <4> QED BY <4>2, ConcatProperties
    <3> QED BY <3>1
  <2>2. \A d \in D, c \in R : G[<<d, c>>] = Step(d, c)
    OBVIOUS
  <2> HIDE DEF Step
  <2>3. G \in [D \X R -> D]
    BY <2>1
  <2> QED BY <2>2, <2>3 DEF FoldOp
<1>4. \A d \in D, c \in R : Range(G[<<d, c>>]) = Range(d) \cup (IF c \in K THEN {c} ELSE {})
  <2>1. SUFFICES ASSUME NEW d \in D, NEW c \in R
                 PROVE  Range(G[<<d, c>>]) = Range(d) \cup (IF c \in K THEN {c} ELSE {})
    OBVIOUS
  <2>2. G[<<d, c>>] = Step(d, c)
    BY <1>3
  <2> HIDE DEF G
  <2>3. CASE c \in K
    <3>1. Adds(<<c>> \o d, d, c)
      <4>1. d \in Seq(R)
        OBVIOUS
      <4> HIDE DEF D, K, Step
      <4> QED BY <4>1, RangeMore, Zenon
    <3>2. Step(d, c) = <<c>> \o d
      BY <2>3
    <3> HIDE DEF Step
    <3>3. Adds(G[<<d, c>>], d, c)
      BY <2>2, <3>1, <3>2, Zenon
    <3> QED BY <2>3, <3>3 DEF Adds
  <2>4. CASE c \notin K
    <3>1. Step(d, c) = d
      BY <2>4
    <3> HIDE DEF Step
    <3> QED BY <2>2, <2>4, <3>1
  <2> QED BY <2>3, <2>4
<1> HIDE DEF D, G, Step
<1>5. \E f : Is(f)
  <2>1. PICK f \in [SUBSET (1 .. Len(nodes)) -> D] : FoldsAll(f, D, G, << >>, nodes)
    BY <1>3, FoldExists
  <2>2. \A t \in SUBSET DOMAIN nodes :
          f[t] = IF t = {} THEN << >> ELSE Step(f[t \ {Max(t)}], nodes[Max(t)])
    BY <1>2, <1>3, <2>1, LastPlace DEF FoldsAll
  <2>3. Is(f)
    BY <1>2, <2>1, <2>2
  <2> QED BY <2>3
<1>6. PICK f : Is(f) /\ Ls(nodes, path, FALSE) = f[DOMAIN nodes]
  BY <1>1, <1>5
<1>7. FoldsAll(f, D, G, << >>, nodes)
  <2>1. \A t \in SUBSET (1 .. Len(nodes)) :
          f[t] = IF t = {} THEN << >> ELSE Step(f[t \ {Max(t)}], nodes[Max(t)])
    BY <1>2, <1>6
  <2> QED BY <1>3, <2>1, LastPlace DEF FoldsAll
<1>8. Ls(nodes, path, FALSE) = Folded(D, G, << >>, nodes)
  <2>1. IsFold(f, D, G, << >>, nodes)
    BY <1>3, <1>7, FoldsAllIsFold
  <2>2. f[1 .. Len(nodes)] = Folded(D, G, << >>, nodes)
    BY <1>3, <2>1, FoldedIs
  <2> QED BY <1>2, <1>6, <2>2
<1>9. Folded(Seq(R), G, << >>, nodes) \in Seq(R) /\ Range(Folded(Seq(R), G, << >>, nodes)) = {c \in Range(nodes) : c \in K}
  <2> HIDE DEF K
  <2>1. FoldOp(Seq(R), R, G, << >>)
    BY <1>3 DEF D
  <2>2. \A d \in Seq(R), c \in R : Range(G[<<d, c>>]) = Range(d) \cup (IF c \in K THEN {c} ELSE {})
    BY <1>4 DEF D
  <2>3. Keeps(R, K, G)
    BY <2>1, <2>2 DEF Keeps
  <2> QED BY <2>3, KeptIs
<1>10. {c \in Range(nodes) : c \in K} = {n \in Range(nodes) : In(n)}
  <2>1. Range(nodes) \in SUBSET R
    BY RangeOfSeq
  <2> QED BY <2>1
<1> QED BY <1>8, <1>9, <1>10 DEF D, In

\* A node found by its path is the node of a path that fits the buffer.
LEMMA StatIs ==
  ASSUME NEW R, NEW nodes \in Seq(R), NEW path, Stat(nodes, path) # None, Simplify(path) # None
  PROVE  /\ Stat(nodes, path) \in Range(nodes)
         /\ TextOf(NamesOf(nodes, Stat(nodes, path).h)) = Simplify(path)
<1> DEFINE at == {i \in DOMAIN nodes : NodePath(nodes, nodes[i].h) = Simplify(path)}
           m == Min(at)
<1>1. at # {} /\ Stat(nodes, path) = nodes[m]
  BY DEF Stat, WithPath
<1>2. m \in at
  <2>1. at \in SUBSET Nat
    OBVIOUS
  <2> HIDE DEF at
  <2>2. \E k \in at : \A j \in at : k <= j
    BY <1>1, <2>1, Smallest
  <2> QED BY <2>2 DEF Min
<1> HIDE DEF m
<1>3. m \in DOMAIN nodes /\ NodePath(nodes, nodes[m].h) = Simplify(path)
  BY <1>2
<1>4. nodes[m] \in Range(nodes)
  BY <1>3 DEF Range
<1> QED BY <1>1, <1>3, <1>4 DEF NodePath

-----------------------------------------------------------------------------
(* The nodes below a directory.                                             *)

\* The parts of a sequence of two.
LEMMA PartsIs ==
  ASSUME NEW S, NEW a \in Seq(S), NEW b \in Seq(S)
  PROVE  /\ SubSeq(a \o b, Len(a) + 1, Len(a \o b)) = b
         /\ SubSeq(a \o b, 1, Len(a)) = a
<1> DEFINE u == a \o b
           m == Len(a)
           n == Len(b)
<1>1. /\ u \in Seq(S) /\ Len(u) = m + n /\ m \in Nat /\ n \in Nat
      /\ \A i \in 1 .. m + n : u[i] = IF i <= m THEN a[i] ELSE b[i - m]
  BY ConcatProperties
<1>2. \A i \in 1 .. m + n : u[i] \in S
  <2> HIDE DEF u, m, n
  <2>1. DOMAIN u = 1 .. m + n
    BY <1>1
  <2> QED BY <1>1, <2>1
<1>3. a \in Seq(S) /\ b \in Seq(S) /\ Len(a) = m /\ Len(b) = n
  OBVIOUS
<1> HIDE DEF u, m, n
<1>4. SubSeq(u, m + 1, m + n) = b
  <2> DEFINE v == SubSeq(u, m + 1, m + n)
  <2>1. m + 1 \in Int /\ m + n \in Int /\ \A i \in m + 1 .. m + n : u[i] \in S
    BY <1>1, <1>2
  <2>2. /\ v \in Seq(S)
        /\ Len(v) = IF m + 1 <= m + n THEN (m + n) - (m + 1) + 1 ELSE 0
        /\ \A i \in 1 .. (m + n) - (m + 1) + 1 : v[i] = u[(m + 1) + i - 1]
    BY <2>1, SubSeqProperties
  <2> HIDE DEF v
  <2>3. Len(v) = n /\ (m + n) - (m + 1) + 1 = n
    BY <1>1, <2>2
  <2>4. ASSUME NEW i \in 1 .. n PROVE v[i] = b[i]
    <3>1. (m + 1) + i - 1 = m + i /\ m + i \in 1 .. m + n /\ ~(m + i <= m) /\ (m + i) - m = i
      BY <1>1
    <3>2. v[i] = u[m + i]
      BY <2>2, <2>3, <3>1
    <3> QED BY <1>1, <3>1, <3>2
  <2>5. v = b
    BY <1>3, <2>2, <2>3, <2>4, SeqEqual
  <2> QED BY <2>5 DEF v
<1>5. SubSeq(u, 1, m) = a
  <2> DEFINE v == SubSeq(u, 1, m)
  <2>1. 1 \in Int /\ m \in Int /\ \A i \in 1 .. m : u[i] \in S
    BY <1>1, <1>2
  <2>2. /\ v \in Seq(S)
        /\ Len(v) = IF 1 <= m THEN m - 1 + 1 ELSE 0
        /\ \A i \in 1 .. m - 1 + 1 : v[i] = u[1 + i - 1]
    BY <2>1, SubSeqProperties
  <2> HIDE DEF v
  <2>3. Len(v) = m /\ m - 1 + 1 = m
    BY <1>1, <2>2
  <2>4. ASSUME NEW i \in 1 .. m PROVE v[i] = a[i]
    <3>1. 1 + i - 1 = i /\ i \in 1 .. m + n /\ i <= m
      BY <1>1
    <3> QED BY <1>1, <2>2, <2>3, <3>1
  <2>5. v = a
    BY <1>3, <2>2, <2>3, <2>4, SeqEqual
  <2> QED BY <2>5 DEF v
<1> QED BY <1>1, <1>4, <1>5 DEF u, m, n

\* c is a with b after it.
Extends(c, a, b) == c = a \o b

\* An element after two sequences.
LEMMA ConcatAppend ==
  ASSUME NEW S, NEW a \in Seq(S), NEW b \in Seq(S), NEW x \in S
  PROVE  Extends(Append(a \o b, x), a, Append(b, x)) /\ Append(b, x) \in Seq(S)
<1>1. <<x>> \in Seq(S) /\ a \o b \in Seq(S)
  BY ConcatProperties
<1>2. Append(a \o b, x) = (a \o b) \o <<x>>
  BY <1>1, AppendIsConcat
<1>3. (a \o b) \o <<x>> = a \o (b \o <<x>>)
  BY <1>1, ConcatAssociative
<1>4. Append(b, x) = b \o <<x>> /\ Append(b, x) \in Seq(S)
  BY AppendIsConcat
<1> QED BY <1>2, <1>3, <1>4 DEF Extends

\* A sequence after two sequences.
LEMMA Regroup ==
  ASSUME NEW S, NEW a \in Seq(S), NEW p \in Seq(S), NEW q \in Seq(S),
         NEW c, Extends(c, a, p), NEW d, d = c \o q
  PROVE  p \o q \in Seq(S) /\ Extends(d, a, p \o q)
<1>1. d = (a \o p) \o q
  BY Zenon DEF Extends
<1>2. (a \o p) \o q = a \o (p \o q)
  BY ConcatAssociative
<1>3. p \o q \in Seq(S)
  BY ConcatProperties
<1> QED BY <1>1, <1>2, <1>3, Zenon DEF Extends

\* A sequence is no longer than it is with another after it.
LEMMA PrefixLength ==
  ASSUME NEW S, NEW p \in Seq(S), NEW q \in Seq(S)
  PROVE  Len(p) \in 0 .. Len(p \o q)
<1> DEFINE i == Len(p)
           j == Len(q)
           k == Len(p \o q)
<1>1. i \in Nat /\ j \in Nat
  OBVIOUS
<1>2. k = i + j
  BY ConcatProperties
<1> HIDE DEF i, j, k
<1>3. i \in 0 .. k
  BY <1>1, <1>2
<1> QED BY <1>3 DEF i, k

\* The nodes are the range of the list.
LEMMA NodesAre == Nodes = Range(fs) /\ HandlesOf = Handles(fs)
<1>1. Nodes = Range(fs)
  BY DEF Nodes, Range
<1> QED BY <1>1 DEF HandlesOf, Handles

\* The handles below a node: its own, with each its children's, each below a
\* child but its own, and each with the node's names before its own.
LEMMA UnderIs ==
  ASSUME Forest(fs), NEW h \in HandlesOf
  PROVE  /\ h \in Under(h) /\ Under(h) \in SUBSET HandlesOf
         /\ \A n \in Nodes : n.parent \in Under(h) => n.h \in Under(h)
         /\ \A g \in Under(h) : g = h \/ \E c \in Nodes : c.parent = h /\ g \in Under(c.h)
         /\ \A g \in Under(h) : \E p \in Seq(NamesIn(fs)) : NamesOf(fs, g) = NamesOf(fs, h) \o p
<1> DEFINE Closed(S) == \A n \in Nodes : n.parent \in S => n.h \in S
<1>1. \A k : Under(k) = {g \in HandlesOf : \A S \in SUBSET HandlesOf : k \in S /\ Closed(S) => g \in S}
  BY DEF Under
<1>2. \A n \in Nodes : n.h \in HandlesOf
  BY DEF HandlesOf
<1> HIDE DEF Closed
<1>3. \A k \in HandlesOf : k \in Under(k) /\ Under(k) \in SUBSET HandlesOf
  BY <1>1
<1>4. ASSUME NEW k \in HandlesOf PROVE Closed(Under(k))
  <2>1. ASSUME NEW n \in Nodes, n.parent \in Under(k) PROVE n.h \in Under(k)
    <3>1. ASSUME NEW S \in SUBSET HandlesOf, k \in S, Closed(S) PROVE n.h \in S
      <4>1. n.parent \in S
        BY <1>1, <2>1, <3>1
      <4> QED BY <3>1, <4>1 DEF Closed
    <3> QED BY <1>1, <1>2, <3>1
  <2> QED BY <2>1 DEF Closed
<1>5. ASSUME NEW S \in SUBSET HandlesOf, h \in S, Closed(S) PROVE Under(h) \in SUBSET S
  BY <1>1, <1>5
<1>6. ASSUME NEW g \in Under(h) PROVE g = h \/ \E c \in Nodes : c.parent = h /\ g \in Under(c.h)
  <2> DEFINE S == {k \in HandlesOf : k = h \/ \E c \in Nodes : c.parent = h /\ k \in Under(c.h)}
  <2>1. S \in SUBSET HandlesOf /\ h \in S
    OBVIOUS
  <2>2. ASSUME NEW n \in Nodes, n.parent \in S PROVE n.h \in S
    <3>1. CASE n.parent = h
      <4>1. n.h \in Under(n.h)
        BY <1>2, <1>3
      <4> QED BY <1>2, <3>1, <4>1
    <3>2. CASE n.parent # h
      <4>1. PICK c \in Nodes : c.parent = h /\ n.parent \in Under(c.h)
        BY <2>2, <3>2
      <4>2. n.h \in Under(c.h)
        BY <1>2, <1>4, <4>1 DEF Closed
      <4> QED BY <1>2, <4>1, <4>2
    <3> QED BY <3>1, <3>2
  <2>3. Closed(S)
    BY <2>2 DEF Closed
  <2> HIDE DEF S
  <2>4. g \in S
    BY <1>5, <2>1, <2>3
  <2> QED BY <2>4 DEF S
<1>7. ASSUME NEW g \in Under(h) PROVE \E p \in Seq(NamesIn(fs)) : NamesOf(fs, g) = NamesOf(fs, h) \o p
  <2> DEFINE Below(k) == \E p \in Seq(NamesIn(fs)) : NamesOf(fs, k) = NamesOf(fs, h) \o p
             S == {k \in HandlesOf : Below(k)}
  <2>1. NamesOf(fs, h) \in Seq(NamesIn(fs))
    BY NodesAre, NamesTyped
  <2>2. Below(h)
    <3>1. << >> \in Seq(NamesIn(fs)) /\ NamesOf(fs, h) = NamesOf(fs, h) \o << >>
      BY <2>1, ConcatEmptySeq
    <3> QED BY <3>1
  <2>3. ASSUME NEW n \in Nodes, n.parent \in S PROVE n.h \in S
    <3>1. n.parent \in HandlesOf /\ n.parent # None
      BY <2>3, NodesAre, ForestIs
    <3>2. NamesOf(fs, n.h) = Append(NamesOf(fs, n.parent), n.name) /\ n.name \in NamesIn(fs)
      BY <3>1, NodesAre, NamesOfIs DEF NamesIn
    <3>3. PICK p \in Seq(NamesIn(fs)) : NamesOf(fs, n.parent) = NamesOf(fs, h) \o p
      BY <2>3
    <3> DEFINE a == NamesOf(fs, h)
               N == NamesIn(fs)
               x == n.name
    <3>4. a \in Seq(N) /\ p \in Seq(N) /\ x \in N
      BY <2>1, <3>2
    <3> HIDE DEF a, N, x
    <3>5. Extends(NamesOf(fs, n.h), a, Append(p, x)) /\ Append(p, x) \in Seq(N)
      <4>1. Extends(Append(a \o p, x), a, Append(p, x)) /\ Append(p, x) \in Seq(N)
        BY <3>4, ConcatAppend, Zenon
      <4>2. NamesOf(fs, n.h) = Append(a \o p, x)
        BY <3>2, <3>3, Zenon DEF a, x
      <4> QED BY <4>1, <4>2, Zenon
    <3>7. Below(n.h)
      BY <3>5 DEF a, N, Extends
    <3> HIDE DEF Below
    <3> QED BY <1>2, <3>7
  <2>4. h \in S /\ S \in SUBSET HandlesOf
    BY <2>2
  <2> HIDE DEF S
  <2>5. Closed(S)
    BY <2>3 DEF Closed
  <2>6. g \in S
    BY <1>5, <2>4, <2>5
  <2> QED BY <2>6 DEF S
<1>8. \A n \in Nodes : n.parent \in Under(h) => n.h \in Under(h)
  BY <1>4 DEF Closed
<1> QED BY <1>3, <1>6, <1>7, <1>8

\* Where a node is below the directory that is copied: its names are those of the
\* directory and the path; the directory's own path is empty; the path of a child
\* has one name more; and the path of a directory begins each path below it.
LEMMA BelowIs ==
  ASSUME Forest(fs), root \in HandlesOf
  PROVE  /\ \A n \in Nodes : n.h \in Under(root) =>
               PathBelow(n) \in Seq(NamesIn(fs)) /\ Extends(NamesOf(fs, n.h), NamesOf(fs, root), PathBelow(n))
         /\ \A n \in Nodes : n.h = root => PathBelow(n) = << >>
         /\ \A m, n \in Nodes : m.h \in Under(root) /\ n.parent = m.h =>
               PathBelow(n) = Append(PathBelow(m), n.name)
         /\ \A m, n \in Nodes : m.h \in Under(root) /\ n.h \in Under(m.h) =>
               /\ n.h \in Under(root)
               /\ \E k \in 0 .. Len(PathBelow(n)) : SubSeq(PathBelow(n), 1, k) = PathBelow(m)
<1> DEFINE N == NamesIn(fs)
           a == NamesOf(fs, root)
<1>1. a \in Seq(N)
  BY NodesAre, NamesTyped
<1>2. ASSUME NEW n \in Nodes, NEW p \in Seq(N), Extends(NamesOf(fs, n.h), a, p) PROVE PathBelow(n) = p
  <2>1. PathBelow(n) = SubSeq(a \o p, Len(a) + 1, Len(a \o p))
    BY <1>2 DEF PathBelow, Extends
  <2> HIDE DEF a, N
  <2> QED BY <1>1, <2>1, PartsIs
<1>3. \A n \in Nodes : n.h \in HandlesOf
  BY DEF HandlesOf
<1>4. ASSUME NEW n \in Nodes, n.h \in Under(root)
      PROVE  PathBelow(n) \in Seq(N) /\ Extends(NamesOf(fs, n.h), a, PathBelow(n))
  <2>1. PICK p \in Seq(N) : NamesOf(fs, n.h) = a \o p
    BY <1>4, UnderIs
  <2>2. Extends(NamesOf(fs, n.h), a, p)
    BY <2>1 DEF Extends
  <2> HIDE DEF a, N
  <2>3. PathBelow(n) = p
    BY <1>2, <2>2
  <2> QED BY <2>2, <2>3
<1>5. ASSUME NEW n \in Nodes, n.h = root PROVE PathBelow(n) = << >>
  <2>1. << >> \in Seq(N)
    OBVIOUS
  <2>2. Extends(NamesOf(fs, n.h), a, << >>)
    BY <1>1, <1>5, ConcatEmptySeq DEF Extends
  <2> HIDE DEF a, N
  <2> QED BY <1>2, <2>1, <2>2
<1>6. ASSUME NEW m \in Nodes, NEW n \in Nodes, m.h \in Under(root), n.parent = m.h
      PROVE  PathBelow(n) = Append(PathBelow(m), n.name)
  <2> DEFINE p == PathBelow(m)
             x == n.name
  <2>1. p \in Seq(N) /\ Extends(NamesOf(fs, m.h), a, p)
    BY <1>4, <1>6
  <2>2. x \in N
    BY NodesAre DEF NamesIn
  <2>3. NamesOf(fs, n.h) = Append(NamesOf(fs, m.h), x)
    <3>1. m.h # None
      BY <1>3, NodesAre, ForestIs
    <3> QED BY <1>6, <3>1, NodesAre, NamesOfIs
  <2> HIDE DEF a, N, p, x
  <2>4. Extends(Append(a \o p, x), a, Append(p, x)) /\ Append(p, x) \in Seq(N)
    BY <1>1, <2>1, <2>2, ConcatAppend, Zenon
  <2>5. NamesOf(fs, n.h) = Append(a \o p, x)
    BY <2>1, <2>3, Zenon DEF Extends
  <2>6. Extends(NamesOf(fs, n.h), a, Append(p, x))
    BY <2>4, <2>5, Zenon
  <2>7. PathBelow(n) = Append(p, x)
    BY <1>2, <2>4, <2>6, Zenon
  <2> QED BY <2>7 DEF p, x
<1>7. ASSUME NEW m \in Nodes, NEW n \in Nodes, m.h \in Under(root), n.h \in Under(m.h)
      PROVE  /\ n.h \in Under(root)
             /\ \E k \in 0 .. Len(PathBelow(n)) : SubSeq(PathBelow(n), 1, k) = PathBelow(m)
  <2>1. n.h \in Under(root)
    <3>1. \A c \in Nodes : c.parent \in Under(root) => c.h \in Under(root)
      BY UnderIs
    <3>2. Under(root) \in SUBSET HandlesOf
      BY UnderIs
    <3> QED BY <1>7, <3>1, <3>2 DEF Under
  <2> DEFINE p == PathBelow(m)
             c == NamesOf(fs, m.h)
  <2>2. p \in Seq(N) /\ Extends(c, a, p)
    BY <1>4, <1>7
  <2>3. PICK q \in Seq(N) : NamesOf(fs, n.h) = c \o q
    BY <1>3, <1>7, UnderIs
  <2> HIDE DEF a, N, p, c
  <2>4. p \o q \in Seq(N) /\ Extends(NamesOf(fs, n.h), a, p \o q)
    BY <1>1, <2>2, <2>3, Regroup, Zenon
  <2>5. PathBelow(n) = p \o q
    BY <1>2, <2>4, Zenon
  <2>6. SubSeq(p \o q, 1, Len(p)) = p
    BY <2>2, PartsIs, Zenon
  <2>7. Len(p) \in 0 .. Len(p \o q)
    BY <2>2, PrefixLength, Zenon
  <2>8. \E k \in 0 .. Len(PathBelow(n)) : SubSeq(PathBelow(n), 1, k) = p
    BY <2>5, <2>6, <2>7
  <2> QED BY <2>1, <2>8 DEF p
<1> QED BY <1>4, <1>5, <1>6, <1>7

-----------------------------------------------------------------------------
(* The walk through the directories: what every call of dl_sync_dir and     *)
(* dl_sync_file is about, and which nodes are still to come.                *)

\* What the walk takes for granted: the list of nodes, the directory that is
\* copied, a place on the disk for everything below it.
Ground ==
    /\ Forest(fs) /\ fs \in Seq(Range(fs)) /\ root \in HandlesOf
    /\ \A n \in Nodes : n.h \in Under(root) => PathBelow(n) \in LocalPaths
    /\ disk = [p \in LocalPaths |-> disk[p]]

\* What remote paths are made of: the symbols of the nodes, and those of the path the
\* copy was started with.
Alphabet(E) == Symbols(fs) \cup E

\* Each call is for a node below the directory, for the node's place below the
\* local one, and with a remote path that leads to the node's names.
GoodTasks(E) ==
    {t \in [node : Nodes, path : LocalPaths, rpath : Seq(Alphabet(E))] :
        /\ t.node.h \in Under(root) /\ t.path = PathBelow(t.node)
        /\ Simplify(t.rpath) = TextOf(NamesOf(fs, t.node.h))}

\* The calls for the children of a directory are like that, one for each child.
LEMMA ChildTasksGood ==
  ASSUME PathsAssumption, Ground, NEW E, NEW t \in GoodTasks(E)
  PROVE  /\ ChildTasks(t) \in Seq(GoodTasks(E))
         /\ \A c \in Nodes : c.parent = t.node.h =>
               \E i \in DOMAIN ChildTasks(t) : ChildTasks(t)[i].node = c
         /\ \A i \in DOMAIN ChildTasks(t) :
               ChildTasks(t)[i].node \in Nodes /\ ChildTasks(t)[i].node.parent = t.node.h
<1> DEFINE children == Children(fs, t.node.h)
           TaskOf(n) == Task(n, Append(t.path, n.name), t.rpath \o <<Slash, n.name>>)
<1>1. ChildTasks(t) = [i \in DOMAIN children |-> TaskOf(children[i])]
  BY DEF ChildTasks
<1>2. children \in Seq(Nodes) /\ Range(children) = {n \in Nodes : n.parent = t.node.h}
  <2>1. fs \in Seq(Nodes)
    BY NodesAre DEF Ground
  <2> QED BY <2>1, ChildrenIs, NodesAre
<1>3. /\ t.node \in Nodes /\ t.rpath \in Seq(Alphabet(E)) /\ t.node.h \in Under(root)
      /\ t.path = PathBelow(t.node) /\ Simplify(t.rpath) = TextOf(NamesOf(fs, t.node.h))
  BY DEF GoodTasks
<1>4. /\ Forest(fs) /\ root \in HandlesOf
      /\ \A n \in Nodes : n.h \in Under(root) => PathBelow(n) \in LocalPaths
  BY DEF Ground
<1>5. ASSUME NEW n \in Nodes, n.parent = t.node.h PROVE TaskOf(n) \in GoodTasks(E)
  <2> DEFINE W == Alphabet(E)
             h == t.node.h
             r == t.rpath \o <<Slash, n.name>>
  <2>1. n.h \in Under(root)
    BY <1>3, <1>4, <1>5, UnderIs
  <2>2. PathBelow(n) = Append(t.path, n.name)
    BY <1>3, <1>4, <1>5, BelowIs
  <2>3. /\ Slash \in W /\ DotDot \in W /\ n.name \in W \ {Slash, Dot, DotDot, Empty}
        /\ n.name \in NamesIn(fs) /\ NamesIn(fs) \in SUBSET W
    <3>1. n.name \in NamesIn(fs) /\ NamesIn(fs) \in SUBSET W /\ Slash \in W /\ DotDot \in W
      BY NodesAre DEF Alphabet, Symbols, NamesIn
    <3>2. n.name \notin {Slash, Dot, DotDot, Empty}
      BY <1>4, NodesAre, ForestIs
    <3> QED BY <3>1, <3>2
  <2>4. h \in HandlesOf
    BY <1>3 DEF HandlesOf
  <2>5. NamesOf(fs, n.h) = Append(NamesOf(fs, h), n.name) /\ NamesOf(fs, h) \in Seq(W)
    <3>1. n.parent # None
      BY <1>4, <1>5, <2>4, NodesAre, ForestIs
    <3>2. NamesOf(fs, n.h) = Append(NamesOf(fs, h), n.name)
      BY <1>4, <1>5, <3>1, NodesAre, NamesOfIs
    <3>3. NamesOf(fs, h) \in Seq(NamesIn(fs))
      BY <1>4, <2>4, NodesAre, NamesTyped
    <3> HIDE DEF W, h
    <3> QED BY <2>3, <3>2, <3>3
  <2>6. Simplify(t.rpath) # << >> /\ Simplify(t.rpath) # <<Slash>>
    <3>1. Len(TextOf(NamesOf(fs, h))) > 1
      BY <1>4, <2>4, NodesAre, PathTyped
    <3> DEFINE s == Simplify(t.rpath)
    <3>2. Len(s) > 1
      BY <1>3, <3>1, Zenon
    <3> HIDE DEF s
    <3>4. Len(<< >>) = 0 /\ Len(<<Slash>>) = 1 /\ ~(0 > 1) /\ ~(1 > 1)
      OBVIOUS
    <3>3. s # << >> /\ s # <<Slash>>
      BY <3>2, <3>4, Zenon
    <3> QED BY <3>3 DEF s
  <2> HIDE DEF W, h
  <2>7. Simplify(r) = Simplify(t.rpath) \o <<Slash, n.name>>
    <3>1. t.rpath \in Seq(W)
      BY <1>3 DEF W
    <3> QED BY <2>3, <2>6, <3>1, SimplifyChild
  <2>8. TextOf(NamesOf(fs, n.h)) = TextOf(NamesOf(fs, h)) \o <<Slash, n.name>>
    <3>1. TextOf(Append(NamesOf(fs, h), n.name)) = TextOf(NamesOf(fs, h)) \o <<Slash, n.name>>
      BY <2>3, <2>5, TextAppend
    <3> QED BY <2>5, <3>1
  <2>9. r \in Seq(W)
    <3>1. <<Slash, n.name>> \in Seq(W)
      BY <2>3
    <3> QED BY <1>3, <3>1, ConcatProperties DEF W
  <2> HIDE DEF r
  <2>10. Simplify(r) = TextOf(NamesOf(fs, n.h))
    BY <1>3, <2>7, <2>8, Zenon DEF h
  <2> DEFINE p == Append(t.path, n.name)
  <2>11. p \in LocalPaths /\ p = PathBelow(n)
    BY <1>4, <2>1, <2>2
  <2> HIDE DEF p
  <2>12. TaskOf(n) = [node |-> n, path |-> p, rpath |-> r]
    BY DEF Task, p, r
  <2> HIDE DEF TaskOf
  <2> QED BY <2>1, <2>9, <2>10, <2>11, <2>12 DEF GoodTasks, W
<1> HIDE DEF children, TaskOf
<1>6. \A i \in DOMAIN children : children[i] \in Nodes /\ children[i].parent = t.node.h
  BY <1>2 DEF Range
<1>7. ChildTasks(t) \in Seq(GoodTasks(E))
  <2>1. DOMAIN children = 1 .. Len(children) /\ Len(children) \in Nat
    BY <1>2
  <2>2. \A i \in 1 .. Len(children) : TaskOf(children[i]) \in GoodTasks(E)
    BY <1>5, <1>6, <2>1
  <2>3. [i \in 1 .. Len(children) |-> TaskOf(children[i])] \in Seq(GoodTasks(E))
    BY <2>1, <2>2, IsASeq
  <2> QED BY <1>1, <2>1, <2>3
<1>8. ASSUME NEW c \in Nodes, c.parent = t.node.h
      PROVE  \E i \in DOMAIN ChildTasks(t) : ChildTasks(t)[i].node = c
  <2>1. PICK i \in DOMAIN children : children[i] = c
    BY <1>2, <1>8 DEF Range
  <2>2. ChildTasks(t)[i] = TaskOf(c) /\ i \in DOMAIN ChildTasks(t)
    BY <1>1, <2>1
  <2>3. TaskOf(c).node = c
    BY DEF TaskOf, Task
  <2> QED BY <2>2, <2>3
<1>9. ASSUME NEW i \in DOMAIN ChildTasks(t)
      PROVE  ChildTasks(t)[i].node \in Nodes /\ ChildTasks(t)[i].node.parent = t.node.h
  <2>1. i \in DOMAIN children /\ ChildTasks(t)[i] = TaskOf(children[i])
    BY <1>1
  <2>2. TaskOf(children[i]).node = children[i]
    BY DEF TaskOf, Task
  <2> QED BY <1>6, <2>1, <2>2
<1> QED BY <1>7, <1>8, <1>9

\* What Accounted asks for one node.
Settled(n) ==
    LET p == PathBelow(n)
    IN \/ IF n.type = "file" THEN Holds(p) ELSE disk[p] = "dir"
       \/ \E k \in 0 .. Len(p) : SubSeq(p, 1, k) \in failed

\* A call that is to be made leads to the node.
Coming(tasks, n) == \E i \in DOMAIN tasks : n.h \in Under(tasks[i].node.h)

\* The inductive invariant of the walk.
Walk(E) ==
    /\ Ground
    /\ todo \in Seq(GoodTasks(E))
    /\ \A n \in Nodes : n.h \in Under(root) => Settled(n) \/ Coming(todo, n)

\* When the walk is over, it is accounted for.
LEMMA WalkEnds ==
  ASSUME NEW E, Walk(E), todo = << >>
  PROVE  Accounted
<1>1. ASSUME NEW n \in Nodes, n.h \in Under(root) PROVE Settled(n)
  <2>1. ~Coming(todo, n)
    BY DEF Coming
  <2> QED BY <1>1, <2>1 DEF Walk
<1> QED BY <1>1 DEF Accounted, Settled

\* While the list and the directory stay, so does what is said of the tree.
LEMMA SameTree ==
  ASSUME fs' = fs, root' = root, NEW E
  PROVE  /\ Nodes' = Nodes /\ HandlesOf' = HandlesOf
         /\ \A h : Under(h)' = Under(h)
         /\ \A n : PathBelow(n)' = PathBelow(n)
         /\ GoodTasks(E)' = GoodTasks(E)
         /\ \A tasks, n : Coming(tasks, n)' <=> Coming(tasks, n)
<1>1. Nodes' = Nodes
  BY DEF Nodes
<1>2. HandlesOf' = HandlesOf
  BY <1>1 DEF HandlesOf
<1>3. \A h : Under(h)' = Under(h)
  BY <1>1, <1>2 DEF Under
<1>4. \A n : PathBelow(n)' = PathBelow(n)
  BY DEF PathBelow
<1>5. GoodTasks(E)' = GoodTasks(E)
  <2>1. Alphabet(E)' = Alphabet(E)
    BY DEF Alphabet
  <2> QED BY <1>1, <1>3, <1>4, <2>1 DEF GoodTasks
<1>6. \A tasks, n : Coming(tasks, n)' <=> Coming(tasks, n)
  BY <1>3 DEF Coming
<1> QED BY <1>1, <1>2, <1>3, <1>4, <1>5, <1>6

\* What a step of the walk does to the disk and to the errors.
Kept ==
    /\ fs' = fs /\ root' = root
    /\ disk' = [p \in LocalPaths |-> disk'[p]]
    /\ \A p \in LocalPaths : disk[p] # None => disk'[p] = disk[p]
    /\ failed \subseteq failed'

\* What is settled stays settled.
LEMMA SettledStays ==
  ASSUME None # "dir", Ground, Kept
  PROVE  Ground' /\ \A n \in Nodes : n.h \in Under(root) /\ Settled(n) => Settled(n)'
<1>1. Nodes' = Nodes /\ HandlesOf' = HandlesOf /\ Under(root)' = Under(root) /\ \A n : PathBelow(n)' = PathBelow(n)
  BY SameTree DEF Kept
<1>2. Ground'
  BY <1>1 DEF Ground, Kept
<1>3. ASSUME NEW n \in Nodes, n.h \in Under(root), Settled(n) PROVE Settled(n)'
  <2> DEFINE p == PathBelow(n)
  <2>1. p \in LocalPaths /\ p' = p
    BY <1>1, <1>3 DEF Ground
  <2>2. CASE \E k \in 0 .. Len(p) : SubSeq(p, 1, k) \in failed
    <3>1. \E k \in 0 .. Len(p) : SubSeq(p, 1, k) \in failed'
      BY <2>2 DEF Kept
    <3> QED BY <1>1, <3>1 DEF Settled
  <2>3. CASE n.type = "file" /\ Holds(p)
    <3>1. disk[p] \in HandlesOf
      BY <2>3 DEF Holds, HandlesOf
    <3>2. disk[p] # None
      BY <3>1, NodesAre, ForestIs DEF Ground
    <3>3. disk'[p] = disk[p]
      BY <2>1, <3>2 DEF Kept
    <3>4. Holds(p)'
      BY <1>1, <2>1, <2>3, <3>3 DEF Holds, Kept
    <3> QED BY <1>1, <2>3, <3>4 DEF Settled
  <2>4. CASE n.type # "file" /\ disk[p] = "dir"
    <3>1. disk'[p] = disk[p]
      BY <2>1, <2>4 DEF Kept
    <3> QED BY <1>1, <2>4, <3>1 DEF Settled
  <2> QED BY <1>3, <2>2, <2>3, <2>4 DEF Settled
<1> QED BY <1>2, <1>3

\* A step that takes the first call and puts others in its place keeps the walk
\* right, if each node below the call's is settled by it or comes by the others.
LEMMA WalkStep ==
  ASSUME None # "dir", NEW E, Walk(E), Kept, todo # << >>,
         NEW new \in Seq(GoodTasks(E)), todo' = new \o Tail(todo),
         \A n \in Nodes : n.h \in Under(Head(todo).node.h) => Settled(n)' \/ Coming(new, n)
  PROVE  Walk(E)'
<1> DEFINE G == GoodTasks(E)
           rest == Tail(todo)
<1>1. Ground /\ todo \in Seq(G) /\ \A n \in Nodes : n.h \in Under(root) => Settled(n) \/ Coming(todo, n)
  BY DEF Walk
<1>2. /\ G' = G /\ Nodes' = Nodes /\ Under(root)' = Under(root)
      /\ \A tasks, n : Coming(tasks, n)' <=> Coming(tasks, n)
  BY SameTree DEF Kept
<1>3. Ground' /\ \A n \in Nodes : n.h \in Under(root) /\ Settled(n) => Settled(n)'
  BY <1>1, SettledStays
<1> HIDE DEF G
<1>4. /\ rest \in Seq(G) /\ Len(rest) = Len(todo) - 1 /\ Len(todo) \in Nat \ {0}
      /\ \A i \in 1 .. Len(rest) : rest[i] = todo[i + 1]
      /\ Head(todo) = todo[1] /\ DOMAIN todo = 1 .. Len(todo)
  <2>1. Head(todo) = todo[1] /\ DOMAIN todo = 1 .. Len(todo) /\ Len(todo) \in Nat \ {0}
    BY <1>1
  <2> QED BY <1>1, <2>1, HeadTailProperties
<1>5. new \in Seq(G)
  BY DEF G
<1> HIDE DEF rest
<1> DEFINE all == new \o rest
<1>6. /\ all \in Seq(G) /\ DOMAIN all = 1 .. Len(new) + Len(rest)
      /\ DOMAIN new = 1 .. Len(new) /\ DOMAIN rest = 1 .. Len(rest)
      /\ \A i \in 1 .. Len(new) : all[i] = new[i]
      /\ \A i \in 1 .. Len(rest) : all[Len(new) + i] = rest[i]
      /\ Len(new) \in Nat /\ Len(rest) \in Nat
  <2>1. Len(new) \in Nat /\ Len(rest) \in Nat /\ DOMAIN new = 1 .. Len(new) /\ DOMAIN rest = 1 .. Len(rest)
    BY <1>4, <1>5
  <2>2. /\ all \in Seq(G) /\ Len(all) = Len(new) + Len(rest)
        /\ \A i \in 1 .. Len(new) + Len(rest) : all[i] = IF i <= Len(new) THEN new[i] ELSE rest[i - Len(new)]
    BY <1>4, <1>5, ConcatProperties
  <2> HIDE DEF all
  <2>3. DOMAIN all = 1 .. Len(new) + Len(rest)
    BY <2>2
  <2>4. \A i \in 1 .. Len(new) : i \in 1 .. Len(new) + Len(rest) /\ i <= Len(new)
    BY <2>1
  <2>5. \A i \in 1 .. Len(rest) : /\ Len(new) + i \in 1 .. Len(new) + Len(rest)
                                  /\ ~(Len(new) + i <= Len(new)) /\ (Len(new) + i) - Len(new) = i
    BY <2>1
  <2> QED BY <2>1, <2>2, <2>3, <2>4, <2>5
<1>7. todo' = all
  BY DEF rest
<1> HIDE DEF all
<1>8. ASSUME NEW n \in Nodes, n.h \in Under(root) PROVE Settled(n)' \/ Coming(all, n)
  <2>1. CASE Settled(n)
    BY <1>3, <1>8, <2>1
  <2>2. CASE Coming(todo, n)
    <3>1. PICK i \in 1 .. Len(todo) : n.h \in Under(todo[i].node.h)
      BY <1>4, <2>2 DEF Coming
    <3>2. CASE i = 1
      <4>1. Settled(n)' \/ Coming(new, n)
        BY <1>4, <3>1, <3>2
      <4>2. Coming(new, n) => Coming(all, n)
        <5>1. SUFFICES ASSUME NEW j \in 1 .. Len(new), n.h \in Under(new[j].node.h) PROVE Coming(all, n)
          BY <1>6 DEF Coming
        <5>2. all[j] = new[j] /\ j \in DOMAIN all
          BY <1>6
        <5> QED BY <5>1, <5>2 DEF Coming
      <4> QED BY <4>1, <4>2
    <3>3. CASE i # 1
      <4>1. i - 1 \in 1 .. Len(rest) /\ (i - 1) + 1 = i
        BY <1>4, <3>3
      <4>2. rest[i - 1] = todo[i]
        BY <1>4, <4>1
      <4> DEFINE j == i - 1
      <4>5. j \in 1 .. Len(rest)
        BY <4>1
      <4> HIDE DEF j
      <4>6. all[Len(new) + j] = rest[j]
        BY <1>6, <4>5
      <4>7. Len(new) + j \in 1 .. Len(new) + Len(rest)
        BY <1>6, <4>5
      <4>8. Len(new) + j \in DOMAIN all
        BY <1>6, <4>7
      <4>3. all[Len(new) + (i - 1)] = rest[i - 1] /\ Len(new) + (i - 1) \in DOMAIN all
        BY <4>6, <4>8 DEF j
      <4> QED BY <3>1, <4>2, <4>3 DEF Coming
    <3> QED BY <3>2, <3>3
  <2> QED BY <1>1, <1>8, <2>1, <2>2
<1>9. todo' \in Seq(G')
  BY <1>2, <1>6, <1>7
<1> QED BY <1>2, <1>3, <1>7, <1>8, <1>9 DEF Walk, G

\* The same when the user changes something else.
LEMMA WalkWaits ==
  ASSUME None # "dir", NEW E, Walk(E), Kept, todo' = todo
  PROVE  Walk(E)'
<1> DEFINE G == GoodTasks(E)
<1>1. Ground /\ todo \in Seq(G) /\ \A n \in Nodes : n.h \in Under(root) => Settled(n) \/ Coming(todo, n)
  BY DEF Walk
<1>2. /\ G' = G /\ Nodes' = Nodes /\ Under(root)' = Under(root)
      /\ \A tasks, n : Coming(tasks, n)' <=> Coming(tasks, n)
  BY SameTree DEF Kept
<1>3. Ground' /\ \A n \in Nodes : n.h \in Under(root) /\ Settled(n) => Settled(n)'
  BY <1>1, SettledStays
<1> HIDE DEF G
<1>4. todo' \in Seq(G')
  BY <1>1, <1>2
<1>5. \A n \in Nodes : n.h \in Under(root) => Settled(n)' \/ Coming(todo, n)
  BY <1>1, <1>3
<1> QED BY <1>2, <1>3, <1>4, <1>5 DEF Walk, G

\* The first call of a walk: about the node, its place and its path.
LEMMA HeadIs ==
  ASSUME NEW E, Walk(E), todo # << >>
  PROVE  LET t == Head(todo)
         IN /\ t \in GoodTasks(E) /\ t.node \in Nodes /\ t.path \in LocalPaths
            /\ t.node.h \in HandlesOf /\ t.node.h \in Under(root)
            /\ t.path = PathBelow(t.node)
            /\ Simplify(t.rpath) = TextOf(NamesOf(fs, t.node.h))
            /\ Tail(todo) = << >> \o Tail(todo)
<1>1. todo \in Seq(GoodTasks(E))
  BY DEF Walk
<1> DEFINE G == GoodTasks(E)
           t == Head(todo)
<1>2. t \in G /\ Tail(todo) \in Seq(G)
  <2> HIDE DEF G
  <2> QED BY <1>1, HeadTailProperties DEF G
<1>3. Tail(todo) = << >> \o Tail(todo)
  <2> HIDE DEF G
  <2> QED BY <1>2, ConcatEmptySeq
<1> HIDE DEF t
<1>4. t \in G /\ t.node \in Nodes /\ t.path \in LocalPaths /\ t.node.h \in HandlesOf
      /\ t.node.h \in Under(root) /\ t.path = PathBelow(t.node)
      /\ Simplify(t.rpath) = TextOf(NamesOf(fs, t.node.h))
  BY <1>2 DEF GoodTasks, HandlesOf
<1> QED BY <1>3, <1>4 DEF t, G

\* A call that fails settles all that is below its node.
LEMMA HeadFails ==
  ASSUME None # "dir", NEW E, Walk(E), Kept, todo # << >>, todo' = Tail(todo),
         Head(todo).path \in failed'
  PROVE  Walk(E)'
<1> DEFINE t == Head(todo)
<1>1. /\ t.node \in Nodes /\ t.node.h \in Under(root) /\ t.path = PathBelow(t.node)
      /\ Tail(todo) = << >> \o Tail(todo)
  BY HeadIs
<1>2. Forest(fs) /\ root \in HandlesOf
  BY DEF Walk, Ground
<1>3. \A n : PathBelow(n)' = PathBelow(n)
  BY SameTree DEF Kept
<1>4. ASSUME NEW n \in Nodes, n.h \in Under(t.node.h) PROVE Settled(n)'
  <2>1. \E k \in 0 .. Len(PathBelow(n)) : SubSeq(PathBelow(n), 1, k) = t.path
    BY <1>1, <1>2, <1>4, BelowIs
  <2>2. \E k \in 0 .. Len(PathBelow(n)) : SubSeq(PathBelow(n), 1, k) \in failed'
    BY <2>1
  <2> QED BY <1>3, <2>2 DEF Settled
<1>5. << >> \in Seq(GoodTasks(E))
  OBVIOUS
<1> HIDE DEF t
<1>6. todo' = << >> \o Tail(todo)
  BY <1>1
<1> QED BY <1>4, <1>5, <1>6, WalkStep DEF t

\* Nothing is below a file.
LEMMA FileAlone ==
  ASSUME Forest(fs), NEW m \in Nodes, m.type = "file", NEW n \in Nodes, n.h \in Under(m.h)
  PROVE  n = m
<1>1. m.h \in HandlesOf
  BY DEF HandlesOf
<1>2. \A c \in Nodes : c.parent # m.h
  BY NodesAre, ForestIs
<1>3. n.h = m.h
  BY <1>1, <1>2, UnderIs
<1> QED BY <1>3, NodesAre, NodeOfIs

\* A call for a file that gets one settles the file.
LEMMA FileStep ==
  ASSUME None # "dir", NEW E, Walk(E), Kept, todo # << >>, todo' = Tail(todo),
         NEW m, m = Head(todo).node, m.type = "file",
         NEW p, p = Head(todo).path, Holds(p)'
  PROVE  Walk(E)'
<1>1. m \in Nodes /\ p = PathBelow(m) /\ Tail(todo) = << >> \o Tail(todo)
  BY HeadIs
<1>2. Forest(fs)
  BY DEF Walk, Ground
<1>3. PathBelow(m)' = PathBelow(m)
  BY SameTree DEF Kept
<1>4. Settled(m)'
  <2>1. Holds(PathBelow(m))'
    BY <1>1, <1>3 DEF Holds
  <2> QED BY <2>1 DEF Settled
<1>5. ASSUME NEW n \in Nodes, n.h \in Under(m.h) PROVE Settled(n)'
  BY <1>1, <1>2, <1>4, <1>5, FileAlone
<1>6. << >> \in Seq(GoodTasks(E)) /\ todo' = << >> \o Tail(todo)
  BY <1>1
<1>7. \A n \in Nodes : n.h \in Under(Head(todo).node.h) => Settled(n)' \/ Coming(<< >>, n)
  BY <1>5
<1> QED BY <1>6, <1>7, WalkStep

\* A call for a directory that is there, and then the calls for its children.
LEMMA DirStep ==
  ASSUME PathsAssumption, None # "dir", NEW E, Walk(E), Kept, todo # << >>,
         NEW t, t = Head(todo), t.node.type # "file", disk'[t.path] = "dir",
         todo' = ChildTasks(t) \o Tail(todo)
  PROVE  Walk(E)'
<1>1. /\ t \in GoodTasks(E) /\ t.node \in Nodes /\ t.path = PathBelow(t.node)
      /\ t.node.h \in HandlesOf
  BY HeadIs
<1>2. Forest(fs) /\ Ground
  BY DEF Walk, Ground
<1>3. PathBelow(t.node)' = PathBelow(t.node)
  BY SameTree DEF Kept
<1>4. Settled(t.node)'
  BY <1>1, <1>3 DEF Settled
<1>5. ASSUME NEW n \in Nodes, n.h \in Under(t.node.h) PROVE Settled(n)' \/ Coming(ChildTasks(t), n)
  <2>1. CASE n.h = t.node.h
    <3>1. n = t.node
      BY <1>1, <1>2, <2>1, NodesAre, NodeOfIs
    <3> QED BY <1>4, <3>1
  <2>2. CASE n.h # t.node.h
    <3>1. PICK c \in Nodes : c.parent = t.node.h /\ n.h \in Under(c.h)
      BY <1>1, <1>2, <1>5, <2>2, UnderIs
    <3>2. PICK i \in DOMAIN ChildTasks(t) : ChildTasks(t)[i].node = c
      BY <1>1, <1>2, <3>1, ChildTasksGood
    <3> QED BY <3>1, <3>2 DEF Coming
  <2> QED BY <2>1, <2>2
<1>6. ChildTasks(t) \in Seq(GoodTasks(E))
  BY <1>1, <1>2, ChildTasksGood
<1> QED BY <1>5, <1>6, WalkStep

\* A file found by a path has the names of the node the path was made for.
LEMMA FoundFile ==
  ASSUME Forest(fs), fs \in Seq(Range(fs)), PathsAssumption,
         NEW h \in HandlesOf, NEW path, Simplify(path) = TextOf(NamesOf(fs, h)),
         NEW n, n = Stat(fs, path), IsFile(n)
  PROVE  n \in Nodes /\ NamesOf(fs, n.h) = NamesOf(fs, h)
<1> DEFINE N == NamesIn(fs)
           S == Symbols(fs)
<1>1. n \in Range(fs) /\ n # None
  BY NodesAre, ForestIs DEF IsFile
<1>2. TextOf(NamesOf(fs, h)) \in Seq(S)
  BY NodesAre, PathTyped
<1>3. Simplify(path) # None
  BY <1>2, ForestIs
<1>4. TextOf(NamesOf(fs, n.h)) = Simplify(path)
  <2> DEFINE R == Range(fs)
  <2>1. fs \in Seq(R)
    OBVIOUS
  <2> HIDE DEF R
  <2> QED BY <1>1, <1>3, <2>1, StatIs
<1>5. NamesOf(fs, n.h) \in Seq(N) /\ NamesOf(fs, h) \in Seq(N)
  <2>1. n.h \in Handles(fs)
    BY <1>1, ForestIs
  <2> QED BY <2>1, NodesAre, NamesTyped
<1>6. N \in SUBSET S /\ Slash \in S
  BY DEF NamesIn, Symbols
<1> HIDE DEF N, S
<1>7. NamesOf(fs, n.h) \in Seq(S) /\ NamesOf(fs, h) \in Seq(S)
  BY <1>5, <1>6
<1>8. TextOf(NamesOf(fs, n.h)) = TextOf(NamesOf(fs, h))
  BY <1>4
<1>9. NamesOf(fs, n.h) = NamesOf(fs, h)
  BY <1>6, <1>7, <1>8, TextInjective
<1> QED BY <1>1, <1>9, NodesAre

\* Writing where nothing was keeps what there is.
LEMMA Written ==
  ASSUME disk = [p \in LocalPaths |-> disk[p]], fs' = fs, root' = root, failed \subseteq failed',
         NEW q \in LocalPaths, NEW v, disk[q] \in {None, v}, disk' = [disk EXCEPT ![q] = v]
  PROVE  Kept /\ disk'[q] = v
<1>1. DOMAIN disk = LocalPaths
  OBVIOUS
<1>2. disk' = [p \in LocalPaths |-> IF p = q THEN v ELSE disk[p]]
  BY <1>1
<1>3. disk'[q] = v /\ \A p \in LocalPaths : disk'[p] = IF p = q THEN v ELSE disk[p]
  BY <1>2
<1>4. disk' = [p \in LocalPaths |-> disk'[p]]
  BY <1>2
<1> QED BY <1>3, <1>4 DEF Kept

\* Each step of the copy keeps the walk right, and what is on the disk.
LEMMA DownStepWalks ==
  ASSUME PathsAssumption, DownSyncAssumption, NEW E, Walk(E), ~dry, root' = root, DownStep
  PROVE  Walk(E)' /\ Kept
<1>1. None # "dir"
  BY DEF DownSyncAssumption
<1>2. /\ disk = [p \in LocalPaths |-> disk[p]]
      /\ Forest(fs) /\ fs \in Seq(Range(fs)) /\ root \in HandlesOf
  BY DEF Walk, Ground
<1>3. CASE EnterDir
  <2>1. PICK t : t = Head(todo)
    OBVIOUS
  <2>2. /\ todo # << >> /\ t.node.type # "file" /\ disk[t.path] \in {None, "dir"}
        /\ disk' = [disk EXCEPT ![t.path] = "dir"]
        /\ todo' = ChildTasks(t) \o Tail(todo)
        /\ fs' = fs /\ failed' = failed
    BY <1>3, <2>1 DEF EnterDir
  <2>3. t.path \in LocalPaths
    BY <2>1, <2>2, HeadIs
  <2>4. Kept /\ disk'[t.path] = "dir"
    BY <1>2, <2>2, <2>3, Written
  <2> QED BY <1>1, <2>1, <2>2, <2>4, DirStep
<1>4. ASSUME todo # << >>, todo' = Tail(todo), Head(todo).path \in failed',
             fs' = fs, disk' = disk, failed \subseteq failed'
      PROVE  Walk(E)' /\ Kept
  <2>1. Kept
    BY <1>2, <1>4 DEF Kept
  <2> QED BY <1>1, <1>4, <2>1, HeadFails
<1>5. CASE MakeDirFails
  BY <1>4, <1>5 DEF MakeDirFails
<1>6. CASE RefuseDir
  BY <1>4, <1>6 DEF RefuseDir, Refuse
<1>7. CASE GetFile
  <2>1. PICK t : t = Head(todo)
    OBVIOUS
  <2>2. PICK n : n = Stat(fs, t.rpath)
    OBVIOUS
  <2>3. /\ todo # << >> /\ t.node.type = "file" /\ disk[t.path] = None /\ IsFile(n)
        /\ disk' = [disk EXCEPT ![t.path] = n.h]
        /\ todo' = Tail(todo)
        /\ fs' = fs /\ failed' = failed
    BY <1>7, <2>1, <2>2 DEF GetFile
  <2>4. /\ t.path \in LocalPaths /\ t.path = PathBelow(t.node) /\ t.node \in Nodes
        /\ t.node.h \in HandlesOf /\ t.node.h \in Under(root)
        /\ Simplify(t.rpath) = TextOf(NamesOf(fs, t.node.h))
    BY <2>1, <2>3, HeadIs
  <2>5. Kept /\ disk'[t.path] = n.h
    BY <1>2, <2>3, <2>4, Written
  <2>6. n \in Nodes /\ NamesOf(fs, n.h) = NamesOf(fs, t.node.h)
    BY <1>2, <2>2, <2>3, <2>4, FoundFile
  <2>7. NamesOf(fs, n.h) = NamesOf(fs, root) \o t.path
    BY <1>2, <2>4, <2>6, BelowIs DEF Extends
  <2>8. Holds(t.path)'
    <3>1. Nodes' = Nodes
      BY <2>3 DEF Nodes
    <3> QED BY <2>3, <2>5, <2>6, <2>7, <3>1 DEF Holds
  <2> QED BY <1>1, <2>1, <2>3, <2>5, <2>8, FileStep
<1>8. CASE GetFails
  BY <1>4, <1>8 DEF GetFails
<1>9. CASE RefuseFile
  BY <1>4, <1>9 DEF RefuseFile, Refuse
<1> QED BY <1>3, <1>5, <1>6, <1>7, <1>8, <1>9 DEF DownStep

\* And so does the user who adds a file.
LEMMA UserAddsWalks ==
  ASSUME DownSyncAssumption, NEW E, Walk(E), root' = root, UserAdds
  PROVE  Walk(E)' /\ Kept
<1>1. None # "dir"
  BY DEF DownSyncAssumption
<1>2. disk = [p \in LocalPaths |-> disk[p]]
  BY DEF Walk, Ground
<1>3. PICK p \in LocalPaths : disk[p] = None /\ disk' = [disk EXCEPT ![p] = User]
  BY DEF UserAdds
<1>4. fs' = fs /\ failed' = failed /\ todo' = todo
  BY DEF UserAdds
<1>5. Kept
  BY <1>2, <1>3, <1>4, Written
<1> QED BY <1>1, <1>4, <1>5, WalkWaits

\* A node with the names of a list before its own has its path among the local
\* ones.
LEMMA PathFits ==
  ASSUME Fits(fs), root \in HandlesOf, NEW n \in Nodes, n.h \in Under(root)
  PROVE  PathBelow(n) \in LocalPaths
<1> DEFINE names == NamesOf(fs, n.h)
           above == NamesOf(fs, root)
           top == Len(above)
<1>1. Forest(fs)
  BY DEF Fits
<1>2. n \in Range(fs) /\ n.h \in Handles(fs) /\ root \in Handles(fs)
  BY <1>1, NodesAre, ForestIs
<1>3. above \in Seq(NamesIn(fs)) /\ above # << >> /\ names \in Seq(NamesIn(fs))
  BY <1>1, <1>2, NamesTyped
<1>4. PICK p \in Seq(NamesIn(fs)) : names = above \o p
  BY <1>1, <1>2, NodesAre, UnderIs
<1> DEFINE N == NamesIn(fs)
<1>5. top \in Nat /\ top # 0 /\ Len(p) \in Nat /\ Len(names) = top + Len(p)
  <2> HIDE DEF N, names, above
  <2>1. Len(above \o p) = Len(above) + Len(p)
    BY <1>3, <1>4, ConcatProperties
  <2> QED BY <1>3, <1>4, <2>1
<1>6. \A k \in 1 .. Len(names) : SubSeq(names, k + 1, Len(names)) \in LocalPaths
  BY <1>2 DEF Fits
<1>7. PathBelow(n) = SubSeq(names, top + 1, Len(names))
  BY DEF PathBelow
<1> HIDE DEF names, top
<1>8. top \in 1 .. Len(names)
  <2> DEFINE a == Len(p)
             b == Len(names)
  <2>1. top \in Nat /\ top # 0 /\ a \in Nat /\ b = top + a
    BY <1>5
  <2> HIDE DEF a, b
  <2>2. top \in 1 .. b
    BY <2>1
  <2> QED BY <2>2 DEF b
<1> QED BY <1>6, <1>7, <1>8

\* Where a walk begins: nothing is done, and the directory that is copied is the
\* first call.
Begins(E) ==
    /\ Fits(fs) /\ OnDisk(disk) /\ << >> \in LocalPaths
    /\ \E n \in Nodes, rpath \in Seq(Alphabet(E)) :
          /\ n.h = root /\ Simplify(rpath) = TextOf(NamesOf(fs, n.h))
          /\ todo = <<Task(n, << >>, rpath)>>

\* There the walk is right.
LEMMA WalkBegins ==
  ASSUME NEW E
  PROVE  Begins(E) => Walk(E)
<1> SUFFICES ASSUME Begins(E) PROVE Walk(E)
  OBVIOUS
<1>1. PICK n \in Nodes, rpath \in Seq(Alphabet(E)) :
          /\ n.h = root /\ Simplify(rpath) = TextOf(NamesOf(fs, n.h))
          /\ todo = <<Task(n, << >>, rpath)>>
  BY DEF Begins
<1>2. Fits(fs) /\ Forest(fs) /\ fs \in Seq(Range(fs)) /\ << >> \in LocalPaths
  BY DEF Begins, Fits
<1>3. root \in HandlesOf
  BY <1>1 DEF HandlesOf
<1>4. Ground
  <2>1. \A m \in Nodes : m.h \in Under(root) => PathBelow(m) \in LocalPaths
    BY <1>2, <1>3, PathFits
  <2>2. disk = [p \in LocalPaths |-> disk[p]]
    BY DEF Begins, OnDisk
  <2> QED BY <1>2, <1>3, <2>1, <2>2 DEF Ground
<1>5. root \in Under(root) /\ PathBelow(n) = << >>
  BY <1>1, <1>2, <1>3, UnderIs, BelowIs
<1> DEFINE t == Task(n, << >>, rpath)
<1>6. t \in GoodTasks(E) /\ t.node = n
  BY <1>1, <1>2, <1>5 DEF Task, GoodTasks
<1>7. todo = <<t>>
  BY <1>1
<1> HIDE DEF t
<1>8. todo \in Seq(GoodTasks(E)) /\ 1 \in DOMAIN todo /\ todo[1] = t
  BY <1>6, <1>7
<1>9. \A m \in Nodes : m.h \in Under(root) => Coming(todo, m)
  BY <1>1, <1>6, <1>8 DEF Coming
<1> QED BY <1>4, <1>8, <1>9 DEF Walk

\* And so it is after a step that leads there.
LEMMA WalkBeginsThen ==
  ASSUME NEW E
  PROVE  Begins(E)' => Walk(E)'
<1>1. Begins(E) => Walk(E)
  BY WalkBegins
<1> QED BY <1>1, PTL

-----------------------------------------------------------------------------
(* megacopy.                                                                *)

\* What path_simplify returns is a path, of the symbols it was given.
LEMMA SimplifyTyped ==
  ASSUME NEW S, Slash \in S, DotDot \in S, NEW path \in Seq(S)
  PROVE  Simplify(path) \in Seq(S \cup {Empty})
<1> DEFINE W == S \cup {Empty}
           p == Sanitize(path)
<1>1. p \in Seq(S)
  BY SimplifyIs
<1>2. CASE p = << >>
  <2>1. Simplify(path) = << >>
    BY <1>2, SimplifyIs
  <2> QED BY <2>1
<1>3. CASE p # << >>
  <2> DEFINE es == Pieces(S, p)
  <2>1. Simplify(path) = Cleaned(S, p)
    BY <1>3, SimplifyIs
  <2>2. es \in Seq(W) /\ DotDot \in W /\ Slash \in W
    BY <1>1, PiecesAppend DEF Lists
  <2> DEFINE out == TakenFrom(W, IsAbsolute(es), es).out
  <2>3. out \in Seq(W)
    <3> HIDE DEF W
    <3>1. TakenFrom(W, IsAbsolute(es), es) \in Taken(W)
      BY <2>2, TakenAppend
    <3> QED BY <3>1 DEF Taken
  <2>4. Simplify(path) = Join(out)
    BY <2>1 DEF Cleaned
  <2> HIDE DEF out, W
  <2>5. Join(out) \in Seq(W)
    BY <2>2, <2>3, JoinAppend
  <2> QED BY <2>4, <2>5 DEF W
<1> QED BY <1>2, <1>3

\* A real download that runs, or that came to its end.
Downloads == download /\ ~dry /\ (pc = "copy" \/ (pc = "done" /\ exit = 0))

\* Its walk.
Walking == Walk(Range(RemotePath))

\* The inductive invariant of megacopy, as far as the local directory and a
\* download go: a walk is on while a real download runs, and is over at its end.
DownloadInv ==
    /\ OnDisk(disk) /\ added \in Nat
    /\ download => Fits(fs)
    /\ Downloads => Walking
    /\ (pc = "done" /\ exit = 0) => todo = << >>

\* A download begins a walk.
LEMMA StartBegins ==
  ASSUME CopyAssumption, DownloadInv, Start, download
  PROVE  Walking'
<1> DEFINE E == Range(RemotePath)
           n == Stat(fs, RemotePath)
<1>1. /\ n # None /\ root' = n.h /\ todo' = <<Task(n, << >>, RemotePath)>>
      /\ fs' = fs /\ disk' = disk
  BY DEF Start
<1>2. Fits(fs) /\ Forest(fs) /\ fs \in Seq(Range(fs)) /\ OnDisk(disk) /\ << >> \in LocalPaths
  BY DEF DownloadInv, Fits, CopyAssumption, DownSyncAssumption
<1>3. Simplify(RemotePath) # None
  <2> DEFINE S == E \cup {Slash, DotDot}
  <2>1. RemotePath \in Seq(S) /\ Slash \in S /\ DotDot \in S
    BY DEF CopyAssumption
  <2>2. S \cup {Empty} = E \cup {Slash, DotDot, Empty}
    OBVIOUS
  <2>3. None \notin Seq(S \cup {Empty})
    BY <2>2 DEF CopyAssumption
  <2> HIDE DEF S
  <2> QED BY <2>1, <2>3, SimplifyTyped
<1>4. n \in Range(fs) /\ TextOf(NamesOf(fs, n.h)) = Simplify(RemotePath)
  <2> DEFINE R == Range(fs)
  <2>1. fs \in Seq(R) /\ Stat(fs, RemotePath) # None
    BY <1>1, <1>2
  <2> HIDE DEF R
  <2> QED BY <1>3, <2>1, StatIs
<1>5. RemotePath \in Seq(Alphabet(E)) /\ Alphabet(E)' = Alphabet(E)
  BY <1>1 DEF Alphabet, CopyAssumption
<1>6. Nodes' = Nodes /\ n \in Nodes
  BY <1>1, <1>4, NodesAre DEF Nodes
<1> HIDE DEF n, E
<1>7. Begins(E)'
  BY <1>1, <1>2, <1>4, <1>5, <1>6 DEF Begins, Task
<1> QED BY <1>7, WalkBeginsThen DEF E, Walking

\* A step of a dry run leaves the disk and the session alone.
LEMMA DryStep ==
  ASSUME dry, DownStep
  PROVE  disk' = disk /\ fs' = fs /\ dry' = dry /\ added' = added
BY DEF DownStep, EnterDir, MakeDirFails, RefuseDir, Refuse, GetFile, GetFails, RefuseFile

\* What no step of the copy changes.
LEMMA DownStepLeaves ==
  ASSUME DownStep
  PROVE  fs' = fs /\ dry' = dry /\ added' = added
BY DEF DownStep, EnterDir, MakeDirFails, RefuseDir, GetFile, GetFails, RefuseFile

\* The user adds a file where nothing was.
LEMMA UserAddsKeeps ==
  ASSUME OnDisk(disk), UserAdds
  PROVE  OnDisk(disk)' /\ \A p \in LocalPaths : disk[p] # None => disk'[p] = disk[p]
<1>1. PICK q \in LocalPaths : disk[q] = None /\ disk' = [disk EXCEPT ![q] = User]
  BY DEF UserAdds
<1>2. disk = [p \in LocalPaths |-> disk[p]]
  BY DEF OnDisk
<1>3. disk' = [p \in LocalPaths |-> IF p = q THEN User ELSE disk[p]]
  BY <1>1, <1>2
<1>4. \A p \in LocalPaths : disk'[p] = IF p = q THEN User ELSE disk[p]
  BY <1>3
<1>5. disk' = [p \in LocalPaths |-> disk'[p]]
  BY <1>3
<1> QED BY <1>1, <1>4, <1>5 DEF OnDisk

\* A walk stays right while nothing it is about changes.
LEMMA WalkStays ==
  ASSUME NEW E, Walk(E), None # "dir",
         fs' = fs, disk' = disk, root' = root, todo' = todo, failed' = failed
  PROVE  Walk(E)'
<1>1. Kept
  BY DEF Walk, Ground, Kept
<1> QED BY <1>1, WalkWaits

\* At first.
LEMMA DownloadInvInit ==
  ASSUME CopyAssumption, Init
  PROVE  DownloadInv
<1>1. PICK side \in Sides, dryRun \in BOOLEAN : InitFrom(side, dryRun)
  BY DEF Init
<1>2. /\ fs = side.remote /\ disk = side.local /\ download = side.download
      /\ added = 0 /\ pc = "start"
  BY <1>1 DEF InitFrom
<1>3. OnDisk(side.local) /\ (side.download => Fits(side.remote))
  BY DEF CopyAssumption
<1>4. ~Downloads
  BY <1>2 DEF Downloads
<1> QED BY <1>2, <1>3, <1>4 DEF DownloadInv

\* What a step has to do for the invariant.
LEMMA ChangeIsRight ==
  ASSUME OnDisk(disk)', added' \in Nat, (download => Fits(fs))', Downloads' => Walking',
         pc' # "done" \/ exit' # 0 \/ todo' = << >>
  PROVE  DownloadInv'
BY DEF DownloadInv

\* And when it leaves the disk alone.
LEMMA StepIsRight ==
  ASSUME DownloadInv, disk' = disk, added' = added, download' = download, fs' = fs \/ ~download,
         Downloads' => Walking', pc' # "done" \/ exit' # 0 \/ todo' = << >>
  PROVE  DownloadInv' /\ \A p \in LocalPaths : disk[p] # None => disk'[p] = disk[p]
<1>1. OnDisk(disk)' /\ added' \in Nat /\ (download => Fits(fs))'
  BY DEF DownloadInv, OnDisk
<1> QED BY <1>1, ChangeIsRight

\* Then each step.
LEMMA DownloadInvStep ==
  ASSUME CopyAssumption, DownloadInv, [Next]_vars
  PROVE  DownloadInv' /\ \A p \in LocalPaths : disk[p] # None => disk'[p] = disk[p]
<1>1. PathsAssumption /\ DownSyncAssumption /\ None # "dir"
  BY DEF CopyAssumption, DownSyncAssumption
<1>2. /\ OnDisk(disk) /\ added \in Nat /\ (download => Fits(fs)) /\ (Downloads => Walking)
      /\ (pc = "done" /\ exit = 0) => todo = << >>
  BY DEF DownloadInv
<1>5. CASE Start
  <2>1. /\ disk' = disk /\ added' = added /\ download' = download /\ fs' = fs /\ pc' = "copy"
    BY <1>5 DEF Start
  <2>2. download => Walking'
    BY <1>5, StartBegins
  <2> QED BY <1>2, <2>1, <2>2, StepIsRight DEF Downloads
<1>6. CASE StartFails
  <2>1. /\ disk' = disk /\ added' = added /\ download' = download /\ fs' = fs
        /\ pc' = "done" /\ exit' = 1
    BY <1>6 DEF StartFails
  <2> QED BY <1>2, <2>1, StepIsRight DEF Downloads
<1>7. CASE End
  <2>1. /\ disk' = disk /\ added' = added /\ download' = download /\ fs' = fs /\ root' = root
        /\ todo' = todo /\ failed' = failed /\ dry' = dry /\ pc = "copy" /\ todo = << >>
    BY <1>7 DEF End
  <2>2. download /\ ~dry => Walking'
    BY <1>1, <1>2, <2>1, WalkStays DEF Walking, Downloads
  <2> QED BY <1>2, <2>1, <2>2, StepIsRight DEF Downloads
<1>8. CASE Again
  <2>1. /\ disk' = disk /\ added' = added /\ download' = download /\ fs' = fs /\ pc' = "again"
    BY <1>8 DEF Again
  <2> QED BY <1>2, <2>1, StepIsRight DEF Downloads
<1>9. CASE UpDir \/ UpDirFails \/ UpDirCut \/ UpRefuse \/ UpSkip \/ UpFile \/ UpFileFails
  <2>1. /\ disk' = disk /\ added' = added /\ download' = download /\ ~download
        /\ pc = "copy" /\ pc' = pc
    BY <1>9 DEF UpDir, UpDirFails, UpDirCut, UpRefuse, Refuse, UpSkip, UpFile, UpFileFails, UpTurn
  <2> QED BY <1>2, <2>1, StepIsRight DEF Downloads
<1>10. CASE Down
  <2>1. /\ download' = download /\ root' = root /\ pc = "copy" /\ pc' = pc /\ download /\ DownStep
    BY <1>10 DEF Down
  <2>2. fs' = fs /\ dry' = dry /\ added' = added
    BY <2>1, DownStepLeaves
  <2>3. CASE dry
    <3>1. disk' = disk
      BY <2>1, <2>3, DryStep
    <3> QED BY <1>2, <2>1, <2>2, <2>3, <3>1, StepIsRight DEF Downloads
  <2>4. CASE ~dry
    <3>1. Walking
      BY <1>2, <2>1, <2>4 DEF Downloads
    <3>2. Walking' /\ Kept
      BY <1>1, <2>1, <2>4, <3>1, DownStepWalks DEF Walking
    <3>3. OnDisk(disk)' /\ \A p \in LocalPaths : disk[p] # None => disk'[p] = disk[p]
      BY <3>2 DEF Kept, OnDisk
    <3>4. (download => Fits(fs))' /\ added' \in Nat
      BY <1>2, <2>1, <2>2
    <3> QED BY <2>1, <3>2, <3>3, <3>4, ChangeIsRight
  <2> QED BY <2>3, <2>4
<1>11. CASE UserWrites
  <2>1. /\ UserAdds /\ download' = download /\ root' = root /\ pc' = pc /\ exit' = exit
        /\ fs' = fs /\ dry' = dry /\ todo' = todo /\ added' = added + 1
    BY <1>11 DEF UserWrites, UserAdds
  <2>2. OnDisk(disk)' /\ \A p \in LocalPaths : disk[p] # None => disk'[p] = disk[p]
    BY <1>2, <2>1, UserAddsKeeps
  <2>3. Walking => Walking'
    BY <1>1, <2>1, UserAddsWalks DEF Walking
  <2>4. (download => Fits(fs))' /\ added' \in Nat
    BY <1>2, <2>1
  <2> QED BY <1>2, <2>1, <2>2, <2>3, <2>4, ChangeIsRight DEF Downloads
<1>12. CASE UNCHANGED vars
  <2>1. /\ disk' = disk /\ added' = added /\ download' = download /\ fs' = fs /\ root' = root
        /\ todo' = todo /\ failed' = failed /\ dry' = dry /\ pc' = pc /\ exit' = exit
    BY <1>12 DEF vars
  <2>2. Walking => Walking'
    BY <1>1, <2>1, WalkStays DEF Walking
  <2> QED BY <1>2, <2>1, <2>2, StepIsRight DEF Downloads
<1> QED BY <1>5, <1>6, <1>7, <1>8, <1>9, <1>10, <1>11, <1>12 DEF Next

\* The invariant of megacopy holds.
THEOREM DownloadInvariant ==
  ASSUME CopyAssumption
  PROVE  Spec => []DownloadInv
<1>1. Init => DownloadInv
  BY DownloadInvInit
<1>2. DownloadInv /\ [Next]_vars => DownloadInv'
  BY DownloadInvStep
<1> QED BY <1>1, <1>2, PTL DEF Spec

\* A download ends with every node below the remote directory on the disk, or
\* with an error printed for it or for a directory above it.
THEOREM DownloadIsAccounted ==
  ASSUME CopyAssumption
  PROVE  Spec => []DownloadAccounted
<1>1. DownloadInv => DownloadAccounted
  <2> SUFFICES ASSUME DownloadInv, pc = "done", exit = 0, download, ~dry PROVE Accounted
    BY DEF DownloadAccounted
  <2>1. Walk(Range(RemotePath)) /\ todo = << >>
    BY DEF DownloadInv, Downloads, Walking
  <2> QED BY <2>1, WalkEnds
<1>2. Spec => []DownloadInv
  BY DownloadInvariant
<1> QED BY <1>1, <1>2, PTL

\* megacopy overwrites and removes nothing of the local directory.
THEOREM CopyOverwritesNothing ==
  ASSUME CopyAssumption
  PROVE  Spec => NothingOverwritten
<1>1. DownloadInv /\ [Next]_vars => [\A p \in LocalPaths : disk[p] # None => disk'[p] = disk[p]]_disk
  BY DownloadInvStep
<1>2. Spec => []DownloadInv
  BY DownloadInvariant
<1> QED BY <1>1, <1>2, PTL DEF Spec, NothingOverwritten

\* A dry run changes neither side.
THEOREM DryRunIsDry ==
  ASSUME CopyAssumption
  PROVE  Spec => [][DryRunChangesNothing]_vars
<1>1. ASSUME DownloadInv, Next, dry PROVE fs' = fs /\ (disk' = disk \/ added' # added)
  <2>1. CASE Start \/ StartFails \/ End \/ Again
    BY <2>1 DEF Start, StartFails, End, Again
  <2>2. CASE UpDir \/ UpDirFails \/ UpDirCut \/ UpRefuse \/ UpSkip \/ UpFile \/ UpFileFails
    BY <1>1, <2>2 DEF UpDir, MakeRemote, UpDirFails, UpDirCut, UpRefuse, Refuse, UpSkip, UpFile, UpFileFails
  <2>3. CASE Down
    BY <1>1, <2>3, DryStep DEF Down
  <2>4. CASE UserWrites
    <3>1. added \in Nat /\ fs' = fs /\ added' = added + 1
      BY <1>1, <2>4 DEF UserWrites, UserAdds, DownloadInv
    <3> QED BY <3>1
  <2> QED BY <1>1, <2>1, <2>2, <2>3, <2>4 DEF Next
<1>2. DownloadInv /\ [Next]_vars => [DryRunChangesNothing]_vars
  BY <1>1 DEF DryRunChangesNothing
<1>3. Spec => []DownloadInv
  BY DownloadInvariant
<1> QED BY <1>2, <1>3, PTL DEF Spec

-----------------------------------------------------------------------------
(* megadl.                                                                  *)

\* The one node at the top of a folder, and its path.
LEMMA TopIs ==
  ASSUME PathsAssumption, NEW nodes, Fits(nodes), Len(Ls(nodes, <<Slash>>, FALSE)) = 1,
         NEW n, n = Ls(nodes, <<Slash>>, FALSE)[1]
  PROVE  /\ n \in Range(nodes) /\ NodePath(nodes, n.h) \in Seq(Symbols(nodes))
         /\ Simplify(NodePath(nodes, n.h)) = TextOf(NamesOf(nodes, n.h))
<1> DEFINE R == Range(nodes)
           top == Ls(nodes, <<Slash>>, FALSE)
<1>1. nodes \in Seq(R) /\ Forest(nodes)
  BY DEF Fits
<1>2. /\ top \in Seq(R)
      /\ Range(top) = {m \in Range(nodes) : InListing(nodes, m.h, Simplify(<<Slash>>), FALSE)}
  <2> HIDE DEF R
  <2> QED BY <1>1, LsIs
<1>3. n \in Range(top)
  <2>1. Len(top) = 1 /\ n = top[1]
    OBVIOUS
  <2> HIDE DEF top, R
  <2>2. 1 \in DOMAIN top
    BY <1>2, <2>1
  <2> QED BY <2>1, <2>2 DEF Range
<1> HIDE DEF top
<1>4. n \in Range(nodes) /\ InListing(nodes, n.h, Simplify(<<Slash>>), FALSE)
  BY <1>2, <1>3
<1>5. NodePath(nodes, n.h) # None
  BY <1>4 DEF InListing
<1>6. NodePath(nodes, n.h) = TextOf(NamesOf(nodes, n.h))
  BY <1>5 DEF NodePath
<1>7. n.h \in Handles(nodes)
  BY <1>4 DEF Handles
<1> QED BY <1>1, <1>4, <1>6, <1>7, PathTyped

\* While a folder is copied its walk is right.
FolderPart ==
    /\ OnDisk(disk) /\ ~dry
    /\ root # None => Walk({})

\* A missing callback has a folder before it that could not be opened.
PrintPart ==
    /\ turn \in Nat \ {0} /\ notOpened \subseteq Nat
    /\ \E command \in CommandLines : links = command.links
    /\ callback \/ \E k \in notOpened : k < turn
    /\ PrintsWhileWatched

\* The inductive invariant of megadl.
LinkInv == FolderPart /\ PrintPart

\* The links of a command line are what the assumption says.
LEMMA LinksAre ==
  ASSUME LinkAssumption, PrintPart
  PROVE  /\ Len(links) \in Nat
         /\ turn <= Len(links) /\ links[turn].kind = "folder" => Fits(links[turn].nodes)
         /\ turn <= Len(links) /\ links[turn].kind = "file" => <<links[turn].name>> \in LocalPaths
<1>1. PICK command \in CommandLines : links = command.links
  BY DEF PrintPart
<1>2. links \in Seq(Range(links))
  BY <1>1 DEF LinkAssumption
<1>3. \A link \in Range(links) :
          /\ link.kind = "file" => <<link.name>> \in LocalPaths
          /\ link.kind = "folder" => Fits(link.nodes)
  BY <1>1 DEF LinkAssumption
<1>4. ASSUME turn <= Len(links) PROVE links[turn] \in Range(links)
  <2>1. turn \in DOMAIN links
    BY <1>2, <1>4 DEF PrintPart
  <2> QED BY <2>1 DEF Range
<1>5. Len(links) \in Nat
  BY <1>2
<1> QED BY <1>3, <1>4, <1>5

\* A folder that is opened begins a walk.
LEMMA OpenBegins ==
  ASSUME LinkAssumption, FolderPart, PrintPart, OpenFolder, root' # None
  PROVE  Walk({})'
<1> DEFINE top == Ls(fs', <<Slash>>, FALSE)
           n == top[1]
<1>1. /\ Turn("folder") /\ fs' = links[turn].nodes /\ disk' = disk
      /\ IF Len(top) = 1 /\ disk[<< >>] = "dir"
         THEN root' = n.h /\ todo' = <<Task(n, << >>, NodePath(fs', n.h))>>
         ELSE root' = None
  BY DEF OpenFolder
<1>2. turn <= Len(links) /\ links[turn].kind = "folder"
  BY <1>1 DEF Turn
<1>3. Fits(fs') /\ PathsAssumption /\ << >> \in LocalPaths /\ OnDisk(disk')
  BY <1>1, <1>2, LinksAre DEF LinkAssumption, DownSyncAssumption, FolderPart
<1>4. /\ Len(top) = 1 /\ root' = n.h /\ todo' = <<Task(n, << >>, NodePath(fs', n.h))>>
  BY <1>1
<1>5. /\ n \in Range(fs') /\ NodePath(fs', n.h) \in Seq(Symbols(fs'))
      /\ Simplify(NodePath(fs', n.h)) = TextOf(NamesOf(fs', n.h))
  BY <1>3, <1>4, TopIs
<1>6. n \in Nodes'
  BY <1>5 DEF Nodes, Range
<1>7. NodePath(fs', n.h) \in Seq(Alphabet({}))'
  BY <1>5 DEF Alphabet
<1> HIDE DEF n
<1>8. Begins({})'
  BY <1>3, <1>4, <1>5, <1>6, <1>7 DEF Begins, Task
<1> QED BY <1>8, WalkBeginsThen

\* At first.
LEMMA LinkInvInit ==
  ASSUME LinkAssumption, LinkInit
  PROVE  LinkInv
<1>1. PICK command \in CommandLines, local \in Locals : LinkInitFrom(command, local)
  BY DEF LinkInit
<1>2. /\ links = command.links /\ disk = local /\ dry = FALSE /\ turn = 1 /\ root = None
      /\ callback = TRUE /\ printed = {} /\ notOpened = {}
  BY <1>1 DEF LinkInitFrom
<1>3. OnDisk(local)
  BY DEF LinkAssumption
<1>4. FolderPart
  BY <1>2, <1>3 DEF FolderPart
<1>5. PrintPart
  BY <1>2 DEF PrintPart, PrintsWhileWatched
<1> QED BY <1>4, <1>5 DEF LinkInv

\* A step keeps what is said of the folder, and what is on the disk.
LEMMA FolderPartStep ==
  ASSUME LinkAssumption, LinkInv, [LinkNext]_linkVars
  PROVE  FolderPart' /\ \A p \in LocalPaths : disk[p] # None => disk'[p] = disk[p]
<1>1. PathsAssumption /\ DownSyncAssumption /\ None # "dir" /\ FolderPart /\ PrintPart
  BY DEF LinkAssumption, DownSyncAssumption, LinkInv
<1>2. OnDisk(disk) /\ ~dry /\ (root # None => Walk({}))
  BY <1>1 DEF FolderPart
<1>3. ASSUME disk' = disk, dry' = dry, root' = None
      PROVE  FolderPart' /\ \A p \in LocalPaths : disk[p] # None => disk'[p] = disk[p]
  BY <1>2, <1>3 DEF FolderPart, OnDisk
<1>4. CASE Refused \/ FileLinkFails \/ OpenFolderFails \/ Skip \/ StreamFolder \/ Finish \/ UNCHANGED linkVars
  <2>1. /\ disk' = disk /\ dry' = dry /\ root' = root /\ (fs' = fs \/ root = None)
        /\ todo' = todo /\ failed' = failed
    <3>1. CASE OpenFolderFails
      BY <3>1 DEF OpenFolderFails, Turn
    <3>2. CASE Refused \/ FileLinkFails \/ Skip \/ StreamFolder \/ Finish \/ UNCHANGED linkVars
      BY <3>2 DEF Refused, FileLinkFails, Skip, StreamFolder, Finish, linkVars
    <3> QED BY <1>4, <3>1, <3>2
  <2>2. CASE root = None
    BY <1>3, <2>1, <2>2
  <2>3. CASE root # None
    <3>1. Walk({})'
      BY <1>1, <1>2, <2>1, <2>3, WalkStays
    <3> QED BY <1>2, <2>1, <3>1 DEF FolderPart, OnDisk
  <2> QED BY <2>2, <2>3
<1>5. CASE FileLink
  <2> DEFINE q == Target(links[turn].name)
  <2>1. /\ root = None /\ root' = None /\ dry' = dry /\ turn <= Len(links) /\ links[turn].kind = "file"
        /\ stream \/ disk[q] = None
        /\ disk' = IF stream THEN disk ELSE [disk EXCEPT ![q] = links[turn].h]
    BY <1>5 DEF FileLink, Turn
  <2>2. CASE stream
    BY <1>3, <2>1, <2>2
  <2>3. CASE ~stream
    <3>1. q \in LocalPaths
      BY <1>1, <2>1, LinksAre DEF Target, DownSyncAssumption
    <3> HIDE DEF q
    <3>2. disk = [p \in LocalPaths |-> disk[p]]
      BY <1>2 DEF OnDisk
    <3>3. disk' = [p \in LocalPaths |-> IF p = q THEN links[turn].h ELSE disk[p]]
      BY <2>1, <2>3, <3>2
    <3>4. \A p \in LocalPaths : disk[p] # None => disk'[p] = disk[p]
      BY <2>1, <2>3, <3>3
    <3>5. disk' = [p \in LocalPaths |-> disk'[p]]
      BY <3>3
    <3> QED BY <1>2, <2>1, <3>4, <3>5 DEF FolderPart, OnDisk
  <2> QED BY <2>2, <2>3
<1>6. CASE OpenFolder
  <2>1. disk' = disk /\ dry' = dry
    BY <1>6 DEF OpenFolder
  <2>2. root' # None => Walk({})'
    BY <1>1, <1>6, OpenBegins
  <2> QED BY <1>2, <2>1, <2>2 DEF FolderPart, OnDisk
<1>7. CASE CopyStep
  <2>1. root # None /\ DownStep /\ root' = root
    BY <1>7 DEF CopyStep
  <2>2. Walk({})
    BY <1>2, <2>1
  <2>3. Walk({})' /\ Kept
    BY <1>1, <1>2, <2>1, <2>2, DownStepWalks
  <2>4. dry' = dry
    BY <2>1, DownStepLeaves
  <2> QED BY <1>2, <2>3, <2>4 DEF FolderPart, OnDisk, Kept
<1>8. CASE FolderDone
  <2>1. disk' = disk /\ dry' = dry /\ root' = None
    BY <1>8 DEF FolderDone
  <2> QED BY <1>3, <2>1
<1>9. CASE LinkUserWrites
  <2>1. UserAdds /\ root' = root /\ dry' = dry
    BY <1>9 DEF LinkUserWrites, UserAdds
  <2>2. OnDisk(disk)' /\ \A p \in LocalPaths : disk[p] # None => disk'[p] = disk[p]
    BY <1>2, <2>1, UserAddsKeeps
  <2>3. root # None => Walk({})'
    BY <1>1, <1>2, <2>1, UserAddsWalks
  <2> QED BY <1>2, <2>1, <2>2, <2>3 DEF FolderPart
<1> QED BY <1>4, <1>5, <1>6, <1>7, <1>8, <1>9 DEF LinkNext

\* A link that is done leaves the callback missing only after a folder that could
\* not be opened.
LEMMA PrintPartStep ==
  ASSUME LinkAssumption, LinkInv, [LinkNext]_linkVars
  PROVE  PrintPart'
<1>1. PrintPart /\ FolderPart
  BY DEF LinkInv
<1>2. /\ turn \in Nat \ {0} /\ notOpened \subseteq Nat /\ Len(links) \in Nat
      /\ \E command \in CommandLines : links = command.links
      /\ callback \/ \E k \in notOpened : k < turn
      /\ \A p \in printed : p.name = links[p.at].name \/ \E k \in notOpened : k < p.at
  BY <1>1, LinksAre DEF PrintPart, PrintsWhileWatched
<1>3. ASSUME links' = links, turn' \in Nat, turn <= turn', printed' = printed, notOpened' = notOpened,
             callback' \/ callback' = callback
      PROVE  PrintPart'
  <2>1. callback' \/ \E k \in notOpened' : k < turn'
    <3>1. ASSUME NEW k \in notOpened, k < turn PROVE k < turn'
      BY <1>2, <1>3, <3>1
    <3> QED BY <1>2, <1>3, <3>1
  <2> QED BY <1>2, <1>3, <2>1 DEF PrintPart, PrintsWhileWatched
<1>4. CASE Refused
  <2>1. /\ links' = links /\ turn' = Len(links) + 1 /\ turn = 1 /\ printed' = printed
        /\ notOpened' = notOpened /\ callback' = callback
    BY <1>4 DEF Refused
  <2>2. turn' \in Nat /\ turn <= turn'
    BY <1>2, <2>1
  <2> QED BY <1>3, <2>1, <2>2
<1>5. CASE FileLink
  <2>1. /\ links' = links /\ turn' = turn + 1 /\ notOpened' = notOpened /\ callback' = callback
        /\ printed' = printed \cup {[at |-> turn, name |-> curFile']}
        /\ curFile' = IF callback THEN links[turn].name ELSE curFile
    BY <1>5 DEF FileLink, Announced
  <2>2. ASSUME NEW p \in printed' PROVE p.name = links[p.at].name \/ \E k \in notOpened : k < p.at
    <3>1. CASE p \in printed
      BY <1>2, <3>1
    <3>2. CASE p = [at |-> turn, name |-> curFile']
      <4>1. p.at = turn /\ p.name = curFile'
        BY <3>2
      <4> QED BY <1>2, <2>1, <4>1
    <3> QED BY <2>1, <2>2, <3>1, <3>2
  <2>3. turn' \in Nat \ {0} /\ \A k \in notOpened : k < turn => k < turn'
    BY <1>2, <2>1
  <2> QED BY <1>2, <2>1, <2>2, <2>3 DEF PrintPart, PrintsWhileWatched
<1>6. CASE OpenFolderFails
  <2>1. /\ links' = links /\ turn' = turn + 1 /\ notOpened' = notOpened \cup {turn}
        /\ printed' = printed
    BY <1>6 DEF OpenFolderFails
  <2>2. turn' \in Nat \ {0} /\ notOpened' \subseteq Nat /\ turn \in notOpened' /\ turn < turn'
    <3>1. turn \in Nat \ {0}
      BY <1>2
    <3>2. turn + 1 \in Nat \ {0} /\ turn < turn + 1
      BY <3>1
    <3> QED BY <1>2, <2>1, <3>2
  <2>3. \A p \in printed' : p.name = links'[p.at].name \/ \E k \in notOpened' : k < p.at
    <3>1. notOpened \subseteq notOpened'
      BY <2>1
    <3> QED BY <1>2, <2>1, <3>1
  <2> QED BY <1>2, <2>1, <2>2, <2>3 DEF PrintPart, PrintsWhileWatched
<1>7. CASE \/ FileLinkFails \/ OpenFolder \/ CopyStep \/ FolderDone \/ Skip \/ StreamFolder \/ Finish
           \/ LinkUserWrites \/ UNCHANGED linkVars
  <2>1. /\ links' = links /\ (turn' = turn + 1 \/ turn' = turn) /\ printed' = printed
        /\ notOpened' = notOpened /\ (callback' = TRUE \/ callback' = callback)
    BY <1>7 DEF FileLinkFails, OpenFolder, CopyStep, FolderDone, Skip, StreamFolder, Finish,
                LinkUserWrites, linkVars
  <2>2. turn' \in Nat /\ turn <= turn'
    BY <1>2, <2>1
  <2> QED BY <1>3, <2>1, <2>2
<1> QED BY <1>4, <1>5, <1>6, <1>7 DEF LinkNext

\* The invariant of megadl holds.
THEOREM LinkInvariant ==
  ASSUME LinkAssumption
  PROVE  LinkSpec => []LinkInv
<1>1. LinkInit => LinkInv
  BY LinkInvInit
<1>2. LinkInv /\ [LinkNext]_linkVars => LinkInv'
  BY FolderPartStep, PrintPartStep DEF LinkInv
<1> QED BY <1>1, <1>2, PTL DEF LinkSpec

\* A folder link ends with every node of its folder on the disk or reported, and
\* the names printed are those of the files as long as every folder was opened.
THEOREM LinksAreAccounted ==
  ASSUME LinkAssumption
  PROVE  LinkSpec => []LinksAccounted
<1>1. LinkInv => LinksAccounted
  <2> SUFFICES ASSUME LinkInv PROVE FolderAccounted /\ PrintsWhileWatched
    BY DEF LinksAccounted
  <2>1. ASSUME root # None, todo = << >> PROVE Accounted
    <3>1. Walk({})
      BY <2>1 DEF LinkInv, FolderPart
    <3> QED BY <2>1, <3>1, WalkEnds
  <2> QED BY <2>1 DEF LinkInv, PrintPart, FolderAccounted
<1>2. LinkSpec => []LinkInv
  BY LinkInvariant
<1> QED BY <1>1, <1>2, PTL

\* megadl overwrites and removes nothing of the local directory.
THEOREM LinksOverwriteNothing ==
  ASSUME LinkAssumption
  PROVE  LinkSpec => NothingOverwritten
<1>1. LinkInv /\ [LinkNext]_linkVars
          => [\A p \in LocalPaths : disk[p] # None => disk'[p] = disk[p]]_disk
  BY FolderPartStep
<1>2. LinkSpec => []LinkInv
  BY LinkInvariant
<1> QED BY <1>1, <1>2, PTL DEF LinkSpec, NothingOverwritten

-----------------------------------------------------------------------------
(* An upload.                                                               *)

\* A node is added to a list of nodes, below one that is there.
Joins(new, nodes, d) ==
    /\ nodes \in Seq(Range(nodes)) /\ Forest(nodes) /\ d \in Range(nodes) /\ d.type # "file"
    /\ new.parent = d.h /\ new.h \notin Handles(nodes)
    /\ new.name \notin {Slash, Dot, DotDot, Empty}
    /\ None # new.h /\ None # new /\ None \notin Seq(Symbols(nodes) \cup {new.name})

\* The list with it.
LEMMA MoreNodes ==
  ASSUME NEW nodes, NEW new, nodes \in Seq(Range(nodes))
  PROVE  LET more == Append(nodes, new)
         IN /\ Range(more) = Range(nodes) \cup {new} /\ more \in Seq(Range(more))
            /\ Len(nodes) \in Nat /\ Len(more) = Len(nodes) + 1
            /\ DOMAIN nodes = 1 .. Len(nodes) /\ DOMAIN more = 1 .. Len(nodes) + 1
            /\ more[Len(nodes) + 1] = new /\ \A i \in 1 .. Len(nodes) : more[i] = nodes[i]
            /\ Handles(more) = Handles(nodes) \cup {new.h}
            /\ Symbols(more) = Symbols(nodes) \cup {new.name}
<1> DEFINE more == Append(nodes, new)
           R == Range(nodes) \cup {new}
<1>1. nodes \in Seq(R) /\ new \in R
  OBVIOUS
<1> HIDE DEF R
<1>2. /\ more \in Seq(R) /\ Len(nodes) \in Nat /\ Len(more) = Len(nodes) + 1
      /\ DOMAIN nodes = 1 .. Len(nodes) /\ DOMAIN more = 1 .. Len(nodes) + 1
      /\ more[Len(nodes) + 1] = new /\ \A i \in 1 .. Len(nodes) : more[i] = nodes[i]
  BY <1>1, AppendProperties, LenProperties
<1> HIDE DEF more
<1>3. Range(more) = R
  <2>1. ASSUME NEW c \in Range(more) PROVE c \in R
    <3>1. PICK i \in 1 .. Len(nodes) + 1 : c = more[i]
      BY <1>2 DEF Range
    <3> QED BY <1>2, <3>1
  <2>2. ASSUME NEW c \in R PROVE c \in Range(more)
    <3>1. CASE c = new
      <4>1. Len(nodes) + 1 \in 1 .. Len(nodes) + 1
        BY <1>2
      <4> QED BY <1>2, <3>1, <4>1 DEF Range
    <3>2. CASE c \in Range(nodes)
      <4>1. PICK i \in 1 .. Len(nodes) : c = nodes[i]
        BY <1>2, <3>2 DEF Range
      <4>2. i \in 1 .. Len(nodes) + 1
        BY <1>2
      <4> QED BY <1>2, <4>1, <4>2 DEF Range
    <3> QED BY <3>1, <3>2 DEF R
  <2> QED BY <2>1, <2>2
<1>4. Handles(more) = Handles(nodes) \cup {new.h}
  BY <1>3 DEF Handles, R
<1>5. Symbols(more) = Symbols(nodes) \cup {new.name}
  BY <1>3 DEF Symbols, R
<1> QED BY <1>2, <1>3, <1>4, <1>5 DEF more, R

\* The list stays a forest.
LEMMA JoinedForest ==
  ASSUME NEW nodes, NEW new, NEW d, Joins(new, nodes, d)
  PROVE  Forest(Append(nodes, new))
<1> DEFINE more == Append(nodes, new)
           n == Len(nodes)
           H == Handles(nodes)
<1>1. /\ Range(more) = Range(nodes) \cup {new}
      /\ n \in Nat /\ DOMAIN nodes = 1 .. n /\ DOMAIN more = 1 .. n + 1
      /\ more[n + 1] = new /\ \A i \in 1 .. n : more[i] = nodes[i]
      /\ Handles(more) = H \cup {new.h} /\ Symbols(more) = Symbols(nodes) \cup {new.name}
  BY MoreNodes DEF Joins
<1>2. /\ \A i, j \in DOMAIN nodes : nodes[i].h = nodes[j].h => i = j
      /\ None \notin H /\ None \notin Range(nodes)
      /\ \A m \in Range(nodes) : m.parent = None \/ m.parent \in H
      /\ \A m \in Range(nodes) : m.h \in H /\ m.name \notin {Slash, Dot, DotDot, Empty}
      /\ \A S \in SUBSET H : S # {} => \E m \in Range(nodes) : m.h \in S /\ m.parent \notin S
  BY ForestIs DEF Joins
<1>3. /\ d \in Range(nodes) /\ d.h \in H /\ d.type # "file" /\ new.parent = d.h /\ new.h \notin H
      /\ new.name \notin {Slash, Dot, DotDot, Empty}
      /\ None # new.h /\ None # new /\ None \notin Seq(Symbols(more))
  BY <1>1, <1>2 DEF Joins
<1>4. \A m \in Range(nodes) :
         m.parent = None \/ \E k \in Range(nodes) : k.h = m.parent /\ k.type # "file"
  BY DEF Joins, Forest
<1> HIDE DEF more
<1>5. ASSUME NEW i \in DOMAIN more, NEW j \in DOMAIN more, more[i].h = more[j].h PROVE i = j
  <2>1. \A k \in 1 .. n : nodes[k].h \in H
    BY <1>1 DEF Handles, Range
  <2>2. CASE i \in 1 .. n /\ j \in 1 .. n
    BY <1>1, <1>2, <1>5, <2>2
  <2>3. CASE i = n + 1 /\ j \in 1 .. n
    BY <1>1, <1>3, <1>5, <2>1, <2>3
  <2>4. CASE i \in 1 .. n /\ j = n + 1
    BY <1>1, <1>3, <1>5, <2>1, <2>4
  <2>5. (i \in 1 .. n \/ i = n + 1) /\ (j \in 1 .. n \/ j = n + 1)
    BY <1>1
  <2> QED BY <2>2, <2>3, <2>4, <2>5
<1>6. None \notin Handles(more) /\ None \notin Range(more)
  BY <1>1, <1>2, <1>3
<1>7. ASSUME NEW m \in Range(more)
      PROVE  /\ m.parent = None \/ \E k \in Range(more) : k.h = m.parent /\ k.type # "file"
             /\ m.name \notin {Slash, Dot, DotDot, Empty}
  BY <1>1, <1>2, <1>3, <1>4
<1>8. ASSUME NEW S \in SUBSET Handles(more), S # {}
      PROVE  \E m \in Range(more) : m.h \in S /\ m.parent \notin S
  <2>1. CASE S \cap H = {}
    BY <1>1, <1>3, <1>8, <2>1
  <2>2. CASE S \cap H # {}
    <3>1. PICK m \in Range(nodes) : m.h \in S \cap H /\ m.parent \notin S \cap H
      BY <1>2, <2>2
    <3>2. m.parent = None \/ m.parent \in H
      BY <1>2
    <3>3. None \notin S
      BY <1>6
    <3> QED BY <1>1, <3>1, <3>2, <3>3
  <2> QED BY <2>1, <2>2
<1> QED BY <1>3, <1>5, <1>6, <1>7, <1>8 DEF Forest, Handles, more

\* The names of what was there stay, and the node's are its parent's and its own.
LEMMA JoinedNames ==
  ASSUME NEW nodes, NEW new, NEW d, Joins(new, nodes, d)
  PROVE  LET more == Append(nodes, new)
         IN /\ \A g \in Handles(nodes) : NamesOf(more, g) = NamesOf(nodes, g)
            /\ NamesOf(more, new.h) = Append(NamesOf(nodes, d.h), new.name)
<1> DEFINE more == Append(nodes, new)
           T == {g \in Handles(nodes) : NamesOf(more, g) = NamesOf(nodes, g)}
<1>1. Range(more) = Range(nodes) \cup {new}
  BY MoreNodes DEF Joins
<1>2. Forest(more) /\ Forest(nodes)
  BY JoinedForest DEF Joins
<1>3. \A n \in Range(more) :
         NamesOf(more, n.h) = IF n.parent = None THEN <<n.name>>
                              ELSE Append(NamesOf(more, n.parent), n.name)
  <2> HIDE DEF more
  <2> QED BY <1>2, NamesOfIs
<1>4. \A n \in Range(nodes) :
         NamesOf(nodes, n.h) = IF n.parent = None THEN <<n.name>>
                               ELSE Append(NamesOf(nodes, n.parent), n.name)
  BY <1>2, NamesOfIs
<1> HIDE DEF more
<1>5. ASSUME NEW n \in Range(nodes), n.parent = None \/ n.parent \in T PROVE n.h \in T
  <2>1. n.h \in Handles(nodes)
    BY DEF Handles
  <2>2. NamesOf(more, n.h) = NamesOf(nodes, n.h)
    BY <1>1, <1>3, <1>4, <1>5
  <2> QED BY <2>1, <2>2
<1>6. T = Handles(nodes)
  <2>1. T \in SUBSET Handles(nodes)
    OBVIOUS
  <2> HIDE DEF T
  <2> QED BY <1>2, <1>5, <2>1, TreeInduct
<1>7. d.h \in Handles(nodes) /\ new.parent = d.h /\ d.h # None
  <2>1. d.h \in Handles(nodes) /\ new.parent = d.h
    BY DEF Joins, Handles
  <2> QED BY <1>2, <2>1, ForestIs
<1>8. NamesOf(more, new.h) = Append(NamesOf(more, d.h), new.name)
  BY <1>1, <1>3, <1>7
<1> QED BY <1>6, <1>7, <1>8 DEF more

\* What Min gives.
LEMMA LeastIs ==
  ASSUME NEW M \in SUBSET Nat, NEW m \in M, \A k \in M : m <= k
  PROVE  Min(M) = m
<1>1. ASSUME NEW x \in M, \A k \in M : x <= k PROVE x = m
  <2>1. x <= m /\ m <= x /\ x \in Nat /\ m \in Nat
    BY <1>1
  <2> QED BY <2>1
<1> QED BY <1>1 DEF Min

\* A path that leads to a node leads to it still, and one that leads nowhere
\* leads to the new node if it is its path, and nowhere still if it is not.
LEMMA StatMore ==
  ASSUME NEW nodes, NEW new, NEW d, Joins(new, nodes, d), NEW path
  PROVE  LET more == Append(nodes, new)
         IN /\ Stat(nodes, path) # None => Stat(more, path) = Stat(nodes, path)
            /\ Stat(nodes, path) = None /\ NodePath(more, new.h) = Simplify(path) =>
                  Stat(more, path) = new
            /\ Stat(nodes, path) = None /\ NodePath(more, new.h) # Simplify(path) =>
                  Stat(more, path) = None
<1> DEFINE more == Append(nodes, new)
           n == Len(nodes)
           s == Simplify(path)
           at == {i \in DOMAIN nodes : NodePath(nodes, nodes[i].h) = s}
           then == {i \in DOMAIN more : NodePath(more, more[i].h) = s}
<1>1. /\ Range(more) = Range(nodes) \cup {new}
      /\ n \in Nat /\ DOMAIN nodes = 1 .. n /\ DOMAIN more = 1 .. n + 1
      /\ more[n + 1] = new /\ \A i \in 1 .. n : more[i] = nodes[i]
  BY MoreNodes DEF Joins
<1>2. \A i \in 1 .. n : NodePath(more, nodes[i].h) = NodePath(nodes, nodes[i].h)
  <2>1. \A i \in 1 .. n : nodes[i].h \in Handles(nodes)
    BY <1>1 DEF Handles, Range
  <2>2. \A g \in Handles(nodes) : NamesOf(more, g) = NamesOf(nodes, g)
    BY JoinedNames
  <2> QED BY <2>1, <2>2 DEF NodePath
<1>3. /\ Stat(nodes, path) = IF at = {} THEN None ELSE nodes[Min(at)]
      /\ Stat(more, path) = IF then = {} THEN None ELSE more[Min(then)]
  BY DEF Stat, WithPath
<1>4. None \notin Range(nodes)
  BY ForestIs DEF Joins
<1> HIDE DEF s, n, more
<1>5. /\ at \in SUBSET (1 .. n) /\ at \in SUBSET Nat /\ then \in SUBSET Nat
      /\ at \subseteq then /\ \A k \in then : k \in at \/ k = n + 1
      /\ n + 1 \in then <=> NodePath(more, new.h) = s
  BY <1>1, <1>2
<1> HIDE DEF at, then
<1>6. ASSUME at # {} PROVE Stat(nodes, path) # None /\ Stat(more, path) = Stat(nodes, path)
  <2>1. PICK m \in at : \A k \in at : m <= k
    BY <1>5, <1>6, Smallest
  <2>2. m \in 1 .. n /\ m \in then /\ \A k \in then : m <= k
    BY <1>1, <1>5, <2>1
  <2>3. Min(at) = m /\ Min(then) = m
    BY <1>5, <2>1, <2>2, LeastIs
  <2>4. Stat(nodes, path) = nodes[m] /\ Stat(more, path) = nodes[m]
    BY <1>1, <1>3, <1>6, <2>2, <2>3
  <2>5. nodes[m] \in Range(nodes)
    BY <1>1, <2>2 DEF Range
  <2> QED BY <1>4, <2>4, <2>5
<1>7. ASSUME at = {}, NodePath(more, new.h) = s PROVE Stat(more, path) = new
  <2>1. then = {n + 1} /\ n + 1 \in then /\ n + 1 \in Nat
    BY <1>1, <1>5, <1>7
  <2>2. Min(then) = n + 1
    BY <1>5, <2>1, LeastIs
  <2> QED BY <1>1, <1>3, <2>1, <2>2
<1>8. at = {} => Stat(nodes, path) = None
  BY <1>3
<1>9. at = {} /\ NodePath(more, new.h) # s => Stat(more, path) = None
  <2>1. at = {} /\ NodePath(more, new.h) # s => then = {}
    BY <1>5
  <2> QED BY <1>3, <2>1
<1> QED BY <1>6, <1>7, <1>8, <1>9 DEF s, more

\* The directory part of a path with a name at its end.
LEMMA ParentIs ==
  ASSUME NEW S, Slash \in S, NEW D \in Seq(S), NEW x \in S, x # Slash
  PROVE  LET path == D \o <<Slash, x>>
         IN /\ Parent(path) = Append(D, Slash) /\ Front(Append(D, Slash)) = D
            /\ Last(path) = x /\ Len(Append(D, Slash)) = Len(D) + 1
<1> DEFINE path == D \o <<Slash, x>>
           n == Len(D)
           at == {i \in DOMAIN path : path[i] = Slash}
<1>1. /\ path \in Seq(S) /\ n \in Nat /\ Len(path) = n + 2 /\ DOMAIN path = 1 .. n + 2
      /\ path[n + 1] = Slash /\ path[n + 2] = x /\ \A i \in 1 .. n : path[i] = D[i]
  OBVIOUS
<1>2. Parent(path) = SubSeq(path, 1, CHOOSE i \in at : \A k \in at : k <= i)
  BY DEF Parent
<1>3. Last(path) = x
  BY <1>1 DEF Last
<1> HIDE DEF path
<1>4. at \in SUBSET (1 .. n + 2) /\ n + 1 \in at /\ n + 2 \notin at
  BY <1>1
<1>5. \A k \in at : k <= n + 1
  BY <1>1, <1>4
<1>6. ASSUME NEW i \in at, \A k \in at : k <= i PROVE i = n + 1
  BY <1>1, <1>4, <1>5, <1>6
<1>7. (CHOOSE i \in at : \A k \in at : k <= i) = n + 1
  BY <1>4, <1>5, <1>6
<1>8. Parent(path) = SubSeq(path, 1, n + 1)
  BY <1>2, <1>7
<1>9. SubSeq(path, 1, n + 1) = Append(D, Slash)
  <2>1. /\ SubSeq(path, 1, n + 1) \in Seq(S) /\ Len(SubSeq(path, 1, n + 1)) = n + 1
        /\ \A i \in 1 .. n + 1 : SubSeq(path, 1, n + 1)[i] = path[i]
    BY <1>1
  <2>2. /\ Append(D, Slash) \in Seq(S) /\ Len(Append(D, Slash)) = n + 1
        /\ Append(D, Slash)[n + 1] = Slash /\ \A i \in 1 .. n : Append(D, Slash)[i] = D[i]
    BY AppendProperties
  <2>3. \A i \in 1 .. n + 1 : SubSeq(path, 1, n + 1)[i] = Append(D, Slash)[i]
    BY <1>1, <2>1, <2>2
  <2> QED BY <2>1, <2>2, <2>3, SeqEqual
<1>10. Front(Append(D, Slash)) = D
  BY DEF Front
<1>11. Len(Append(D, Slash)) = n + 1
  BY AppendProperties
<1> QED BY <1>3, <1>8, <1>9, <1>10, <1>11 DEF path

\* The remote path of a local one, and what is there.
RPath(p) == RemotePath \o TextOf(p)
There(p) == Stat(fs, RPath(p)) # None
FileAt(p) == IsFile(Stat(fs, RPath(p)))

\* The session's list during an upload.
RemoteIs ==
    /\ fs \in Seq(Range(fs)) /\ Forest(fs)
    /\ Handles(fs) \subseteq AllHandles /\ Symbols(fs) \subseteq AllSymbols

\* What the symbols of paths are.
LEMMA SymbolsAre ==
  /\ Slash \in AllSymbols /\ DotDot \in AllSymbols /\ AllSymbols \cup {Empty} = AllSymbols
  /\ LocalNames \in SUBSET AllSymbols /\ Range(RemotePath) \in SUBSET AllSymbols
  /\ \A side \in Sides : Symbols(side.remote) \in SUBSET AllSymbols
<1> DEFINE M == UNION {Symbols(side.remote) : side \in Sides}
<1>1. \A side \in Sides : Symbols(side.remote) \in SUBSET M
  OBVIOUS
<1>2. AllSymbols = M \cup LocalNames \cup Range(RemotePath) \cup {Slash, DotDot, Empty}
  BY DEF AllSymbols
<1> HIDE DEF M
<1> QED BY <1>1, <1>2

\* The remote path of a local one is a path, and that of a local child is that of
\* a remote child.
LEMMA RPathIs ==
  ASSUME UploadAssumption, NEW p \in LocalPaths
  PROVE  /\ RPath(p) \in Seq(AllSymbols) /\ RPath(<< >>) = RemotePath
         /\ Simplify(RPath(p)) \in Seq(AllSymbols) /\ Simplify(RPath(p)) # None
         /\ p # << >> /\ Front(p) \in LocalPaths =>
               /\ RPath(p) = RPath(Front(p)) \o <<Slash, Last(p)>>
               /\ Last(p) \in LocalNames /\ Last(p) \in AllSymbols \ {Slash, Dot, DotDot, Empty}
<1> DEFINE A == AllSymbols
<1>1. /\ Slash \in A /\ DotDot \in A /\ A \cup {Empty} = A /\ LocalNames \in SUBSET A
      /\ Range(RemotePath) \in SUBSET A
  BY SymbolsAre
<1>2. RemotePath \in Seq(Range(RemotePath)) /\ p \in Seq(LocalNames)
  BY DEF UploadAssumption
<1>3. None \notin Seq(A) /\ LocalNames \cap {Slash, Dot, DotDot, Empty} = {}
  BY DEF UploadAssumption
<1> HIDE DEF A
<1>4. RemotePath \in Seq(A) /\ p \in Seq(A)
  <2> DEFINE R == Range(RemotePath)
             N == LocalNames
  <2>1. RemotePath \in Seq(R) /\ R \in SUBSET A /\ p \in Seq(N) /\ N \in SUBSET A
    BY <1>1, <1>2
  <2> HIDE DEF R, N
  <2> QED BY <2>1
<1>5. TextOf(p) \in Seq(A) /\ TextOf(<< >>) = << >>
  BY <1>1, <1>4, TextAppend
<1>6. RPath(p) \in Seq(A) /\ RPath(<< >>) = RemotePath
  <2>1. RemotePath \o TextOf(p) \in Seq(A)
    BY <1>4, <1>5, ConcatProperties
  <2>2. RemotePath \o << >> = RemotePath
    BY <1>4, ConcatEmptySeq
  <2> QED BY <1>5, <2>1, <2>2 DEF RPath
<1>7. Simplify(RPath(p)) \in Seq(A) /\ Simplify(RPath(p)) # None
  <2>1. Simplify(RPath(p)) \in Seq(A \cup {Empty})
    BY <1>1, <1>6, SimplifyTyped
  <2> QED BY <1>1, <1>3, <2>1
<1>8. ASSUME p # << >>
      PROVE  /\ RPath(p) = RPath(Front(p)) \o <<Slash, Last(p)>>
             /\ Last(p) \in LocalNames /\ Last(p) \in A \ {Slash, Dot, DotDot, Empty}
  <2>1. Front(p) \in Seq(LocalNames) /\ Last(p) \in LocalNames /\ p = Append(Front(p), Last(p))
    BY <1>2, <1>8, FrontLast
  <2>2. Front(p) \in Seq(A) /\ Last(p) \in A
    BY <1>4, <1>8, FrontLast
  <2>3. TextOf(p) = TextOf(Front(p)) \o <<Slash, Last(p)>> /\ TextOf(Front(p)) \in Seq(A)
    <3> DEFINE q == Front(p)
               x == Last(p)
    <3>1. q \in Seq(A) /\ x \in A /\ p = Append(q, x)
      BY <2>1, <2>2
    <3> HIDE DEF q, x
    <3>2. TextOf(Append(q, x)) = TextOf(q) \o <<Slash, x>> /\ TextOf(q) \in Seq(A)
      BY <1>1, <3>1, TextAppend
    <3> QED BY <3>1, <3>2 DEF q, x
  <2>4. <<Slash, Last(p)>> \in Seq(A)
    BY <1>1, <2>2
  <2>5. RemotePath \o (TextOf(Front(p)) \o <<Slash, Last(p)>>)
           = (RemotePath \o TextOf(Front(p))) \o <<Slash, Last(p)>>
    BY <1>4, <2>3, <2>4, ConcatAssociative
  <2>6. RPath(p) = RPath(Front(p)) \o <<Slash, Last(p)>>
    BY <2>3, <2>5 DEF RPath
  <2>7. Last(p) \notin {Slash, Dot, DotDot, Empty}
    BY <1>3, <2>1
  <2> QED BY <2>1, <2>2, <2>6, <2>7
<1> QED BY <1>6, <1>7, <1>8 DEF A

\* What is there, is in the list with that path.
LEMMA ThereIs ==
  ASSUME UploadAssumption, RemoteIs, NEW p \in LocalPaths, There(p)
  PROVE  LET n == Stat(fs, RPath(p))
         IN /\ n \in Range(fs) /\ n.h \in Handles(fs)
            /\ TextOf(NamesOf(fs, n.h)) = Simplify(RPath(p))
            /\ FileAt(p) <=> n.type = "file"
<1> DEFINE path == RPath(p)
           n == Stat(fs, path)
           R == Range(fs)
<1>1. fs \in Seq(R) /\ Stat(fs, path) # None /\ Simplify(path) # None
  BY RPathIs DEF RemoteIs, There
<1> HIDE DEF R, path
<1>2. n \in Range(fs) /\ TextOf(NamesOf(fs, n.h)) = Simplify(path)
  BY <1>1, StatIs
<1>3. IsFile(n) <=> n.type = "file"
  <2>1. n \in Nodes
    BY <1>2, NodesAre
  <2> QED BY <2>1 DEF IsFile
<1> QED BY <1>2, <1>3 DEF Handles, FileAt, path

\* The node to which mkdir and put add, and the path they give to the new one.
LEMMA OverIs ==
  ASSUME UploadAssumption, RemoteIs, NEW p \in LocalPaths, p # << >>, Front(p) \in LocalPaths,
         There(Front(p))
  PROVE  /\ ParentNode(RPath(p)) = Stat(fs, RPath(Front(p)))
         /\ Last(Simplify(RPath(p))) = Last(p)
         /\ Simplify(RPath(p)) = Simplify(RPath(Front(p))) \o <<Slash, Last(p)>>
<1> DEFINE A == AllSymbols
           q == Front(p)
           x == Last(p)
           d == Stat(fs, RPath(q))
           D == Simplify(RPath(q))
<1>1. RPath(q) \in Seq(A) /\ D \in Seq(A) /\ q \in LocalPaths
  BY RPathIs
<1>2. RPath(p) = RPath(q) \o <<Slash, x>> /\ x \in A \ {Slash, Dot, DotDot, Empty}
  BY RPathIs
<1>3. d.h \in Handles(fs) /\ TextOf(NamesOf(fs, d.h)) = D
  BY <1>1, ThereIs
<1>4. Simplify(D) = D /\ Len(D) > 1
  BY <1>3, PathTyped DEF UploadAssumption, RemoteIs
<1>5. Slash \in A /\ DotDot \in A /\ PathsAssumption
  BY SymbolsAre DEF UploadAssumption
<1> HIDE DEF A, q, x, D
<1>6. D # << >> /\ D # <<Slash>>
  <2>1. Len(<< >>) = 0 /\ Len(<<Slash>>) = 1 /\ ~(0 > 1) /\ ~(1 > 1)
    OBVIOUS
  <2> QED BY <1>4, <2>1, Zenon
<1>7. Simplify(RPath(p)) = D \o <<Slash, x>>
  BY <1>1, <1>2, <1>5, <1>6, SimplifyChild DEF D
<1>8. /\ Parent(D \o <<Slash, x>>) = Append(D, Slash) /\ Front(Append(D, Slash)) = D
      /\ Last(D \o <<Slash, x>>) = x /\ Len(Append(D, Slash)) = Len(D) + 1
  BY <1>1, <1>2, <1>5, ParentIs
<1>9. Directory(Append(D, Slash)) = Stat(fs, D)
  <2>1. Len(D) \in Nat
    BY <1>1
  <2>2. ~(Len(Append(D, Slash)) <= 1)
    BY <1>4, <1>8, <2>1
  <2> QED BY <1>8, <2>2 DEF Directory
<1>10. Stat(fs, D) = d
  BY <1>4 DEF Stat, D
<1>11. ParentNode(RPath(p)) = d
  BY <1>7, <1>8, <1>9, <1>10 DEF ParentNode
<1> QED BY <1>7, <1>8, <1>11 DEF q, x, D

\* A path that is some node's leads to a node.
LEMMA StatFinds ==
  ASSUME NEW R, NEW nodes \in Seq(R), Forest(nodes), NEW n \in Range(nodes), NEW path,
         NodePath(nodes, n.h) = Simplify(path)
  PROVE  Stat(nodes, path) # None
<1> DEFINE at == {i \in DOMAIN nodes : NodePath(nodes, nodes[i].h) = Simplify(path)}
<1>1. Stat(nodes, path) = IF at = {} THEN None ELSE nodes[Min(at)]
  BY DEF Stat, WithPath
<1>2. at # {} /\ at \in SUBSET DOMAIN nodes /\ DOMAIN nodes \in SUBSET Nat
  <2>1. PICK i \in DOMAIN nodes : nodes[i] = n
    BY DEF Range
  <2> QED BY <2>1
<1> HIDE DEF at
<1>3. Min(at) \in DOMAIN nodes
  <2>1. PICK m \in at : \A k \in at : m <= k
    BY <1>2, Smallest
  <2>2. Min(at) = m
    BY <1>2, <2>1, LeastIs
  <2> QED BY <1>2, <2>1, <2>2
<1>4. nodes[Min(at)] \in Range(nodes) /\ None \notin Range(nodes)
  BY <1>3, ForestIs DEF Range
<1> QED BY <1>1, <1>2, <1>4

\* What the session's list is after a node has been added to it at a path.
Grown(p, type) ==
    /\ RemoteIs' /\ Range(fs) \subseteq Range(fs')
    /\ \A q \in LocalPaths : There(q) => There(q)' /\ (FileAt(q)' <=> FileAt(q))
    /\ There(p)' /\ (FileAt(p)' <=> type = "file")
    /\ \A q : ~There(q) /\ Simplify(RPath(q)) # Simplify(RPath(p)) => ~There(q)'
    /\ AddedApart => AddedApart'

\* mkdir and put add a node that is found by the path it was added at, and by no
\* other, and all that was there is found as before.
LEMMA AddedIs ==
  ASSUME UploadAssumption, RemoteIs, NEW p \in LocalPaths, p # << >>, Front(p) \in LocalPaths,
         There(Front(p)), ~FileAt(Front(p)), ~There(p), MayAdd(RPath(p)),
         NEW type \in {"dir", "file"}, fs' = Added(RPath(p), type)
  PROVE  Grown(p, type)
<1> DEFINE x == Last(p)
           q == Front(p)
           d == Stat(fs, RPath(q))
           hh == CHOOSE h \in NewHandles : h \notin HandlesOf
           new == [h |-> hh, parent |-> d.h, name |-> x, type |-> type]
<1>1. /\ RPath(q) \in Seq(AllSymbols) /\ RPath(p) = RPath(q) \o <<Slash, x>>
      /\ x \in LocalNames /\ x \in AllSymbols \ {Slash, Dot, DotDot, Empty}
      /\ Simplify(RPath(p)) # None
  BY RPathIs
<1>2. /\ d \in Range(fs) /\ d.h \in Handles(fs) /\ d.type # "file"
      /\ TextOf(NamesOf(fs, d.h)) = Simplify(RPath(q))
  BY ThereIs
<1>3. /\ ParentNode(RPath(p)) = d /\ Last(Simplify(RPath(p))) = x
      /\ Simplify(RPath(p)) = Simplify(RPath(q)) \o <<Slash, x>>
  BY OverIs
<1>4. hh \in NewHandles /\ hh \notin Handles(fs)
  BY NodesAre DEF MayAdd
<1>5. fs' = Append(fs, new)
  BY <1>3 DEF Added
<1>6. /\ fs \in Seq(Range(fs)) /\ Forest(fs) /\ Handles(fs) \subseteq AllHandles
      /\ Symbols(fs) \subseteq AllSymbols /\ PathsAssumption
      /\ None \notin NewHandles /\ None \notin Seq(AllSymbols) /\ NewHandles \subseteq AllHandles
      /\ None \notin [h : NewHandles, parent : AllHandles, name : LocalNames, type : {"dir", "file"}]
  BY DEF RemoteIs, UploadAssumption, AllHandles
<1> HIDE DEF x, q, d, hh
<1>7. /\ new.h = hh /\ new.parent = d.h /\ new.name = x /\ new.type = type
      /\ new \in [h : NewHandles, parent : AllHandles, name : LocalNames, type : {"dir", "file"}]
  BY <1>1, <1>2, <1>4, <1>6
<1> HIDE DEF new
<1>8. Joins(new, fs, d)
  <2>1. Symbols(fs) \cup {x} \in SUBSET AllSymbols
    BY <1>1, <1>6
  <2>2. None \notin Seq(Symbols(fs) \cup {x})
    BY <1>6, <2>1
  <2> QED BY <1>1, <1>2, <1>4, <1>6, <1>7, <2>2 DEF Joins
<1>9. /\ Range(fs') = Range(fs) \cup {new} /\ fs' \in Seq(Range(fs'))
      /\ Handles(fs') = Handles(fs) \cup {hh} /\ Symbols(fs') = Symbols(fs) \cup {x}
  BY <1>5, <1>6, <1>7, MoreNodes
<1>10. Forest(fs')
  BY <1>5, <1>8, JoinedForest
<1>11. /\ \A g \in Handles(fs) : NamesOf(fs', g) = NamesOf(fs, g)
       /\ NamesOf(fs', hh) = Append(NamesOf(fs, d.h), x)
  BY <1>5, <1>7, <1>8, JoinedNames
<1>12. RemoteIs'
  <2>1. Handles(fs') \subseteq AllHandles /\ Symbols(fs') \subseteq AllSymbols
    BY <1>1, <1>4, <1>6, <1>9
  <2> QED BY <1>9, <1>10, <2>1 DEF RemoteIs
<1>13. NodePath(fs', hh) = Simplify(RPath(p))
  <2> DEFINE A == AllSymbols
             ns == NamesOf(fs, d.h)
  <2>1. ns \in Seq(A) /\ x \in A /\ Slash \in A
    <3>1. ns \in Seq(NamesIn(fs))
      BY <1>2, <1>6, NamesTyped
    <3>2. NamesIn(fs) \in SUBSET A
      BY <1>6 DEF NamesIn, Symbols
    <3> HIDE DEF ns, A
    <3>3. ns \in Seq(A)
      BY <3>1, <3>2
    <3> QED BY <1>1, <3>3, SymbolsAre DEF A
  <2> HIDE DEF A, ns
  <2>2. TextOf(Append(ns, x)) = TextOf(ns) \o <<Slash, x>>
    BY <2>1, TextAppend
  <2>3. TextOf(NamesOf(fs', hh)) = Simplify(RPath(p))
    BY <1>2, <1>3, <1>11, <2>2 DEF ns
  <2>4. Len(Simplify(RPath(p))) + 1 <= MaxPath
    <3> DEFINE s == Simplify(RPath(p))
    <3>1. s \in Seq(AllSymbols) /\ Len(s) < MaxPath /\ MaxPath \in Nat
      BY RPathIs DEF UploadAssumption, RPath, PathsAssumption
    <3> HIDE DEF s
    <3>2. Len(s) \in Nat
      BY <3>1
    <3>3. Len(s) + 1 <= MaxPath
      BY <3>1, <3>2
    <3> QED BY <3>3 DEF s
  <2> QED BY <2>3, <2>4 DEF NodePath
<1>14. /\ \A path : Stat(fs, path) # None => Stat(fs', path) = Stat(fs, path)
       /\ Stat(fs', RPath(p)) = new
  <2>1. NodePath(fs', new.h) = Simplify(RPath(p)) /\ Stat(fs, RPath(p)) = None
    BY <1>7, <1>13 DEF There
  <2>2. ASSUME NEW path
        PROVE  /\ Stat(fs, path) # None => Stat(fs', path) = Stat(fs, path)
               /\ Stat(fs, path) = None /\ NodePath(fs', new.h) = Simplify(path) =>
                     Stat(fs', path) = new
    BY <1>5, <1>8, StatMore
  <2>3. Stat(fs', RPath(p)) = new
    BY <2>1, <2>2
  <2> QED BY <2>2, <2>3
<1>15. Nodes = Range(fs) /\ Nodes' = Range(fs')
  BY NodesAre DEF Nodes, Range
<1>16. new # None
  BY <1>8 DEF Joins
<1>17. ASSUME NEW r \in LocalPaths, There(r) PROVE There(r)' /\ (FileAt(r)' <=> FileAt(r))
  <2> DEFINE n == Stat(fs, RPath(r))
  <2>1. n # None /\ n \in Range(fs) /\ (FileAt(r) <=> n.type = "file")
    BY <1>17, ThereIs DEF There
  <2>2. Stat(fs', RPath(r)) = n
    BY <1>14, <2>1
  <2> HIDE DEF n
  <2>3. There(r)' /\ (FileAt(r)' <=> n \in {m \in Nodes' : m.type = "file"})
    BY <2>1, <2>2 DEF There, FileAt, IsFile, RPath
  <2> QED BY <1>9, <1>15, <2>1, <2>3
<1>18. There(p)' /\ (FileAt(p)' <=> type = "file")
  <2>1. There(p)' /\ (FileAt(p)' <=> new \in {m \in Nodes' : m.type = "file"})
    BY <1>14, <1>16 DEF There, FileAt, IsFile, RPath
  <2> QED BY <1>7, <1>9, <1>15, <2>1
<1>19. ASSUME AddedApart, NEW m \in Nodes', NEW n \in Nodes', m.h \in NewHandles,
              NodePath(fs', m.h) = NodePath(fs', n.h)
       PROVE  m = n
  <2>1. \A k \in Nodes : NodePath(fs', k.h) = NodePath(fs, k.h)
    BY <1>11, <1>15 DEF NodePath, Handles
  <2>2. \A k \in Nodes : NodePath(fs, k.h) # Simplify(RPath(p))
    <3> SUFFICES ASSUME NEW k \in Nodes, NodePath(fs, k.h) = Simplify(RPath(p)) PROVE FALSE
      OBVIOUS
    <3> DEFINE R == Range(fs)
    <3>1. fs \in Seq(R) /\ Forest(fs) /\ k \in Range(fs)
      BY <1>6, <1>15
    <3> HIDE DEF R
    <3>2. Stat(fs, RPath(p)) # None
      BY <3>1, StatFinds
    <3> QED BY <3>2 DEF There
  <2>3. (m \in Nodes \/ m = new) /\ (n \in Nodes \/ n = new)
    BY <1>9, <1>15
  <2>4. CASE m \in Nodes /\ n \in Nodes
    BY <1>19, <2>1, <2>4 DEF AddedApart
  <2>5. CASE m = new /\ n \in Nodes
    BY <1>7, <1>13, <1>19, <2>1, <2>2, <2>5
  <2>6. CASE m \in Nodes /\ n = new
    BY <1>7, <1>13, <1>19, <2>1, <2>2, <2>6
  <2> QED BY <2>3, <2>4, <2>5, <2>6
<1>20. AddedApart => AddedApart'
  BY <1>19 DEF AddedApart
<1>21. ASSUME NEW r, ~There(r), Simplify(RPath(r)) # Simplify(RPath(p)) PROVE ~There(r)'
  <2> DEFINE path == RPath(r)
  <2>1. Stat(fs, path) = None /\ NodePath(fs', new.h) # Simplify(path)
    BY <1>7, <1>13, <1>21 DEF There
  <2> HIDE DEF path
  <2>2. Stat(fs', path) = None
    BY <1>5, <1>8, <2>1, StatMore
  <2> QED BY <2>2 DEF There, RPath, path
<1> QED BY <1>9, <1>12, <1>17, <1>18, <1>20, <1>21 DEF Grown

\* An order of a finite set has each of its members.
LEMMA OrderIs ==
  ASSUME NEW S, IsFiniteSet(S), NEW f \in SetToSeqs(S)
  PROVE  /\ f \in Seq(S) /\ Len(f) \in Nat /\ DOMAIN f = 1 .. Len(f)
         /\ \A s \in S : \E i \in DOMAIN f : f[i] = s
<1> DEFINE c == Cardinality(S)
<1>1. f \in [1 .. c -> S] /\ \A i, j \in 1 .. c : i # j => f[i] # f[j]
  BY DEF SetToSeqs
<1>2. c \in Nat
  BY FS_CardinalityType
<1>3. Cardinality(1 .. c) = c /\ IsFiniteSet(1 .. c)
  <2>1. Cardinality(1 .. c) = IF 1 > c THEN 0 ELSE c - 1 + 1
    BY <1>2, FS_Interval
  <2>2. IsFiniteSet(1 .. c)
    BY <1>2, FS_Interval
  <2> QED BY <1>2, <2>1, <2>2
<1> HIDE DEF c
<1>4. f \in Injection(1 .. c, S)
  BY <1>1 DEF Injection, IsInjective
<1>5. f \in Surjection(1 .. c, S)
  BY <1>3, <1>4, FS_Injection DEF c
<1>6. f \in Seq(S) /\ Len(f) = c
  BY <1>1, <1>2
<1> QED BY <1>1, <1>2, <1>5, <1>6 DEF Surjection

\* The directory of a path.
Over(p) == IF p = << >> THEN p ELSE Front(p)

\* The calls of up_sync_dir and up_sync_file: each is about the remote path of its
\* local path.
UpTypes == [node : Range(fs) \cup {None}, path : LocalPaths, rpath : Seq(AllSymbols)]
UpCalls == {t \in UpTypes : t.rpath = RPath(t.path)}

\* The calls for the entries of a directory are like that, one for each entry.
LEMMA UpTasksAre ==
  ASSUME UploadAssumption, NEW t \in UpCalls, NEW tasks \in UpTasks(t)
  PROVE  /\ tasks \in Seq(UpCalls) /\ Len(tasks) \in Nat /\ DOMAIN tasks = 1 .. Len(tasks)
         /\ \A p \in Entries(t.path) : \E i \in DOMAIN tasks : tasks[i].path = p
         /\ \A i \in DOMAIN tasks : tasks[i].node = None /\ tasks[i].path \in Entries(t.path)
<1> DEFINE S == Entries(t.path)
           TaskOf(p) == Task(None, p, t.rpath \o <<Slash, Last(p)>>)
<1>1. PICK order \in SetToSeqs(S) : tasks = [i \in DOMAIN order |-> TaskOf(order[i])]
  BY DEF UpTasks
<1>2. IsFiniteSet(S)
  <2>1. S \in SUBSET LocalPaths
    BY DEF Entries
  <2> QED BY <2>1, FS_Subset DEF UploadAssumption
<1>3. t.path \in LocalPaths /\ t.rpath = RPath(t.path)
  BY DEF UpCalls, UpTypes
<1>4. ASSUME NEW p \in S PROVE TaskOf(p) \in UpCalls /\ TaskOf(p).node = None /\ TaskOf(p).path = p
  <2>1. p \in LocalPaths /\ p # << >> /\ Front(p) = t.path
    BY DEF Entries
  <2>2. RPath(p) = t.rpath \o <<Slash, Last(p)>> /\ RPath(p) \in Seq(AllSymbols)
    BY <1>3, <2>1, RPathIs
  <2> DEFINE c == TaskOf(p)
  <2>3. c = [node |-> None, path |-> p, rpath |-> RPath(p)]
    BY <2>2 DEF Task
  <2> HIDE DEF c, TaskOf
  <2>4. c.node = None /\ c.path = p /\ c.rpath = RPath(p) /\ c \in UpTypes
    BY <2>1, <2>2, <2>3 DEF UpTypes
  <2> QED BY <2>4 DEF c, UpCalls
<1> HIDE DEF S, TaskOf
<1>5. /\ order \in Seq(S) /\ Len(order) \in Nat /\ DOMAIN order = 1 .. Len(order)
      /\ \A p \in S : \E i \in DOMAIN order : order[i] = p
  BY <1>2, OrderIs
<1>6. \A i \in 1 .. Len(order) : order[i] \in S /\ TaskOf(order[i]) \in UpCalls
  BY <1>4, <1>5
<1>7. tasks \in Seq(UpCalls) /\ Len(tasks) = Len(order) /\ DOMAIN tasks = DOMAIN order
  <2> DEFINE G == UpCalls
  <2>1. \A i \in 1 .. Len(order) : TaskOf(order[i]) \in G
    BY <1>6
  <2>2. tasks = [i \in 1 .. Len(order) |-> TaskOf(order[i])]
    BY <1>1, <1>5
  <2> HIDE DEF G
  <2>3. tasks \in Seq(G)
    BY <1>5, <2>1, <2>2, IsASeq
  <2>4. Len(tasks) = Len(order)
    BY <1>5, <2>2, <2>3
  <2> QED BY <1>5, <2>2, <2>3, <2>4 DEF G
<1>8. ASSUME NEW i \in DOMAIN tasks PROVE tasks[i] = TaskOf(order[i]) /\ order[i] \in S
  BY <1>1, <1>5, <1>6, <1>7
<1>9. ASSUME NEW p \in S PROVE \E i \in DOMAIN tasks : tasks[i].path = p
  <2>1. PICK i \in DOMAIN order : order[i] = p
    BY <1>5
  <2>2. i \in DOMAIN tasks
    BY <1>7, <2>1
  <2> QED BY <1>4, <1>8, <2>1, <2>2
<1>10. \A i \in DOMAIN tasks : tasks[i].node = None /\ tasks[i].path \in S
  BY <1>4, <1>8
<1>11. tasks \in Seq(UpCalls) /\ Len(tasks) \in Nat /\ DOMAIN tasks = 1 .. Len(tasks)
  BY <1>5, <1>7
<1> QED BY <1>9, <1>10, <1>11, Zenon DEF S

\* Those that are right: in a directory that is there.
GoodUps ==
    {t \in UpTypes :
        /\ t.rpath = RPath(t.path) /\ Over(t.path) \in LocalPaths
        /\ There(Over(t.path)) /\ ~FileAt(Over(t.path))}

\* A directory that is there in the next state gives right calls.
LEMMA UpTasksGood ==
  ASSUME UploadAssumption, NEW t \in GoodUps, There(t.path)', ~FileAt(t.path)',
         NEW tasks \in UpTasks(t)
  PROVE  /\ tasks \in Seq(GoodUps')
         /\ Len(tasks) \in Nat /\ DOMAIN tasks = 1 .. Len(tasks)
         /\ \A p \in Entries(t.path) : \E i \in DOMAIN tasks : tasks[i].path = p
<1>1. t \in UpCalls /\ t.path \in LocalPaths
  BY DEF GoodUps, UpCalls, UpTypes
<1> DEFINE C == UpCalls
           G == GoodUps'
<1>2. /\ tasks \in Seq(C) /\ Len(tasks) \in Nat /\ DOMAIN tasks = 1 .. Len(tasks)
      /\ \A p \in Entries(t.path) : \E i \in DOMAIN tasks : tasks[i].path = p
      /\ \A i \in DOMAIN tasks : tasks[i].node = None /\ tasks[i].path \in Entries(t.path)
  BY <1>1, UpTasksAre
<1>3. ASSUME NEW c \in C, c.node = None, c.path \in Entries(t.path) PROVE c \in G
  <2>1. c.path # << >> /\ Over(c.path) = t.path
    BY <1>3 DEF Entries, Over
  <2>2. c \in UpTypes' /\ c.rpath = RPath(c.path)
    BY <1>3 DEF UpCalls, UpTypes
  <2>3. There(Over(c.path))' /\ ~FileAt(Over(c.path))'
    BY <2>1
  <2> QED BY <1>1, <2>1, <2>2, <2>3 DEF GoodUps, RPath
<1> HIDE DEF C, G
<1>4. \A i \in 1 .. Len(tasks) : tasks[i] \in G
  BY <1>2, <1>3
<1>5. tasks \in Seq(G)
  BY <1>2, <1>4
<1> QED BY <1>2, <1>5 DEF G

\* What UploadReported asks for one path.
Put(p) ==
    \/ IF disk[p] = "other" THEN <<p, RelativePath(Front(p))>> \in skipped
       ELSE There(p) /\ (FileAt(p) <=> disk[p] = User)
    \/ \E k \in 0 .. Len(p) : SubSeq(p, 1, k) \in failed \cup cut
    \/ None \in failed

\* A call that is to be made leads to the path.
Awaited(tasks, p) == \E i \in DOMAIN tasks : \E k \in 0 .. Len(p) : SubSeq(p, 1, k) = tasks[i].path

\* The inductive invariant of the walk of an upload.
UpWalk ==
    /\ todo \in Seq(GoodUps)
    /\ added = 0 => \A p \in LocalPaths \ {<< >>} : disk[p] # None => Put(p) \/ Awaited(todo, p)

\* What a step of the walk keeps.
UpKept ==
    /\ Range(fs) \subseteq Range(fs')
    /\ \A q \in LocalPaths : There(q) => There(q)' /\ (FileAt(q)' <=> FileAt(q))
    /\ failed \subseteq failed' /\ cut \subseteq cut' /\ skipped \subseteq skipped'
    /\ disk' = disk /\ added' = added

\* A right call stays right, and what is put stays put.
LEMMA PutStays ==
  ASSUME UpKept
  PROVE  GoodUps \subseteq GoodUps' /\ \A p \in LocalPaths : Put(p) => Put(p)'
<1>1. ASSUME NEW t \in GoodUps PROVE t \in GoodUps'
  <2>1. /\ t \in UpTypes /\ t.rpath = RPath(t.path) /\ Over(t.path) \in LocalPaths
        /\ There(Over(t.path)) /\ ~FileAt(Over(t.path))
    BY DEF GoodUps
  <2>2. t \in UpTypes'
    BY <2>1 DEF UpKept, UpTypes
  <2>3. There(Over(t.path))' /\ ~FileAt(Over(t.path))'
    BY <2>1 DEF UpKept
  <2> QED BY <2>1, <2>2, <2>3 DEF GoodUps, RPath
<1>2. ASSUME NEW p \in LocalPaths, Put(p) PROVE Put(p)'
  <2>1. CASE disk[p] # "other" /\ There(p) /\ (FileAt(p) <=> disk[p] = User)
    <3>1. There(p)' /\ (FileAt(p)' <=> FileAt(p)) /\ disk' = disk
      BY <2>1 DEF UpKept
    <3> QED BY <2>1, <3>1 DEF Put
  <2>2. CASE \E k \in 0 .. Len(p) : SubSeq(p, 1, k) \in failed \cup cut
    BY <2>2 DEF Put, UpKept
  <2>3. CASE disk[p] = "other" /\ <<p, RelativePath(Front(p))>> \in skipped
    BY <2>3 DEF Put, UpKept, RelativePath
  <2>4. CASE None \in failed
    BY <2>4 DEF Put, UpKept
  <2> QED BY <1>2, <2>1, <2>2, <2>3, <2>4 DEF Put
<1> QED BY <1>1, <1>2

\* The walk is right after a step if what the first call stood for is put, or is
\* awaited of the calls that take its place.
LEMMA UpStep ==
  ASSUME UpWalk, UpKept, todo # << >>, NEW G, G = GoodUps',
         NEW new \in Seq(G), todo' = new \o Tail(todo),
         added = 0 => \A p \in LocalPaths \ {<< >>} :
            disk[p] # None /\ (\E k \in 0 .. Len(p) : SubSeq(p, 1, k) = Head(todo).path) =>
                Put(p)' \/ Awaited(new, p)
  PROVE  UpWalk'
<1> DEFINE rest == Tail(todo)
           H == GoodUps
<1>1. /\ todo \in Seq(H) /\ H \subseteq G
      /\ \A p \in LocalPaths : Put(p) => Put(p)'
  BY PutStays DEF UpWalk
<1>2. disk' = disk /\ added' = added
  BY DEF UpKept
<1> HIDE DEF H
<1>3. todo \in Seq(G)
  BY <1>1
<1>4. /\ rest \in Seq(G) /\ Len(rest) = Len(todo) - 1 /\ Len(todo) \in Nat \ {0}
      /\ \A i \in 1 .. Len(rest) : rest[i] = todo[i + 1]
      /\ Head(todo) = todo[1] /\ DOMAIN todo = 1 .. Len(todo)
  <2>1. Head(todo) = todo[1] /\ DOMAIN todo = 1 .. Len(todo) /\ Len(todo) \in Nat \ {0}
    BY <1>3
  <2> QED BY <1>3, <2>1, HeadTailProperties
<1> HIDE DEF rest
<1> DEFINE all == new \o rest
<1>5. /\ all \in Seq(G) /\ DOMAIN all = 1 .. Len(new) + Len(rest)
      /\ DOMAIN new = 1 .. Len(new) /\ DOMAIN rest = 1 .. Len(rest)
      /\ Len(new) \in Nat /\ Len(rest) \in Nat
      /\ \A i \in 1 .. Len(new) + Len(rest) : all[i] = IF i <= Len(new) THEN new[i] ELSE rest[i - Len(new)]
  <2>1. Len(new) \in Nat /\ Len(rest) \in Nat /\ DOMAIN new = 1 .. Len(new) /\ DOMAIN rest = 1 .. Len(rest)
    BY <1>4
  <2>2. /\ all \in Seq(G) /\ Len(all) = Len(new) + Len(rest)
        /\ \A i \in 1 .. Len(new) + Len(rest) : all[i] = IF i <= Len(new) THEN new[i] ELSE rest[i - Len(new)]
    BY <1>4, ConcatProperties
  <2> HIDE DEF all
  <2>3. DOMAIN all = 1 .. Len(new) + Len(rest)
    <3>1. DOMAIN all = 1 .. Len(all)
      BY <2>2
    <3> QED BY <2>2, <3>1
  <2> QED BY <2>1, <2>2, <2>3, Zenon
<1>6. todo' = all
  BY DEF rest
<1> HIDE DEF all
<1>7. \A i \in 1 .. Len(new) : i \in DOMAIN all /\ all[i] = new[i]
  BY <1>5
<1>8. ASSUME NEW i \in 1 .. Len(rest) PROVE \E j \in DOMAIN all : all[j] = rest[i]
  <2> DEFINE j == Len(new) + i
  <2>1. j \in 1 .. Len(new) + Len(rest) /\ ~(j <= Len(new)) /\ j - Len(new) = i
    BY <1>5
  <2> HIDE DEF j
  <2> QED BY <1>5, <2>1
<1>9. ASSUME added = 0, NEW p \in LocalPaths \ {<< >>}, disk[p] # None
      PROVE  Put(p)' \/ Awaited(all, p)
  <2>1. CASE Put(p)
    BY <1>1, <2>1
  <2>2. CASE Awaited(todo, p)
    <3>1. PICK i \in 1 .. Len(todo), k \in 0 .. Len(p) : SubSeq(p, 1, k) = todo[i].path
      BY <1>4, <2>2 DEF Awaited
    <3>2. CASE i = 1
      <4>1. Put(p)' \/ Awaited(new, p)
        BY <1>4, <1>9, <3>1, <3>2
      <4>2. Awaited(new, p) => Awaited(all, p)
        BY <1>5, <1>7 DEF Awaited
      <4> QED BY <4>1, <4>2
    <3>3. CASE i # 1
      <4>1. i - 1 \in 1 .. Len(rest) /\ rest[i - 1] = todo[i]
        <5> DEFINE j == i - 1
        <5>1. j \in 1 .. Len(rest) /\ j + 1 = i
          BY <1>4, <3>3
        <5> HIDE DEF j
        <5>2. rest[j] = todo[i]
          BY <1>4, <5>1
        <5> QED BY <5>1, <5>2 DEF j
      <4>2. PICK j \in DOMAIN all : all[j] = todo[i]
        BY <1>8, <4>1
      <4> QED BY <3>1, <4>2 DEF Awaited
    <3> QED BY <3>2, <3>3
  <2> QED BY <1>9, <2>1, <2>2 DEF UpWalk
<1>10. todo' \in Seq(GoodUps')
  BY <1>5, <1>6
<1>11. \A p : Awaited(all, p) <=> Awaited(todo, p)'
  BY <1>6 DEF Awaited
<1> QED BY <1>2, <1>9, <1>10, <1>11 DEF UpWalk

-----------------------------------------------------------------------------
(* The steps of an upload.                                                  *)

\* The session's list as a step of an upload leaves it.
ListKept ==
    /\ RemoteIs' /\ Range(fs) \subseteq Range(fs')
    /\ \A q \in LocalPaths : There(q) => There(q)' /\ (FileAt(q)' <=> FileAt(q))
    /\ AddedApart => AddedApart'

LEMMA SameList ==
  ASSUME RemoteIs, fs' = fs
  PROVE  ListKept /\ \A q : (There(q)' <=> There(q)) /\ (FileAt(q)' <=> FileAt(q))
<1>1. RemoteIs'
  BY DEF RemoteIs
<1>2. Nodes' = Nodes
  BY DEF Nodes
<1>3. \A q : (There(q)' <=> There(q)) /\ (FileAt(q)' <=> FileAt(q))
  BY <1>2 DEF There, FileAt, IsFile, RPath
<1>4. AddedApart => AddedApart'
  BY <1>2 DEF AddedApart
<1> QED BY <1>1, <1>3, <1>4 DEF ListKept

\* A node is added for a right call whose path leads nowhere.
LEMMA AddForCall ==
  ASSUME UploadAssumption, RemoteIs, NEW t \in GoodUps, t.path # << >>,
         Stat(fs, t.rpath) = None, MayAdd(t.rpath),
         NEW type \in {"dir", "file"}, fs' = Added(t.rpath, type)
  PROVE  ListKept /\ There(t.path)' /\ (FileAt(t.path)' <=> type = "file") /\ Grown(t.path, type)
<1>1. /\ t.path \in LocalPaths /\ t.rpath = RPath(t.path) /\ Over(t.path) = Front(t.path)
      /\ Front(t.path) \in LocalPaths /\ There(Front(t.path)) /\ ~FileAt(Front(t.path))
  BY DEF GoodUps, UpTypes, Over
<1> DEFINE p == t.path
<1>2. /\ p \in LocalPaths /\ p # << >> /\ Front(p) \in LocalPaths /\ There(Front(p))
      /\ ~FileAt(Front(p)) /\ ~There(p) /\ MayAdd(RPath(p)) /\ fs' = Added(RPath(p), type)
  BY <1>1 DEF There
<1> HIDE DEF p
<1>3. Grown(p, type)
  BY <1>2, AddedIs
<1> QED BY <1>3 DEF Grown, ListKept, p

\* The directory is remote when its entries are looked at.
LEMMA MakeRemoteMakes ==
  ASSUME UploadAssumption, RemoteIs, ~dry, NEW t \in GoodUps, MakeRemote(t)
  PROVE  ListKept /\ There(t.path)' /\ ~FileAt(t.path)'
<1> DEFINE n == Stat(fs, t.rpath)
<1>1. /\ t.path = << >> \/ ~IsFile(n)
      /\ t.path # << >> /\ n = None => MayAdd(t.rpath) /\ fs' = Added(t.rpath, "dir")
      /\ ~(t.path # << >> /\ n = None) => fs' = fs
  BY DEF MakeRemote
<1>2. t.path \in LocalPaths /\ t.rpath = RPath(t.path) /\ There(Over(t.path)) /\ ~FileAt(Over(t.path))
  BY DEF GoodUps, UpTypes
<1>3. CASE t.path # << >> /\ n = None
  <2>1. "dir" # "file"
    OBVIOUS
  <2> QED BY <1>1, <1>3, <2>1, AddForCall
<1>4. CASE t.path = << >>
  <2>1. There(t.path) /\ ~FileAt(t.path)
    BY <1>2, <1>4 DEF Over
  <2> QED BY <1>1, <1>4, <2>1, SameList
<1>5. CASE t.path # << >> /\ n # None
  <2>1. There(t.path) /\ ~FileAt(t.path)
    BY <1>1, <1>2, <1>5 DEF There, FileAt
  <2> QED BY <1>1, <1>5, <2>1, SameList
<1> QED BY <1>3, <1>4, <1>5

\* What is below a directory is an entry of it or below one.
LEMMA NextBelow ==
  ASSUME UploadAssumption, IsTree(disk), NEW p \in LocalPaths, disk[p] # None,
         NEW k \in 0 .. Len(p), NEW path, SubSeq(p, 1, k) = path
  PROVE  p = path \/ \E q \in Entries(path) : \E j \in 0 .. Len(p) : SubSeq(p, 1, j) = q /\ j = k + 1
<1>1. p \in Seq(LocalNames) /\ Len(p) \in Nat /\ None # "dir"
  BY DEF UploadAssumption, DownSyncAssumption
<1>2. CASE k = Len(p)
  <2>1. SubSeq(p, 1, Len(p)) = p
    BY <1>1
  <2> QED BY <1>2, <2>1
<1>3. CASE k # Len(p)
  <2> DEFINE j == k + 1
             q == SubSeq(p, 1, j)
  <2>1. j \in 1 .. Len(p) /\ k \in Nat /\ j = k + 1
    BY <1>1, <1>3
  <2> HIDE DEF j
  <2>2. q \in Seq(LocalNames) /\ Len(q) = j /\ \A i \in 1 .. j : q[i] = p[i]
    BY <1>1, <2>1
  <2>3. q # << >> /\ Front(q) = path
    <3>1. Front(q) = SubSeq(q, 1, k)
      BY <2>1, <2>2 DEF Front
    <3>2. SubSeq(q, 1, k) = SubSeq(p, 1, k)
      BY <1>1, <2>1
    <3>3. Len(<< >>) = 0 /\ j # 0
      BY <2>1
    <3>4. q # << >>
      BY <2>2, <3>3, Zenon
    <3> QED BY <3>1, <3>2, <3>4
  <2>4. q \in LocalPaths /\ disk[q] # None
    <3>1. CASE j = Len(p)
      <4>1. q = p
        BY <1>1, <3>1
      <4> QED BY <4>1
    <3>2. CASE j # Len(p)
      <4>1. j \in 0 .. Len(p) - 1
        BY <1>1, <2>1, <3>2
      <4>2. q \in LocalPaths /\ disk[q] = "dir"
        BY <4>1 DEF IsTree
      <4> QED BY <1>1, <4>2
    <3> QED BY <3>1, <3>2
  <2>5. q \in Entries(path)
    BY <2>3, <2>4 DEF Entries
  <2>6. j \in 0 .. Len(p)
    BY <1>1, <2>1
  <2> QED BY <2>1, <2>5, <2>6
<1> QED BY <1>2, <1>3

\* What a list of calls for all the entries of a directory stands for.
LEMMA EntriesStand ==
  ASSUME UploadAssumption, added = 0 => IsTree(disk), NEW t \in GoodUps, disk[t.path] = "dir",
         disk' = disk, There(t.path)', ~FileAt(t.path)', NEW tasks \in UpTasks(t)
  PROVE  added = 0 => \A p \in LocalPaths \ {<< >>} :
            disk[p] # None /\ (\E k \in 0 .. Len(p) : SubSeq(p, 1, k) = t.path) =>
                Put(p)' \/ Awaited(tasks, p)
<1> SUFFICES ASSUME added = 0, NEW p \in LocalPaths \ {<< >>}, disk[p] # None,
                    NEW k \in 0 .. Len(p), SubSeq(p, 1, k) = t.path
             PROVE  Put(p)' \/ Awaited(tasks, p)
  OBVIOUS
<1>1. \A q \in Entries(t.path) : \E i \in DOMAIN tasks : tasks[i].path = q
  BY UpTasksGood
<1>2. p = t.path \/ \E q \in Entries(t.path) : \E j \in 0 .. Len(p) : SubSeq(p, 1, j) = q
  BY NextBelow
<1>3. CASE p = t.path
  <2>1. disk'[p] # User
    BY <1>3 DEF UploadAssumption
  <2> QED BY <1>3, <2>1 DEF Put
<1>4. CASE \E q \in Entries(t.path) : \E j \in 0 .. Len(p) : SubSeq(p, 1, j) = q
  <2>1. PICK q \in Entries(t.path), j \in 0 .. Len(p) : SubSeq(p, 1, j) = q
    BY <1>4
  <2>2. PICK i \in DOMAIN tasks : tasks[i].path = q
    BY <1>1, <2>1
  <2> QED BY <2>1, <2>2 DEF Awaited
<1> QED BY <1>2, <1>3, <1>4

\* The steps of an upload, and what one of them keeps of its walk.
UpAny == UpDir \/ UpDirFails \/ UpDirCut \/ UpRefuse \/ UpSkip \/ UpFile \/ UpFileFails

LEMMA UpAnyKeeps ==
  ASSUME UpAny, ListKept
  PROVE  UpKept
<1>1. disk' = disk /\ added' = added
  BY DEF UpAny, UpDir, UpDirFails, UpDirCut, UpRefuse, Refuse, UpSkip, UpFile, UpFileFails
<1>2. failed \subseteq failed' /\ cut \subseteq cut' /\ skipped \subseteq skipped'
  BY DEF UpAny, UpDir, UpDirFails, UpDirCut, UpRefuse, Refuse, UpSkip, UpFile, UpFileFails
<1> QED BY <1>1, <1>2 DEF UpKept, ListKept

\* The call at hand is right.
LEMMA TurnIs ==
  ASSUME UpWalk, todo # << >>
  PROVE  Head(todo) \in GoodUps /\ Tail(todo) \in Seq(GoodUps)
<1> DEFINE G == GoodUps
<1>1. todo \in Seq(G) /\ todo # << >>
  BY DEF UpWalk
<1> HIDE DEF G
<1>2. Head(todo) \in G /\ Tail(todo) \in Seq(G)
  BY <1>1, HeadTailProperties
<1> QED BY <1>2 DEF G

\* A call ends without another: its path was put or skipped, or it failed or was
\* cut off.
LEMMA UpEnds ==
  ASSUME UploadAssumption, UpWalk, UpKept, todo # << >>, todo' = Tail(todo),
         NEW t, t = Head(todo),
         \/ t.path \in failed' \cup cut' \/ None \in failed'
         \/ /\ \/ There(t.path)' /\ FileAt(t.path)' /\ disk[t.path] = User
               \/ disk[t.path] = "other" /\ <<t.path, RelativePath(Front(t.path))>> \in skipped'
            /\ added = 0 => IsTree(disk)
  PROVE  UpWalk'
<1> DEFINE G == GoodUps'
<1>1. todo' = << >> \o Tail(todo) /\ << >> \in Seq(G)
  <2> DEFINE H == GoodUps
             rest == Tail(todo)
  <2>1. rest \in Seq(H)
    BY TurnIs
  <2> HIDE DEF H, rest, G
  <2>2. << >> \o rest = rest /\ << >> \in Seq(G)
    BY <2>1, ConcatEmptySeq
  <2> QED BY <2>2 DEF rest
<1>2. ASSUME added = 0, NEW p \in LocalPaths \ {<< >>}, disk[p] # None,
             NEW k \in 0 .. Len(p), SubSeq(p, 1, k) = t.path
      PROVE  Put(p)'
  <2>1. CASE t.path \in failed' \cup cut' \/ None \in failed'
    BY <1>2, <2>1 DEF Put
  <2>2. CASE ~(t.path \in failed' \cup cut' \/ None \in failed')
    <3>1. /\ \/ There(t.path)' /\ FileAt(t.path)' /\ disk[t.path] = User
             \/ disk[t.path] = "other" /\ <<t.path, RelativePath(Front(t.path))>> \in skipped'
          /\ IsTree(disk)
      BY <1>2, <2>2
    <3>2. p = t.path \/ \E q \in Entries(t.path) : \E j \in 0 .. Len(p) : SubSeq(p, 1, j) = q
      BY <1>2, <3>1, NextBelow
    <3>3. CASE p = t.path
      <4>1. disk' = disk /\ User # "other"
        BY DEF UpKept, UploadAssumption
      <4>2. CASE There(p)' /\ FileAt(p)' /\ disk[p] = User
        BY <4>1, <4>2 DEF Put
      <4>3. CASE disk[p] = "other" /\ <<p, RelativePath(Front(p))>> \in skipped'
        <5>1. disk'[p] = "other"
          BY <4>1, <4>3
        <5> QED BY <4>3, <5>1 DEF Put, RelativePath
      <4> QED BY <3>1, <3>3, <4>2, <4>3
    <3>4. ASSUME NEW q \in Entries(t.path) PROVE FALSE
      <4>1. q \in LocalPaths /\ q # << >> /\ disk[q] # None /\ Front(q) = t.path
        BY DEF Entries
      <4>2. q \in Seq(LocalNames)
        BY <4>1 DEF UploadAssumption
      <4>3. Len(q) - 1 \in 0 .. Len(q) - 1 /\ SubSeq(q, 1, Len(q) - 1) = t.path
        <5>1. Len(q) \in Nat \ {0}
          BY <4>1, <4>2
        <5> QED BY <4>1, <5>1 DEF Front
      <4>4. disk[t.path] = "dir"
        BY <3>1, <4>1, <4>3 DEF IsTree
      <4> QED BY <3>1, <4>4 DEF UploadAssumption
    <3> QED BY <3>2, <3>3, <3>4
  <2> QED BY <2>1, <2>2
<1> HIDE DEF G
<1>3. added = 0 => \A p \in LocalPaths \ {<< >>} :
          disk[p] # None /\ (\E k \in 0 .. Len(p) : SubSeq(p, 1, k) = Head(todo).path) =>
              Put(p)' \/ Awaited(<< >>, p)
  BY <1>2
<1> QED BY <1>1, <1>3, UpStep DEF G

\* Every step keeps the session's list, and the walk of a run that is not dry.
LEMMA UpAnyLists ==
  ASSUME UploadAssumption, RemoteIs, ~dry => UpWalk, UpAny
  PROVE  ListKept
<1>1. CASE dry
  <2>1. fs' = fs
    BY <1>1 DEF UpAny, UpDir, MakeRemote, UpDirFails, UpDirCut, UpRefuse, UpSkip, UpFile, UpFileFails
  <2> QED BY <2>1, SameList
<1>2. CASE ~dry
  <2> DEFINE t == Head(todo)
  <2>1. todo # << >>
    BY DEF UpAny, UpDir, UpDirFails, UpDirCut, UpRefuse, UpSkip, UpFile, UpFileFails, UpTurn
  <2>2. t \in GoodUps
    BY <1>2, <2>1, TurnIs
  <2>3. CASE UpDir \/ UpDirCut
    <3>1. MakeRemote(t)
      BY <2>3 DEF UpDir, UpDirCut
    <3> QED BY <1>2, <2>2, <3>1, MakeRemoteMakes
  <2>4. CASE UpDirFails
    <3>1. \/ fs' = fs
          \/ /\ t.path # << >> /\ Stat(fs, t.rpath) = None /\ MayAdd(t.rpath)
             /\ fs' = Added(t.rpath, "dir")
      BY <2>4 DEF UpDirFails
    <3> QED BY <2>2, <3>1, SameList, AddForCall
  <2>5. CASE UpRefuse \/ UpSkip \/ UpFileFails
    BY <2>5, SameList DEF UpRefuse, UpSkip, UpFileFails
  <2>6. CASE UpFile
    <3>1. Stat(fs, t.rpath) = None /\ MayAdd(t.rpath) /\ fs' = Added(t.rpath, "file")
      BY <1>2, <2>6 DEF UpFile
    <3>2. t.path # << >>
      <4>1. t.rpath = RPath(t.path) /\ There(Over(t.path))
        BY <2>2 DEF GoodUps
      <4> QED BY <3>1, <4>1 DEF Over, There
    <3> QED BY <2>2, <3>1, <3>2, AddForCall
  <2> QED BY <2>3, <2>4, <2>5, <2>6 DEF UpAny
<1> QED BY <1>1, <1>2

\* The walk is right after every step of a run that is not dry.
LEMMA UpAnyWalks ==
  ASSUME UploadAssumption, RemoteIs, ~dry, UpWalk, added = 0 => IsTree(disk), UpAny
  PROVE  UpWalk'
<1> SUFFICES ASSUME NEW t, t = Head(todo) PROVE UpWalk'
  OBVIOUS
<1> DEFINE G == GoodUps'
<1>1. ListKept /\ UpKept
  BY UpAnyLists, UpAnyKeeps
<1>2. todo # << >> /\ t \in GoodUps
  <2>1. todo # << >>
    BY DEF UpAny, UpDir, UpDirFails, UpDirCut, UpRefuse, UpSkip, UpFile, UpFileFails, UpTurn
  <2> QED BY <2>1, TurnIs
<1>3. CASE UpDir
  <2>1. disk[t.path] = "dir" /\ MakeRemote(t) /\ disk' = disk
    BY <1>3 DEF UpDir
  <2>2. PICK tasks \in UpTasks(t) : todo' = tasks \o Tail(todo)
    BY <1>3 DEF UpDir
  <2>3. There(t.path)' /\ ~FileAt(t.path)'
    BY <1>2, <2>1, MakeRemoteMakes
  <2>4. tasks \in Seq(G)
    BY <1>2, <2>3, UpTasksGood
  <2>5. added = 0 => \A p \in LocalPaths \ {<< >>} :
            disk[p] # None /\ (\E k \in 0 .. Len(p) : SubSeq(p, 1, k) = t.path) =>
                Put(p)' \/ Awaited(tasks, p)
    BY <1>2, <2>1, <2>3, EntriesStand
  <2> HIDE DEF G
  <2>6. G = GoodUps'
    BY DEF G
  <2> QED BY <1>1, <1>2, <2>2, <2>4, <2>5, <2>6, UpStep
<1>4. CASE UpDirCut
  <2>1. disk[t.path] = "dir" /\ MakeRemote(t) /\ cut' = cut \cup {t.path}
    BY <1>4 DEF UpDirCut
  <2>2. PICK tasks \in UpTasks(t) : \E k \in 0 .. Len(tasks) - 1 :
           todo' = SubSeq(tasks, 1, k) \o Tail(todo)
    BY <1>4 DEF UpDirCut
  <2>3. There(t.path)' /\ ~FileAt(t.path)'
    BY <1>2, <2>1, MakeRemoteMakes
  <2>4. tasks \in Seq(G) /\ Len(tasks) \in Nat
    BY <1>2, <2>3, UpTasksGood
  <2> HIDE DEF G
  <2>5. PICK k \in 0 .. Len(tasks) - 1 : todo' = SubSeq(tasks, 1, k) \o Tail(todo)
    BY <2>2
  <2> DEFINE new == SubSeq(tasks, 1, k)
  <2>6. new \in Seq(G)
    BY <2>4
  <2>7. \A p \in LocalPaths \ {<< >>} :
            (\E j \in 0 .. Len(p) : SubSeq(p, 1, j) = t.path) => Put(p)' \/ Awaited(new, p)
    BY <2>1 DEF Put
  <2>8. G = GoodUps'
    BY DEF G
  <2>9. todo' = new \o Tail(todo)
    BY <2>5
  <2> HIDE DEF new
  <2>10. added = 0 => \A p \in LocalPaths \ {<< >>} :
            disk[p] # None /\ (\E j \in 0 .. Len(p) : SubSeq(p, 1, j) = t.path) =>
                Put(p)' \/ Awaited(new, p)
    BY <2>7
  <2> QED BY <1>1, <1>2, <2>6, <2>8, <2>9, <2>10, UpStep
<1>5. CASE UpDirFails \/ UpRefuse \/ UpFileFails
  <2>1. /\ failed' = failed \cup {t.path} \/ failed' = failed \cup {RelativePath(t.path)}
        /\ todo' = Tail(todo)
    BY <1>5 DEF UpDirFails, UpRefuse, Refuse, UpFileFails
  <2>2. t.path \in failed' \/ None \in failed'
    BY <2>1 DEF RelativePath
  <2> QED BY <1>1, <1>2, <2>1, <2>2, UpEnds
<1>7. CASE UpSkip
  <2>1. /\ disk[t.path] = "other" /\ skipped' = skipped \cup {<<t.path, RelativePath(Front(t.path))>>}
        /\ todo' = Tail(todo)
    BY <1>7 DEF UpSkip
  <2> QED BY <1>1, <1>2, <2>1, UpEnds
<1>6. CASE UpFile
  <2>1. /\ Stat(fs, t.rpath) = None /\ MayAdd(t.rpath) /\ fs' = Added(t.rpath, "file")
        /\ disk[t.path] = User /\ todo' = Tail(todo)
    BY <1>6 DEF UpFile
  <2>2. t.path # << >>
    <3>1. t.rpath = RPath(t.path) /\ There(Over(t.path))
      BY <1>2 DEF GoodUps
    <3> QED BY <2>1, <3>1 DEF Over, There
  <2>3. There(t.path)' /\ FileAt(t.path)'
    BY <1>2, <2>1, <2>2, AddForCall
  <2> QED BY <1>1, <1>2, <2>1, <2>3, UpEnds
<1> QED BY <1>3, <1>4, <1>5, <1>6, <1>7 DEF UpAny

\* The inductive invariant of an upload: the list is a forest in which what was
\* added is apart; what is on the disk is a tree until the user adds to it; and
\* while the tool runs for real the walk is right.
Uploads == ~download /\ ~dry /\ (pc = "copy" \/ (pc = "done" /\ exit = 0))
UpInv ==
    /\ RemoteIs /\ AddedApart
    /\ added \in Nat /\ (~download /\ added = 0 => IsTree(disk))
    /\ Uploads => UpWalk
    /\ pc = "done" /\ exit = 0 => todo = << >>

LEMMA UpInvInit ==
  ASSUME UploadAssumption
  PROVE  Init => UpInv
<1> SUFFICES ASSUME Init PROVE UpInv
  OBVIOUS
<1>1. PICK side \in Sides, dryRun \in BOOLEAN : InitFrom(side, dryRun)
  BY DEF Init
<1>2. fs = side.remote /\ disk = side.local /\ download = side.download /\ added = 0 /\ pc = "start"
  BY <1>1 DEF InitFrom
<1>3. /\ fs \in Seq(Range(fs)) /\ Forest(fs) /\ \A n \in Range(fs) : n.h \notin NewHandles
      /\ ~download => IsTree(disk)
  BY <1>2 DEF UploadAssumption
<1>4. Handles(fs) \subseteq AllHandles
  BY <1>2 DEF AllHandles, Handles
<1>5. Symbols(fs) \subseteq AllSymbols
  BY <1>2, SymbolsAre
<1>6. RemoteIs
  BY <1>3, <1>4, <1>5 DEF RemoteIs
<1>7. AddedApart
  <2>1. Nodes = Range(fs)
    BY NodesAre DEF Nodes, Range
  <2> QED BY <1>3, <2>1 DEF AddedApart
<1> QED BY <1>2, <1>3, <1>6, <1>7 DEF UpInv, Uploads

LEMMA UpInvStep ==
  ASSUME UploadAssumption, UpInv, [Next]_vars
  PROVE  UpInv'
<1> USE DEF Uploads
<1>1. /\ RemoteIs /\ AddedApart /\ added \in Nat /\ (~download /\ added = 0 => IsTree(disk))
      /\ Uploads => UpWalk
      /\ pc = "done" /\ exit = 0 => todo = << >>
  BY DEF UpInv
<1>2. ASSUME fs' = fs PROVE RemoteIs' /\ AddedApart' /\ GoodUps' = GoodUps
  <2>1. /\ ListKept
        /\ \A q : (There(q)' <=> There(q)) /\ (FileAt(q)' <=> FileAt(q))
    BY <1>1, <1>2, SameList
  <2>2. UpTypes' = UpTypes
    BY <1>2 DEF UpTypes
  <2>3. GoodUps' = GoodUps
    BY <2>1, <2>2 DEF GoodUps, RPath
  <2> QED BY <1>1, <2>1, <2>3 DEF ListKept
<1>3. ASSUME fs' = fs, disk' = disk, download' = download, added' = added
      PROVE  added' \in Nat /\ (~download /\ added = 0 => IsTree(disk))'
  BY <1>1, <1>3 DEF IsTree
<1>4. ASSUME fs' = fs, disk' = disk, added' = added, todo' = todo, failed' = failed, cut' = cut, skipped' = skipped, UpWalk
      PROVE  UpWalk'
  <2>1. \A q : (There(q)' <=> There(q)) /\ (FileAt(q)' <=> FileAt(q))
    BY <1>1, <1>4, SameList
  <2>2. \A p : Put(p)' <=> Put(p)
    BY <1>4, <2>1 DEF Put
  <2>3. \A p : Awaited(todo, p)' <=> Awaited(todo, p)
    BY <1>4 DEF Awaited
  <2> QED BY <1>2, <1>4, <2>2, <2>3 DEF UpWalk
<1>5. CASE UNCHANGED vars
  BY <1>1, <1>2, <1>3, <1>4, <1>5 DEF vars, UpInv
<1>6. CASE Start
  <2> DEFINE n == Stat(fs, RemotePath)
             t == Task(n, << >>, RemotePath)
  <2>1. /\ fs' = fs /\ disk' = disk /\ added' = added /\ download' = download /\ pc' = "copy"
        /\ n # None /\ ~IsFile(n) /\ todo' = <<t>>
    BY <1>6 DEF Start
  <2>2. << >> \in LocalPaths /\ RPath(<< >>) = RemotePath /\ RPath(<< >>) \in Seq(AllSymbols)
    BY RPathIs DEF UploadAssumption, DownSyncAssumption
  <2>3. There(<< >>) /\ ~FileAt(<< >>)
    BY <2>1, <2>2 DEF There, FileAt
  <2>4. n \in Range(fs)
    BY <1>1, <2>2, <2>3, ThereIs
  <2>5. t \in GoodUps
    <3>1. t = [node |-> n, path |-> << >>, rpath |-> RemotePath]
      BY DEF Task
    <3> HIDE DEF n, t
    <3>2. t.path = << >> /\ t.rpath = RPath(<< >>) /\ t \in UpTypes
      BY <2>2, <2>4, <3>1 DEF UpTypes
    <3>3. Over(t.path) = << >>
      BY <3>2 DEF Over
    <3> QED BY <2>2, <2>3, <3>2, <3>3 DEF GoodUps
  <2>6. UpWalk'
    <3>1. t.path = << >>
      BY DEF Task
    <3> DEFINE G == GoodUps
    <3>2. t \in G /\ todo' = <<t>>
      BY <2>1, <2>5
    <3> HIDE DEF t, G
    <3>3. todo' \in Seq(G)
      BY <3>2
    <3>4. ASSUME NEW p \in LocalPaths PROVE Awaited(todo, p)'
      <4>1. p \in Seq(LocalNames)
        BY DEF UploadAssumption
      <4>2. SubSeq(p, 1, 0) = << >> /\ 0 \in 0 .. Len(p)
        BY <4>1
      <4>3. 1 \in DOMAIN todo' /\ todo'[1] = t
        BY <3>2
      <4> QED BY <3>1, <4>2, <4>3 DEF Awaited
    <3> QED BY <1>2, <2>1, <3>3, <3>4 DEF UpWalk, G
  <2> QED BY <1>2, <1>3, <2>1, <2>6 DEF UpInv
<1>7. CASE StartFails \/ Again
  <2>1. /\ fs' = fs /\ disk' = disk /\ added' = added /\ download' = download
        /\ (pc' = "done" /\ exit' = 1) \/ pc' = "again"
    BY <1>7 DEF StartFails, Again
  <2> QED BY <1>2, <1>3, <2>1 DEF UpInv
<1>8. CASE End
  <2>1. /\ fs' = fs /\ disk' = disk /\ added' = added /\ todo' = todo /\ failed' = failed /\ cut' = cut /\ skipped' = skipped
        /\ download' = download /\ dry' = dry /\ pc = "copy" /\ todo = << >>
    BY <1>8 DEF End
  <2> QED BY <1>1, <1>2, <1>3, <1>4, <2>1 DEF UpInv
<1>9. CASE UpAny
  <2>1. /\ disk' = disk /\ added' = added /\ download' = download /\ dry' = dry
        /\ pc = "copy" /\ pc' = "copy" /\ ~download
    BY <1>9 DEF UpAny, UpDir, UpDirFails, UpDirCut, UpRefuse, Refuse, UpSkip, UpFile, UpFileFails, UpTurn
  <2>2. ListKept
    BY <1>1, <1>9, <2>1, UpAnyLists
  <2>3. ~dry => UpWalk'
    BY <1>1, <1>9, <2>1, UpAnyWalks
  <2>4. added' \in Nat /\ (~download /\ added = 0 => IsTree(disk))'
    BY <1>1, <2>1 DEF IsTree
  <2> QED BY <1>1, <2>1, <2>2, <2>3, <2>4 DEF UpInv, ListKept
<1>10. CASE Down
  <2>1. download /\ download' = download /\ DownStep /\ pc = "copy" /\ pc' = pc
    BY <1>10 DEF Down
  <2>2. fs' = fs /\ added' = added
    BY <2>1, DownStepLeaves
  <2> QED BY <1>1, <1>2, <2>1, <2>2 DEF UpInv
<1>11. CASE UserWrites
  <2>1. /\ fs' = fs /\ added' = added + 1 /\ todo' = todo /\ failed' = failed /\ cut' = cut /\ skipped' = skipped
        /\ download' = download /\ dry' = dry /\ pc' = pc /\ exit' = exit
    BY <1>11 DEF UserWrites, UserAdds
  <2>2. added' \in Nat /\ added' # 0
    BY <1>1, <2>1
  <2>3. UpWalk => UpWalk'
    BY <1>2, <2>1, <2>2 DEF UpWalk
  <2> QED BY <1>1, <1>2, <2>1, <2>2, <2>3 DEF UpInv
<1> QED BY <1>5, <1>6, <1>7, <1>8, <1>9, <1>10, <1>11 DEF Next, UpAny

\* The inductive invariant of an upload.
THEOREM UpInvariant ==
  ASSUME UploadAssumption
  PROVE  Spec => []UpInv
<1>1. Init => UpInv
  BY UpInvInit
<1>2. UpInv /\ [Next]_vars => UpInv'
  BY UpInvStep
<1> QED BY <1>1, <1>2, PTL DEF Spec

\* An upload ends with every local file and directory remote and every special
\* file skipped with a line that names its directory if that has a name, or with
\* an error for it or for a directory above it or one that names nothing, unless
\* the reading of a directory was cut off; and nothing it adds has the path of
\* another node.
THEOREM UploadIsAccounted ==
  ASSUME UploadAssumption
  PROVE  Spec => []UploadAccounted
<1>1. UpInv => UploadAccounted
  <2> SUFFICES ASSUME UpInv, pc = "done", exit = 0, ~download, ~dry, added = 0,
                      NEW p \in LocalPaths, disk[p] # None, p # << >>
               PROVE  LET n == Stat(fs, RemotePath \o TextOf(p))
                      IN \/ IF disk[p] = "other" THEN <<p, RelativePath(Front(p))>> \in skipped
                            ELSE n # None /\ (IsFile(n) <=> disk[p] = User)
                         \/ \E k \in 0 .. Len(p) : SubSeq(p, 1, k) \in failed \cup cut
                         \/ None \in failed
    BY DEF UploadAccounted, UploadReported, UpInv
  <2>1. UpWalk /\ todo = << >>
    BY DEF UpInv, Uploads
  <2>2. Put(p) \/ Awaited(todo, p)
    BY <2>1 DEF UpWalk
  <2>3. ~Awaited(todo, p)
    BY <2>1 DEF Awaited
  <2> QED BY <2>2, <2>3 DEF Put, There, FileAt, RPath
<1>2. Spec => []UpInv
  BY UpInvariant
<1> QED BY <1>1, <1>2, PTL

-----------------------------------------------------------------------------
(* A dry run and the run that follows it.  Both say lines, and what is still *)
(* to be said can be told from the calls still to be made: said and these    *)
(* lines together stay what they were when the run began.                    *)

\* The calls after the first one was replaced by others.
LEMMA CallsAre ==
  ASSUME NEW G, NEW s \in Seq(G), s # << >>, NEW new \in Seq(G)
  PROVE  LET all == new \o Tail(s)
         IN /\ all \in Seq(G) /\ Head(s) \in G /\ Head(s) \in Range(s)
            /\ Range(s) \subseteq {Head(s)} \cup Range(all)
            /\ Range(new) \subseteq Range(all)
            /\ Range(all) \subseteq Range(new) \cup Range(s)
<1> DEFINE rest == Tail(s)
           all == new \o rest
<1>1. Head(s) = s[1] /\ DOMAIN s = 1 .. Len(s) /\ Len(s) \in Nat \ {0}
  OBVIOUS
<1>2. /\ Head(s) \in G /\ rest \in Seq(G) /\ Len(rest) = Len(s) - 1
      /\ \A i \in 1 .. Len(rest) : rest[i] = s[i + 1]
  BY HeadTailProperties
<1> HIDE DEF rest
<1>3. /\ all \in Seq(G) /\ Len(all) = Len(new) + Len(rest)
      /\ \A i \in 1 .. Len(new) + Len(rest) : all[i] = IF i <= Len(new) THEN new[i] ELSE rest[i - Len(new)]
  BY <1>2, ConcatProperties
<1>4. Len(new) \in Nat /\ Len(rest) \in Nat /\ DOMAIN new = 1 .. Len(new) /\ DOMAIN rest = 1 .. Len(rest)
  BY <1>2
<1> HIDE DEF all
<1>5. DOMAIN all = 1 .. Len(new) + Len(rest)
  <2>1. DOMAIN all = 1 .. Len(all)
    BY <1>3
  <2> QED BY <1>3, <2>1
<1>6. Range(new) \subseteq Range(all)
  <2>1. \A i \in 1 .. Len(new) : i \in DOMAIN all /\ all[i] = new[i]
    BY <1>3, <1>4, <1>5
  <2> QED BY <1>4, <2>1 DEF Range
<1>7. Range(rest) \subseteq Range(all)
  <2>1. ASSUME NEW i \in 1 .. Len(rest) PROVE \E j \in DOMAIN all : all[j] = rest[i]
    <3> DEFINE j == Len(new) + i
    <3>1. j \in 1 .. Len(new) + Len(rest) /\ ~(j <= Len(new)) /\ j - Len(new) = i
      BY <1>4
    <3> HIDE DEF j
    <3> QED BY <1>3, <1>5, <3>1
  <2> QED BY <1>4, <2>1 DEF Range
<1>8. Range(s) \subseteq {Head(s)} \cup Range(rest)
  <2>1. ASSUME NEW i \in 1 .. Len(s), i # 1 PROVE \E j \in DOMAIN rest : rest[j] = s[i]
    <3> DEFINE j == i - 1
    <3>1. j \in 1 .. Len(rest) /\ j + 1 = i
      BY <1>1, <1>2, <2>1
    <3> HIDE DEF j
    <3> QED BY <1>2, <1>4, <3>1
  <2> QED BY <1>1, <2>1 DEF Range
<1>9. Range(rest) \subseteq Range(s)
  <2>1. ASSUME NEW i \in 1 .. Len(rest) PROVE i + 1 \in DOMAIN s /\ rest[i] = s[i + 1]
    BY <1>1, <1>2
  <2> QED BY <1>4, <2>1 DEF Range
<1>10. Range(all) \subseteq Range(new) \cup Range(rest)
  <2>1. ASSUME NEW j \in DOMAIN all PROVE all[j] \in Range(new) \cup Range(rest)
    <3>1. CASE j <= Len(new)
      <4>1. j \in DOMAIN new /\ all[j] = new[j]
        BY <1>3, <1>4, <1>5, <3>1
      <4> QED BY <4>1 DEF Range
    <3>2. CASE ~(j <= Len(new))
      <4> DEFINE i == j - Len(new)
      <4>1. i \in DOMAIN rest /\ all[j] = rest[i]
        BY <1>3, <1>4, <1>5, <3>2
      <4> HIDE DEF i
      <4> QED BY <4>1 DEF Range
    <3> QED BY <3>1, <3>2
  <2> QED BY <2>1 DEF Range
<1>11. Head(s) \in Range(s)
  <2>1. 1 \in DOMAIN s
    BY <1>1
  <2> QED BY <1>1, <2>1 DEF Range
<1> QED BY <1>2, <1>3, <1>6, <1>7, <1>8, <1>9, <1>10, <1>11 DEF all, rest

\* Local paths have remote paths that differ.
LEMMA RPathsDiffer ==
  ASSUME UploadAssumption, RemoteIs, There(<< >>), NEW p \in LocalPaths, NEW q \in LocalPaths,
         Simplify(RPath(p)) = Simplify(RPath(q))
  PROVE  p = q
<1> DEFINE A == AllSymbols
           N == LocalNames
           D == Simplify(RemotePath)
           T == {n \in Nat : \A r \in Seq(N) : Len(r) = n =>
                    Simplify(RemotePath \o TextOf(r)) = D \o TextOf(r)}
<1>1. << >> \in LocalPaths /\ RPath(<< >>) = RemotePath /\ RemotePath \in Seq(A) /\ D \in Seq(A)
  BY RPathIs DEF UploadAssumption, DownSyncAssumption
<1>2. Slash \in A /\ DotDot \in A /\ PathsAssumption /\ N \in SUBSET A
      /\ N \cap {Slash, Dot, DotDot, Empty} = {}
  BY SymbolsAre DEF UploadAssumption
<1>3. Len(D) > 1
  <2> DEFINE d == Stat(fs, RPath(<< >>))
  <2>1. d.h \in Handles(fs) /\ TextOf(NamesOf(fs, d.h)) = D
    BY <1>1, ThereIs
  <2>2. Forest(fs) /\ Len(TextOf(NamesOf(fs, d.h))) > 1
    BY <1>2, <2>1, PathTyped DEF RemoteIs
  <2> HIDE DEF d, D
  <2> QED BY <2>1, <2>2
<1>4. p \in Seq(N) /\ q \in Seq(N)
  BY DEF UploadAssumption
<1> HIDE DEF A, N, D
<1>5. TextOf(<< >>) = << >> /\ \A r \in Seq(N) : r \in Seq(A) /\ TextOf(r) \in Seq(A)
  BY <1>2, TextAppend
<1>6. 0 \in T
  <2>1. \A r \in Seq(N) : Len(r) = 0 => r = << >>
    OBVIOUS
  <2>2. RemotePath \o << >> = RemotePath /\ D \o << >> = D
    BY <1>1, ConcatEmptySeq
  <2>3. \A r \in Seq(N) : Len(r) = 0 => Simplify(RemotePath \o TextOf(r)) = D \o TextOf(r)
    BY <1>5, <2>1, <2>2 DEF D
  <2> QED BY <2>3
<1>7. ASSUME NEW n \in T, NEW r \in Seq(N), Len(r) = n + 1
      PROVE  Simplify(RemotePath \o TextOf(r)) = D \o TextOf(r)
  <2> DEFINE x == Last(r)
             o == Front(r)
  <2>1. r # << >>
    <3>1. Len(<< >>) = 0 /\ n + 1 # 0
      BY <1>7
    <3> QED BY <1>7, <3>1, Zenon
  <2>2. x \in N /\ o \in Seq(N) /\ r = Append(o, x)
    BY <2>1, FrontLast
  <2> HIDE DEF x, o
  <2>3. Len(o) = n
    <3>1. Len(Append(o, x)) = Len(o) + 1 /\ Len(o) \in Nat
      BY <2>2
    <3> QED BY <1>7, <2>2, <3>1
  <2>4. Simplify(RemotePath \o TextOf(o)) = D \o TextOf(o)
    BY <1>7, <2>2, <2>3
  <2>5. x \in A \ {Slash, Dot, DotDot, Empty} /\ o \in Seq(A) /\ TextOf(o) \in Seq(A)
    BY <1>2, <1>5, <2>2
  <2>6. TextOf(r) = TextOf(o) \o <<Slash, x>> /\ <<Slash, x>> \in Seq(A)
    <3>1. TextOf(Append(o, x)) = TextOf(o) \o <<Slash, x>>
      BY <1>2, <2>5, TextAppend
    <3> QED BY <1>2, <2>2, <2>5, <3>1
  <2> DEFINE t == TextOf(o)
  <2> HIDE DEF t
  <2>7. t \in Seq(A) /\ t = TextOf(o)
    BY <2>5 DEF t
  <2>8. D \o t # << >> /\ D \o t # <<Slash>>
    <3>1. Len(D \o t) = Len(D) + Len(t) /\ Len(t) \in Nat /\ Len(D) \in Nat
      BY <1>1, <2>7, ConcatProperties
    <3>2. Len(D \o t) > 1
      BY <1>3, <3>1
    <3>3. Len(<< >>) = 0 /\ Len(<<Slash>>) = 1 /\ ~(0 > 1) /\ ~(1 > 1)
      OBVIOUS
    <3> QED BY <3>2, <3>3, Zenon
  <2>9. RemotePath \o t \in Seq(A)
    BY <1>1, <2>7, ConcatProperties
  <2>10. Simplify((RemotePath \o t) \o <<Slash, x>>) = (D \o t) \o <<Slash, x>>
    BY <1>2, <2>4, <2>5, <2>7, <2>8, <2>9, SimplifyChild
  <2>11. /\ (RemotePath \o t) \o <<Slash, x>> = RemotePath \o (t \o <<Slash, x>>)
         /\ (D \o t) \o <<Slash, x>> = D \o (t \o <<Slash, x>>)
    <3> DEFINE u == <<Slash, x>>
    <3>1. u \in Seq(A)
      BY <2>6
    <3> HIDE DEF u
    <3>2. RemotePath \in Seq(A) /\ D \in Seq(A) /\ t \in Seq(A)
      BY <1>1, <2>7
    <3>3. (RemotePath \o t) \o u = RemotePath \o (t \o u)
      BY <3>1, <3>2, ConcatAssociative
    <3>4. (D \o t) \o u = D \o (t \o u)
      BY <3>1, <3>2, ConcatAssociative
    <3> QED BY <3>3, <3>4 DEF u
  <2> QED BY <2>6, <2>7, <2>10, <2>11
<1>8. T = Nat
  <2>1. T \in SUBSET Nat /\ \A n \in T : n + 1 \in T
    <3>1. ASSUME NEW n \in T PROVE n + 1 \in T
      <4>1. n + 1 \in Nat
        OBVIOUS
      <4> QED BY <1>7, <4>1
    <3> QED BY <3>1
  <2> HIDE DEF T
  <2> QED BY <1>6, <2>1, Induct
<1>9. \A r \in Seq(N) : Simplify(RemotePath \o TextOf(r)) = D \o TextOf(r)
  <2>1. \A r \in Seq(N) : Len(r) \in T
    <3>1. \A r \in Seq(N) : Len(r) \in Nat
      OBVIOUS
    <3> QED BY <1>8, <3>1
  <2> QED BY <2>1
<1> HIDE DEF T
<1>10. D \o TextOf(p) = D \o TextOf(q)
  BY <1>4, <1>9 DEF RPath
<1>11. TextOf(p) = TextOf(q)
  <2> DEFINE t == TextOf(p)
             u == TextOf(q)
  <2>1. t \in Seq(A) /\ u \in Seq(A) /\ D \o t = D \o u
    BY <1>4, <1>5, <1>10
  <2> HIDE DEF t, u
  <2>2. t = u
    BY <1>1, <2>1, ConcatSimplifications, Zenon
  <2> QED BY <2>2 DEF t, u
<1> QED BY <1>2, <1>4, <1>5, <1>11, TextInjective

-----------------------------------------------------------------------------
(* What an upload is still to say.                                          *)

\* No file is in the way from the k-th directory of a path to it.
Onward(p, k) == \A j \in k .. Len(p) - 1 : j = 0 \/ ~FileAt(SubSeq(p, 1, j))

\* A call leads to the path.
UpMeets(calls, p) == \E t \in calls : \E k \in 0 .. Len(p) : SubSeq(p, 1, k) = t.path /\ Onward(p, k)

\* There something is said about it: it is not remote yet.
UpSays(p) == p \in LocalPaths /\ p # << >> /\ disk[p] \in {"dir", User} /\ ~There(p)
UpLine(p) == <<IF disk[p] = "dir" THEN "D" ELSE "F", p>>

\* The lines that calls lead to, and those of the whole directory.
UpLines(calls) == {UpLine(p) : p \in {p \in LocalPaths : UpSays(p) /\ UpMeets(calls, p)}}
UpAll == {UpLine(p) : p \in {p \in LocalPaths : UpSays(p) /\ Onward(p, 0)}}

\* What is above something on the disk.
LEMMA AboveIs ==
  ASSUME UploadAssumption, IsTree(disk), NEW p \in LocalPaths, disk[p] # None, NEW j \in 0 .. Len(p)
  PROVE  /\ SubSeq(p, 1, j) \in LocalPaths /\ disk[SubSeq(p, 1, j)] # None
         /\ j # Len(p) => disk[SubSeq(p, 1, j)] = "dir"
         /\ j = Len(p) => SubSeq(p, 1, j) = p
         /\ Len(p) \in Nat /\ Len(SubSeq(p, 1, j)) = j
<1>1. p \in Seq(LocalNames) /\ None # "dir"
  BY DEF UploadAssumption, DownSyncAssumption
<1>2. Len(p) \in Nat /\ j \in Nat /\ Len(SubSeq(p, 1, j)) = j
  BY <1>1
<1>3. CASE j = Len(p)
  <2>1. SubSeq(p, 1, Len(p)) = p
    BY <1>1
  <2> QED BY <1>2, <1>3, <2>1
<1>4. CASE j # Len(p)
  <2>1. j \in 0 .. Len(p) - 1
    BY <1>2, <1>4
  <2>2. SubSeq(p, 1, j) \in LocalPaths /\ disk[SubSeq(p, 1, j)] = "dir"
    BY <2>1 DEF IsTree
  <2> QED BY <1>1, <1>2, <1>4, <2>2
<1> QED BY <1>3, <1>4

\* A path that leads nowhere leads to no file.
LEMMA FileIsThere ==
  ASSUME RemoteIs, NEW p, FileAt(p)
  PROVE  There(p)
<1>1. None \notin Range(fs)
  BY ForestIs DEF RemoteIs
<1>2. None \notin Nodes
  BY <1>1, NodesAre
<1> QED BY <1>2 DEF FileAt, IsFile, There

\* What a step changes for the paths: it is said, unless something fails that no
\* dry run could know of.
UpChange(q) ==
    /\ \A p \in LocalPaths : There(p) => There(p)' /\ (FileAt(p)' <=> FileAt(p))
    /\ \A p \in LocalPaths : p # q => (There(p)' <=> There(p)) /\ (FileAt(p)' <=> FileAt(p))
    /\ There(q)' /\ ~There(q) => UpSays(q) /\ UpLine(q) \in said'
    /\ FileAt(q)' /\ ~FileAt(q) => disk[q] = User

LEMMA UpChanges ==
  ASSUME UploadAssumption, RemoteIs, There(<< >>), ~dry => UpWalk, UpAny, ~broken',
         NEW t \in UpCalls, t = Head(todo), todo # << >>
  PROVE  UpChange(t.path)
<1>1. t.path \in LocalPaths /\ t.rpath = RPath(t.path)
  BY DEF UpCalls, UpTypes
<1>2. CASE fs' = fs
  <2>1. \A q : (There(q)' <=> There(q)) /\ (FileAt(q)' <=> FileAt(q))
    BY <1>2, SameList
  <2> QED BY <2>1 DEF UpChange
<1>3. ASSUME NEW type \in {"dir", "file"}, fs' = Added(t.rpath, type), ~dry,
             t.path # << >>, Stat(fs, t.rpath) = None, MayAdd(t.rpath), type = "file" <=> disk[t.path] = User,
             disk[t.path] \in {"dir", User}, said' = said \cup {UpLine(t.path)}
      PROVE  UpChange(t.path)
  <2>1. t \in GoodUps
    BY <1>3, TurnIs
  <2>2. ListKept /\ There(t.path)' /\ (FileAt(t.path)' <=> type = "file") /\ Grown(t.path, type)
    BY <1>3, <2>1, AddForCall
  <2>3. RemoteIs' /\ \A q \in LocalPaths : There(q) => There(q)' /\ (FileAt(q)' <=> FileAt(q))
    BY <2>2 DEF ListKept
  <2>4. ASSUME NEW q \in LocalPaths, q # t.path, ~There(q)
        PROVE  ~There(q)' /\ ~FileAt(q)' /\ ~FileAt(q)
    <3>1. Simplify(RPath(q)) # Simplify(RPath(t.path))
      BY <1>1, <2>4, RPathsDiffer
    <3>2. ~There(q)'
      BY <2>2, <2>4, <3>1 DEF Grown
    <3>3. \A p : FileAt(p) => There(p)
      BY FileIsThere
    <3>4. None \notin Nodes'
      <4>1. None \notin Range(fs')
        BY <2>3, ForestIs DEF RemoteIs
      <4> QED BY <4>1 DEF Nodes, Range
    <3>5. FileAt(q)' => There(q)'
      BY <3>4 DEF FileAt, IsFile, There
    <3> QED BY <2>4, <3>2, <3>3, <3>5
  <2>5. ~There(t.path)
    BY <1>1, <1>3 DEF There
  <2>6. UpSays(t.path)
    BY <1>1, <1>3, <2>5 DEF UpSays
  <2>7. \A q \in LocalPaths : q # t.path => (There(q)' <=> There(q)) /\ (FileAt(q)' <=> FileAt(q))
    BY <2>3, <2>4
  <2> QED BY <1>3, <2>2, <2>3, <2>6, <2>7 DEF UpChange
<1>4. "dir" # User
  BY DEF UploadAssumption
<1>5. CASE UpDir
  <2>1. CASE t.path # << >> /\ Stat(fs, t.rpath) = None /\ ~dry
    <3>1. /\ fs' = Added(t.rpath, "dir") /\ MayAdd(t.rpath) /\ said' = said \cup {<<"D", t.path>>}
          /\ disk[t.path] = "dir"
      BY <1>5, <2>1 DEF UpDir, MakeRemote
    <3>2. "dir" # "file" /\ UpLine(t.path) = <<"D", t.path>>
      BY <3>1 DEF UpLine
    <3> QED BY <1>3, <1>4, <2>1, <3>1, <3>2
  <2>2. CASE ~(t.path # << >> /\ Stat(fs, t.rpath) = None /\ ~dry)
    <3>1. fs' = fs
      BY <1>5, <2>2 DEF UpDir, MakeRemote
    <3> QED BY <1>2, <3>1
  <2> QED BY <2>1, <2>2
<1>6. CASE UpFile
  <2>1. /\ Stat(fs, t.rpath) = None /\ disk[t.path] = User /\ said' = said \cup {<<"F", t.path>>}
        /\ fs' = (IF dry THEN fs ELSE Added(t.rpath, "file")) /\ (dry \/ MayAdd(t.rpath))
    BY <1>6 DEF UpFile
  <2>2. t.path # << >>
    BY <1>1, <2>1 DEF There
  <2>3. UpLine(t.path) = <<"F", t.path>>
    BY <1>4, <2>1 DEF UpLine
  <2> QED BY <1>2, <1>3, <2>1, <2>2, <2>3
<1>7. CASE UpRefuse \/ UpSkip
  BY <1>2, <1>7 DEF UpRefuse, UpSkip
<1>8. ~UpDirFails /\ ~UpDirCut /\ ~UpFileFails
  BY DEF UpDirFails, UpDirCut, UpFileFails
<1> QED BY <1>5, <1>6, <1>7, <1>8 DEF UpAny

\* What a step of an upload says and which calls it leaves to be made: those for
\* the entries of a directory, or none.
UpTold(t, new) ==
    \/ /\ disk[t.path] = "dir" /\ (t.path = << >> \/ ~FileAt(t.path))
       /\ said' = IF t.path # << >> /\ ~There(t.path) THEN said \cup {UpLine(t.path)} ELSE said
       /\ \A i \in DOMAIN new : new[i].path \in Entries(t.path)
       /\ \A q \in Entries(t.path) : \E i \in DOMAIN new : new[i].path = q
    \/ /\ disk[t.path] = User /\ ~There(t.path)
       /\ said' = said \cup {UpLine(t.path)} /\ new = << >>
    \/ /\ said' = said /\ new = << >>
       /\ \/ disk[t.path] = "dir" /\ t.path # << >> /\ FileAt(t.path)
          \/ disk[t.path] = User /\ There(t.path)
          \/ disk[t.path] = "other"

LEMMA UpTells ==
  ASSUME UploadAssumption, UpAny, ~broken', NEW t \in UpCalls, t = Head(todo), todo \in Seq(UpCalls)
  PROVE  \E new \in Seq(UpCalls) : todo' = new \o Tail(todo) /\ UpTold(t, new)
<1>1. t.path \in LocalPaths /\ t.rpath = RPath(t.path) /\ "dir" # User
  BY DEF UpCalls, UpTypes, UploadAssumption
<1>2. Stat(fs, t.rpath) = None <=> ~There(t.path)
  BY <1>1 DEF There
<1>3. IsFile(Stat(fs, t.rpath)) <=> FileAt(t.path)
  BY <1>1 DEF FileAt
<1>4. CASE UpDir
  <2>1. disk[t.path] = "dir" /\ MakeRemote(t)
    BY <1>4 DEF UpDir
  <2>2. PICK tasks \in UpTasks(t) : todo' = tasks \o Tail(todo)
    BY <1>4 DEF UpDir
  <2>3. UpLine(t.path) = <<"D", t.path>>
    BY <2>1 DEF UpLine
  <2>4. /\ t.path = << >> \/ ~FileAt(t.path)
        /\ said' = IF t.path # << >> /\ ~There(t.path) THEN said \cup {UpLine(t.path)} ELSE said
    BY <1>2, <1>3, <2>1, <2>3 DEF MakeRemote
  <2>5. /\ tasks \in Seq(UpCalls)
        /\ \A q \in Entries(t.path) : \E i \in DOMAIN tasks : tasks[i].path = q
        /\ \A i \in DOMAIN tasks : tasks[i].path \in Entries(t.path)
    BY UpTasksAre
  <2>6. UpTold(t, tasks)
    BY <2>1, <2>4, <2>5 DEF UpTold
  <2> QED BY <2>2, <2>5, <2>6
<1>5. ASSUME UpFile \/ UpRefuse \/ UpSkip PROVE todo' = << >> \o Tail(todo) /\ << >> \in Seq(UpCalls)
  <2> DEFINE G == UpCalls
  <2>1. todo' = Tail(todo) /\ todo # << >>
    BY <1>5 DEF UpFile, UpRefuse, UpSkip, Refuse, UpTurn
  <2>2. todo \in Seq(G)
    OBVIOUS
  <2> HIDE DEF G
  <2>3. Tail(todo) \in Seq(G) /\ << >> \in Seq(G)
    BY <2>1, <2>2, HeadTailProperties
  <2>4. << >> \o Tail(todo) = Tail(todo)
    BY <2>3, ConcatEmptySeq
  <2> QED BY <2>1, <2>3, <2>4 DEF G
<1>6. CASE UpFile
  <2>1. disk[t.path] = User /\ ~There(t.path) /\ said' = said \cup {<<"F", t.path>>}
    BY <1>2, <1>6 DEF UpFile
  <2>2. UpLine(t.path) = <<"F", t.path>>
    BY <1>1, <2>1 DEF UpLine
  <2>3. UpTold(t, << >>)
    BY <2>1, <2>2 DEF UpTold
  <2> QED BY <1>5, <1>6, <2>3
<1>7. CASE UpRefuse \/ UpSkip
  <2>1. /\ said' = said
        /\ \/ disk[t.path] = "dir" /\ t.path # << >> /\ FileAt(t.path)
           \/ disk[t.path] = User /\ There(t.path)
           \/ disk[t.path] = "other"
    BY <1>2, <1>3, <1>7 DEF UpRefuse, UpSkip, Refuse
  <2>2. UpTold(t, << >>)
    BY <2>1 DEF UpTold
  <2> QED BY <1>5, <1>7, <2>2
<1>8. ~UpDirFails /\ ~UpDirCut /\ ~UpFileFails
  BY DEF UpDirFails, UpDirCut, UpFileFails
<1> QED BY <1>4, <1>6, <1>7, <1>8 DEF UpAny

\* A line that was still to be said is said or still to be said.
LEMMA UpLinesLeft ==
  ASSUME UploadAssumption, RemoteIs, IsTree(disk), disk' = disk,
         todo \in Seq(UpCalls), NEW t \in UpCalls, t = Head(todo), todo # << >>,
         NEW new \in Seq(UpCalls), todo' = new \o Tail(todo), UpTold(t, new), UpChange(t.path),
         NEW p \in LocalPaths, UpSays(p), UpMeets(Range(todo), p)
  PROVE  UpLine(p) \in said' \/ (UpSays(p)' /\ UpMeets(Range(todo), p)')
<1>1. t.path \in LocalPaths /\ "dir" # User /\ "other" # User /\ "dir" # "other" /\ None # "dir" /\ None # User
  BY DEF UpCalls, UpTypes, UploadAssumption, DownSyncAssumption
<1>2. p # << >> /\ disk[p] \in {"dir", User} /\ ~There(p) /\ disk[p] # None
  BY <1>1 DEF UpSays
<1>3. PICK r \in Range(todo), k \in 0 .. Len(p) : SubSeq(p, 1, k) = r.path /\ Onward(p, k)
  BY DEF UpMeets
<1>4. Len(p) \in Nat /\ \A j \in 0 .. Len(p) :
          /\ SubSeq(p, 1, j) \in LocalPaths
          /\ j # Len(p) => disk[SubSeq(p, 1, j)] = "dir"
          /\ j = Len(p) => SubSeq(p, 1, j) = p
          /\ Len(SubSeq(p, 1, j)) = j
  <2>1. p \in Seq(LocalNames)
    BY DEF UploadAssumption
  <2> QED BY <1>2, <2>1, AboveIs
<1>5. CASE There(p)'
  <2>1. p = t.path /\ UpLine(t.path) \in said'
    BY <1>2, <1>5 DEF UpChange
  <2> QED BY <2>1
<1>6. CASE ~There(p)'
  <2>1. UpSays(p)'
    BY <1>2, <1>6 DEF UpSays
  <2>2. Onward(p, k)'
    <3> SUFFICES ASSUME NEW j \in k .. Len(p) - 1, j # 0 PROVE ~FileAt(SubSeq(p, 1, j))'
      BY DEF Onward
    <3>1. j \in 0 .. Len(p) /\ j # Len(p) /\ ~FileAt(SubSeq(p, 1, j))
      BY <1>3, <1>4 DEF Onward
    <3>2. SubSeq(p, 1, j) \in LocalPaths /\ disk[SubSeq(p, 1, j)] # User
      BY <1>1, <1>4, <3>1
    <3> QED BY <3>1, <3>2 DEF UpChange
  <2>3. /\ Range(todo) \subseteq {t} \cup Range(todo')
        /\ Range(new) \subseteq Range(todo')
    <3> DEFINE G == UpCalls
    <3>1. todo \in Seq(G) /\ new \in Seq(G)
      OBVIOUS
    <3> HIDE DEF G
    <3> QED BY <3>1, CallsAre
  <2>4. CASE r \in Range(todo')
    <3>1. UpMeets(Range(todo), p)'
      BY <1>3, <2>2, <2>4 DEF UpMeets
    <3> QED BY <2>1, <3>1
  <2>5. CASE r = t /\ k = Len(p)
    <3>1. p = t.path
      BY <1>3, <1>4, <2>5
    <3>2. FileAt(p) => There(p)
      BY FileIsThere
    <3>3. UpLine(t.path) \in said'
      BY <1>1, <1>2, <3>1, <3>2 DEF UpTold
    <3> QED BY <3>1, <3>3
  <2>6. CASE r = t /\ k # Len(p)
    <3>1. disk[t.path] = "dir" /\ Len(t.path) = k
      BY <1>3, <1>4, <2>6
    <3>2. k \in k .. Len(p) - 1
      BY <1>4, <2>6
    <3>3. k = 0 \/ ~FileAt(t.path)
      BY <1>3, <2>6, <3>2 DEF Onward
    <3>4. t.path = << >> \/ ~FileAt(t.path)
      <4>1. t.path \in Seq(LocalNames)
        BY <1>1 DEF UploadAssumption
      <4> QED BY <3>1, <3>3, <4>1
    <3>5. \A q \in Entries(t.path) : \E i \in DOMAIN new : new[i].path = q
      BY <1>1, <3>1, <3>4 DEF UpTold
    <3>6. p # t.path
      BY <2>6, <3>1
    <3>7. PICK q \in Entries(t.path) : \E j \in 0 .. Len(p) : SubSeq(p, 1, j) = q /\ j = k + 1
      BY <1>2, <1>3, <2>6, <3>6, NextBelow
    <3>8. k + 1 \in 0 .. Len(p) /\ SubSeq(p, 1, k + 1) = q
      BY <3>7
    <3>9. PICK i \in DOMAIN new : new[i].path = q
      BY <3>5
    <3>10. new[i] \in Range(todo')
      BY <2>3 DEF Range
    <3>11. Onward(p, k + 1)'
      <4>1. \A j \in k + 1 .. Len(p) - 1 : j \in k .. Len(p) - 1
        OBVIOUS
      <4> QED BY <2>2, <4>1 DEF Onward
    <3>12. UpMeets(Range(todo), p)'
      BY <3>8, <3>9, <3>10, <3>11 DEF UpMeets
    <3> QED BY <2>1, <3>12
  <2> QED BY <1>3, <2>3, <2>4, <2>5, <2>6
<1> QED BY <1>5, <1>6

\* And no other line is said or still to be said.
LEMMA UpLinesOnly ==
  ASSUME UploadAssumption, RemoteIs, IsTree(disk), disk' = disk,
         todo \in Seq(UpCalls), NEW t \in UpCalls, t = Head(todo), todo # << >>,
         NEW new \in Seq(UpCalls), todo' = new \o Tail(todo), UpTold(t, new), UpChange(t.path),
         NEW p \in LocalPaths, UpSays(p)', UpMeets(Range(todo), p)'
  PROVE  UpSays(p) /\ UpMeets(Range(todo), p)
<1>1. t.path \in LocalPaths /\ "dir" # User /\ "other" # User /\ "dir" # "other" /\ None # "dir" /\ None # User
  BY DEF UpCalls, UpTypes, UploadAssumption, DownSyncAssumption
<1>2. p # << >> /\ disk[p] \in {"dir", User} /\ ~There(p)' /\ disk[p] # None
  BY <1>1 DEF UpSays
<1>3. PICK r \in Range(todo'), k \in 0 .. Len(p) : SubSeq(p, 1, k) = r.path /\ Onward(p, k)'
  BY DEF UpMeets
<1>4. Len(p) \in Nat /\ \A j \in 0 .. Len(p) :
          /\ SubSeq(p, 1, j) \in LocalPaths
          /\ Len(SubSeq(p, 1, j)) = j
  <2>1. p \in Seq(LocalNames)
    BY DEF UploadAssumption
  <2> QED BY <1>2, <2>1, AboveIs
<1>5. UpSays(p)
  BY <1>2 DEF UpSays, UpChange
<1>6. Onward(p, k)
  <2> SUFFICES ASSUME NEW j \in k .. Len(p) - 1, j # 0 PROVE ~FileAt(SubSeq(p, 1, j))
    BY DEF Onward
  <2>1. j \in 0 .. Len(p) /\ ~FileAt(SubSeq(p, 1, j))'
    BY <1>3, <1>4 DEF Onward
  <2>2. FileAt(SubSeq(p, 1, j)) => There(SubSeq(p, 1, j))
    BY FileIsThere
  <2> QED BY <1>4, <2>1, <2>2 DEF UpChange
<1>7. Range(todo') \subseteq Range(new) \cup Range(todo) /\ t \in Range(todo)
  <2> DEFINE G == UpCalls
  <2>1. todo \in Seq(G) /\ new \in Seq(G)
    OBVIOUS
  <2> HIDE DEF G
  <2> QED BY <2>1, CallsAre
<1>8. CASE r \in Range(todo)
  BY <1>3, <1>5, <1>6, <1>8 DEF UpMeets
<1>9. CASE r \in Range(new)
  <2>1. r.path \in Entries(t.path) /\ (t.path = << >> \/ ~FileAt(t.path))
    BY <1>9 DEF UpTold, Range
  <2>2. r.path # << >> /\ Front(r.path) = t.path
    BY <2>1 DEF Entries
  <2>3. Len(r.path) = k /\ r.path = SubSeq(p, 1, k)
    BY <1>3, <1>4
  <2>4. k # 0
    <3>1. p \in Seq(LocalNames)
      BY DEF UploadAssumption
    <3> QED BY <2>2, <2>3, <3>1
  <2> DEFINE j == k - 1
  <2>5. j \in 0 .. Len(p) /\ j \in Nat /\ k = j + 1
    BY <1>4, <2>4
  <2> HIDE DEF j
  <2>6. SubSeq(p, 1, j) = t.path
    <3>1. p \in Seq(LocalNames)
      BY DEF UploadAssumption
    <3>2. Front(r.path) = SubSeq(SubSeq(p, 1, k), 1, j)
      BY <2>3, <2>5 DEF Front
    <3>3. SubSeq(SubSeq(p, 1, k), 1, j) = SubSeq(p, 1, j)
      BY <1>4, <2>5, <3>1
    <3> QED BY <2>2, <3>2, <3>3
  <2>7. j = 0 \/ ~FileAt(SubSeq(p, 1, j))
    <3>1. t.path = << >> => j = 0
      BY <1>4, <2>5, <2>6
    <3> QED BY <2>1, <2>6, <3>1
  <2>8. Onward(p, j)
    <3>1. \A i \in j .. Len(p) - 1 : i = j \/ i \in k .. Len(p) - 1
      BY <1>4, <2>5
    <3> QED BY <1>6, <2>7, <3>1 DEF Onward
  <2>9. UpMeets(Range(todo), p)
    BY <1>7, <2>5, <2>6, <2>8 DEF UpMeets
  <2> QED BY <1>5, <2>9
<1> QED BY <1>3, <1>7, <1>8, <1>9

\* A step of an upload keeps all the lines together, and the calls typed.
LEMMA UpLinesKept ==
  ASSUME UploadAssumption, RemoteIs, IsTree(disk), There(<< >>), todo \in Seq(UpCalls),
         ~dry => UpWalk, UpAny, ~broken'
  PROVE  /\ said' \cup UpLines(Range(todo))' = said \cup UpLines(Range(todo))
         /\ todo' \in Seq(UpCalls') /\ There(<< >>)'
<1>1. disk' = disk /\ todo # << >>
  BY DEF UpAny, UpDir, UpDirFails, UpDirCut, UpRefuse, Refuse, UpSkip, UpFile, UpFileFails, UpTurn
<1>2. PICK t : t = Head(todo)
  OBVIOUS
<1>3. t \in UpCalls
  <2> DEFINE G == UpCalls
  <2>1. todo \in Seq(G)
    OBVIOUS
  <2> HIDE DEF G
  <2>2. t \in G
    BY <1>1, <1>2, <2>1
  <2> QED BY <2>2 DEF G
<1>4. PICK new \in Seq(UpCalls) : todo' = new \o Tail(todo) /\ UpTold(t, new)
  BY <1>2, <1>3, UpTells
<1>5. UpChange(t.path)
  BY <1>1, <1>2, <1>3, UpChanges
<1>6. \A p \in LocalPaths : UpSays(p) /\ UpMeets(Range(todo), p) =>
          UpLine(p) \in said' \/ (UpSays(p)' /\ UpMeets(Range(todo), p)')
  BY <1>1, <1>2, <1>3, <1>4, <1>5, UpLinesLeft
<1>7. \A p \in LocalPaths : UpSays(p)' /\ UpMeets(Range(todo), p)' => UpSays(p) /\ UpMeets(Range(todo), p)
  BY <1>1, <1>2, <1>3, <1>4, <1>5, UpLinesOnly
<1>8. \A p : UpLine(p)' = UpLine(p)
  BY <1>1 DEF UpLine
<1>9. said \subseteq said' /\ said' \subseteq said \cup UpLines(Range(todo))
  <2>1. said' = said \/ (said' = said \cup {UpLine(t.path)} /\ t.path # << >> /\ ~There(t.path)
                         /\ disk[t.path] \in {"dir", User})
    BY <1>4 DEF UpTold
  <2>2. ASSUME said' = said \cup {UpLine(t.path)}, t.path # << >>, ~There(t.path), disk[t.path] \in {"dir", User}
        PROVE  UpLine(t.path) \in UpLines(Range(todo))
    <3> DEFINE p == t.path
    <3>1. p \in LocalPaths /\ UpSays(p)
      BY <1>3, <2>2 DEF UpSays, UpCalls, UpTypes
    <3>2. p \in Seq(LocalNames)
      BY <3>1 DEF UploadAssumption
    <3>3. Len(p) \in 0 .. Len(p) /\ SubSeq(p, 1, Len(p)) = p /\ Len(p) \in Nat
      BY <3>2
    <3>4. t \in Range(todo)
      <4> DEFINE G == UpCalls
      <4>1. todo \in Seq(G) /\ << >> \in Seq(G)
        OBVIOUS
      <4> HIDE DEF G
      <4> QED BY <1>1, <1>2, <4>1, CallsAre
    <3>5. Onward(p, Len(p))
      BY <3>3 DEF Onward
    <3>6. UpMeets(Range(todo), p)
      <4>1. SubSeq(p, 1, Len(p)) = t.path
        BY <3>3
      <4> HIDE DEF p
      <4> QED BY <3>3, <3>4, <3>5, <4>1 DEF UpMeets
    <3> HIDE DEF p
    <3>7. UpLine(p) \in UpLines(Range(todo))
      BY <3>1, <3>6 DEF UpLines
    <3> QED BY <3>7 DEF p
  <2> QED BY <2>1, <2>2
<1>10. UpLines(Range(todo)) \subseteq said' \cup UpLines(Range(todo))'
  BY <1>6, <1>8 DEF UpLines
<1>11. UpLines(Range(todo))' \subseteq UpLines(Range(todo))
  BY <1>7, <1>8 DEF UpLines
<1>12. There(<< >>)'
  BY <1>5 DEF UpChange, UploadAssumption, DownSyncAssumption
<1>13. todo' \in Seq(UpCalls')
  <2> DEFINE G == UpCalls
             H == UpCalls'
  <2>1. G \subseteq H
    <3>1. Range(fs) \subseteq Range(fs')
      BY <1>1, UpAnyLists DEF ListKept
    <3>2. UpTypes \subseteq UpTypes'
      BY <3>1 DEF UpTypes
    <3> QED BY <3>2 DEF UpCalls, RPath
  <2>2. todo \in Seq(G) /\ new \in Seq(G)
    OBVIOUS
  <2> HIDE DEF G, H
  <2>3. todo' \in Seq(G)
    BY <1>1, <1>4, <2>2, CallsAre
  <2>4. todo' \in Seq(H)
    BY <2>1, <2>3
  <2> QED BY <2>4 DEF H
<1> QED BY <1>9, <1>10, <1>11, <1>12, <1>13

-----------------------------------------------------------------------------
(* What a download is still to say, when no two nodes share a path.         *)

\* What is below a node that is below another is below that one.
LEMMA UnderWithin ==
  ASSUME Forest(fs), NEW h \in HandlesOf, NEW k \in Under(h), NEW g \in Under(k)
  PROVE  g \in Under(h)
<1>1. Under(h) \in SUBSET HandlesOf /\ \A n \in Nodes : n.parent \in Under(h) => n.h \in Under(h)
  BY UnderIs
<1> DEFINE S == Under(h)
<1>2. S \in SUBSET HandlesOf /\ k \in S /\ \A n \in Nodes : n.parent \in S => n.h \in S
  BY <1>1
<1> HIDE DEF S
<1>3. g \in S
  BY <1>2 DEF Under
<1> QED BY <1>3 DEF S

\* Nodes are the same when they have the same place in the local directory, when
\* each is below the other, and when they are children of a directory and something
\* is below both.
LEMMA NodesApart ==
  ASSUME Forest(fs), root \in HandlesOf, PathsDiffer, NEW m \in Nodes, NEW n \in Nodes
  PROVE  /\ m.h = n.h => m = n
         /\ m.h \in Under(root) /\ n.h \in Under(root) /\ PathBelow(m) = PathBelow(n) => m = n
         /\ m.h \in Under(n.h) /\ n.h \in Under(m.h) => m = n
         /\ \A g : m.parent = n.parent /\ n.parent \in HandlesOf /\ g \in Under(m.h) /\ g \in Under(n.h) => m = n
<1> DEFINE N == NamesIn(fs)
           Of(h) == NamesOf(fs, h)
<1>1. m.h = n.h => m = n
  BY NodesAre, NodeOfIs
<1>2. Of(m.h) = Of(n.h) => m = n
  BY DEF PathsDiffer
<1>3. m.h \in HandlesOf /\ n.h \in HandlesOf /\ \A h \in HandlesOf : Of(h) \in Seq(N)
  BY NodesAre, NamesTyped DEF HandlesOf
<1>4. ASSUME m.h \in Under(root), n.h \in Under(root), PathBelow(m) = PathBelow(n) PROVE m = n
  <2>1. Of(m.h) = Of(root) \o PathBelow(m) /\ Of(n.h) = Of(root) \o PathBelow(n)
    BY <1>4, BelowIs DEF Extends
  <2> QED BY <1>2, <1>4, <2>1
<1>5. ASSUME m.h \in Under(n.h), n.h \in Under(m.h) PROVE m = n
  <2>1. PICK p \in Seq(N) : Of(m.h) = Of(n.h) \o p
    BY <1>3, <1>5, UnderIs
  <2>2. PICK q \in Seq(N) : Of(n.h) = Of(m.h) \o q
    BY <1>3, <1>5, UnderIs
  <2> DEFINE a == Of(m.h)
             b == Of(n.h)
  <2>3. a \in Seq(N) /\ b \in Seq(N) /\ a = b \o p /\ b = a \o q
    BY <1>3, <2>1, <2>2
  <2> HIDE DEF a, b, N
  <2>4. Len(a) = Len(b) + Len(p) /\ Len(b) = Len(a) + Len(q)
    BY <2>3, ConcatProperties
  <2>5. Len(p) = 0
    <3>1. Len(a) \in Nat /\ Len(b) \in Nat /\ Len(p) \in Nat /\ Len(q) \in Nat
      BY <2>3
    <3> QED BY <2>4, <3>1
  <2>6. p = << >>
    BY <2>5
  <2>7. a = b
    BY <2>3, <2>6, ConcatEmptySeq
  <2> QED BY <1>2, <2>7 DEF a, b
<1>6. ASSUME NEW g, m.parent = n.parent, n.parent \in HandlesOf, g \in Under(m.h), g \in Under(n.h)
      PROVE  m = n
  <2> DEFINE a == Of(n.parent)
             x == m.name
             y == n.name
             b == Of(m.h)
             c == Of(n.h)
  <2>1. PICK p \in Seq(N) : Of(g) = Of(m.h) \o p
    BY <1>3, <1>6, UnderIs
  <2>2. PICK q \in Seq(N) : Of(g) = Of(n.h) \o q
    BY <1>3, <1>6, UnderIs
  <2>3. n.parent # None
    BY <1>6, NodesAre, ForestIs
  <2>4. b = Append(a, x) /\ c = Append(a, y)
    BY <1>6, <2>3, NodesAre, NamesOfIs
  <2>5. a \in Seq(N) /\ x \in N /\ y \in N
    BY <1>3, <1>6, NodesAre DEF NamesIn
  <2>6. b \o p = c \o q
    BY <2>1, <2>2
  <2> HIDE DEF a, b, c, x, y, N
  <2>7. b \in Seq(N) /\ c \in Seq(N) /\ Len(b) = Len(a) + 1 /\ Len(c) = Len(a) + 1 /\ Len(a) \in Nat
        /\ b[Len(a) + 1] = x /\ c[Len(a) + 1] = y
    BY <2>4, <2>5, AppendProperties
  <2>8. (b \o p)[Len(a) + 1] = x /\ (c \o q)[Len(a) + 1] = y
    <3> DEFINE i == Len(a) + 1
    <3>1. i \in 1 .. Len(b) + Len(p) /\ i <= Len(b) /\ i \in 1 .. Len(c) + Len(q) /\ i <= Len(c)
      <4>1. Len(p) \in Nat /\ Len(q) \in Nat
        OBVIOUS
      <4> QED BY <2>7, <4>1
    <3> HIDE DEF i
    <3>2. (b \o p)[i] = b[i]
      BY <2>7, <3>1, ConcatProperties
    <3>3. (c \o q)[i] = c[i]
      BY <2>7, <3>1, ConcatProperties
    <3> QED BY <2>7, <3>2, <3>3 DEF i
  <2>9. b = c
    BY <2>4, <2>6, <2>8
  <2> QED BY <1>2, <2>9 DEF b, c
<1> QED BY <1>1, <1>4, <1>5, <1>6

\* Nothing but directories are in the places from one node down to another.
Clear(m, n) ==
    \A c \in Nodes : c.h \in Under(m.h) /\ n.h \in Under(c.h) /\ c # n => disk[PathBelow(c)] \in {None, "dir"}

\* A call leads to the node.
DownMeets(calls, n) == \E t \in calls : n.h \in Under(t.node.h) /\ Clear(t.node, n)

\* There something is said about it: nothing is in its place.
DownSays(n) == n \in Nodes /\ n.h \in Under(root) /\ disk[PathBelow(n)] = None
DownLine(n) == <<IF n.type = "file" THEN "F" ELSE "D", PathBelow(n)>>

\* The lines that calls lead to, and those of the whole directory.
DownLines(calls) == {DownLine(n) : n \in {n \in Nodes : DownSays(n) /\ DownMeets(calls, n)}}
DownAll == {DownLine(n) : n \in {n \in Nodes : DownSays(n) /\ \A m \in Nodes : m.h = root => Clear(m, n)}}

\* The calls of a download.
Calls == GoodTasks(Range(RemotePath))

\* What a step of a download says and does, and which calls it leaves to be made:
\* those for the children of a directory, or none.
DownTold(t, new) ==
    \/ /\ t.node.type # "file" /\ disk[t.path] \in {None, "dir"}
       /\ said' = IF disk[t.path] = None THEN said \cup {DownLine(t.node)} ELSE said
       /\ disk' = disk \/ disk' = [disk EXCEPT ![t.path] = "dir"]
       /\ \A i \in DOMAIN new : new[i].node \in Nodes /\ new[i].node.parent = t.node.h
       /\ \A c \in Nodes : c.parent = t.node.h => \E i \in DOMAIN new : new[i].node = c
    \/ /\ t.node.type = "file" /\ disk[t.path] = None
       /\ said' = said \cup {DownLine(t.node)} /\ new = << >>
       /\ disk' = disk \/ \E v \in HandlesOf : disk' = [disk EXCEPT ![t.path] = v]
    \/ /\ said' = said /\ disk' = disk /\ new = << >>
       /\ IF t.node.type = "file" THEN disk[t.path] # None ELSE disk[t.path] \notin {None, "dir"}

LEMMA DownTells ==
  ASSUME PathsAssumption, Ground, DownStep, ~broken', NEW t \in Calls, t = Head(todo), todo \in Seq(Calls)
  PROVE  \E new \in Seq(Calls) : todo' = new \o Tail(todo) /\ DownTold(t, new)
<1>1. t.node \in Nodes /\ t.path = PathBelow(t.node)
  BY DEF Calls, GoodTasks
<1>2. CASE EnterDir
  <2>1. /\ t.node.type # "file" /\ disk[t.path] \in {None, "dir"}
        /\ said' = IF disk[t.path] = None THEN said \cup {<<"D", t.path>>} ELSE said
        /\ disk' = disk \/ disk' = [disk EXCEPT ![t.path] = "dir"]
        /\ todo' = ChildTasks(t) \o Tail(todo)
    BY <1>2 DEF EnterDir
  <2>2. DownLine(t.node) = <<"D", t.path>>
    BY <1>1, <2>1 DEF DownLine
  <2> DEFINE new == ChildTasks(t)
  <2>3. /\ new \in Seq(Calls)
        /\ \A i \in DOMAIN new : new[i].node \in Nodes /\ new[i].node.parent = t.node.h
        /\ \A c \in Nodes : c.parent = t.node.h => \E i \in DOMAIN new : new[i].node = c
    BY ChildTasksGood DEF Calls
  <2>4. todo' = new \o Tail(todo)
    BY <2>1
  <2> HIDE DEF new
  <2>5. DownTold(t, new)
    BY <2>1, <2>2, <2>3 DEF DownTold
  <2> QED BY <2>3, <2>4, <2>5
<1>3. ASSUME todo' = Tail(todo), todo # << >> PROVE todo' = << >> \o Tail(todo) /\ << >> \in Seq(Calls)
  <2> DEFINE G == Calls
  <2>1. todo \in Seq(G)
    OBVIOUS
  <2> HIDE DEF G
  <2>2. Tail(todo) \in Seq(G) /\ << >> \in Seq(G)
    BY <1>3, <2>1, HeadTailProperties
  <2>3. << >> \o Tail(todo) = Tail(todo)
    BY <2>2, ConcatEmptySeq
  <2> QED BY <1>3, <2>2, <2>3 DEF G
<1>4. CASE GetFile \/ GetFails
  <2>1. /\ t.node.type = "file" /\ disk[t.path] = None /\ said' = said \cup {<<"F", t.path>>}
        /\ todo' = Tail(todo) /\ todo # << >>
    BY <1>4 DEF GetFile, GetFails
  <2>2. DownLine(t.node) = <<"F", t.path>>
    BY <1>1, <2>1 DEF DownLine
  <2>3. disk' = disk \/ \E v \in HandlesOf : disk' = [disk EXCEPT ![t.path] = v]
    <3> DEFINE n == Stat(fs, t.rpath)
    <3>1. disk' = disk \/ (IsFile(n) /\ disk' = [disk EXCEPT ![t.path] = n.h])
      BY <1>4 DEF GetFile, GetFails
    <3>2. IsFile(n) => n.h \in HandlesOf
      BY DEF IsFile, HandlesOf
    <3> QED BY <3>1, <3>2
  <2>4. DownTold(t, << >>)
    BY <2>1, <2>2, <2>3 DEF DownTold
  <2> QED BY <1>3, <2>1, <2>4
<1>5. CASE RefuseDir \/ RefuseFile
  <2>1. /\ said' = said /\ disk' = disk /\ todo' = Tail(todo) /\ todo # << >>
        /\ IF t.node.type = "file" THEN disk[t.path] # None ELSE disk[t.path] \notin {None, "dir"}
    BY <1>5 DEF RefuseDir, RefuseFile, Refuse
  <2>2. DownTold(t, << >>)
    BY <2>1 DEF DownTold
  <2> QED BY <1>3, <2>1, <2>2
<1>6. ~MakeDirFails
  BY DEF MakeDirFails
<1> QED BY <1>2, <1>4, <1>5, <1>6 DEF DownStep

\* What a step changes in the places of the nodes.
LEMMA DownChanges ==
  ASSUME Ground, PathsDiffer, None # "dir", NEW t \in Calls, NEW new, DownTold(t, new)
  PROVE  \A n \in Nodes : n.h \in Under(root) =>
            LET p == PathBelow(n)
            IN /\ p \in LocalPaths
               /\ disk[p] # None => disk'[p] = disk[p]
               /\ n # t.node => disk'[p] = disk[p]
               /\ disk'[p] # disk[p] => DownLine(n) \in said'
               /\ disk'[p] # disk[p] /\ n.type # "file" => disk'[p] = "dir"
<1> DEFINE q == PathBelow(t.node)
<1>1. t.node \in Nodes /\ t.node.h \in Under(root) /\ t.path = q /\ q \in LocalPaths
  BY DEF Calls, GoodTasks, Ground
<1>2. disk = [p \in LocalPaths |-> disk[p]] /\ Forest(fs) /\ root \in HandlesOf
  BY DEF Ground
<1>3. None \notin HandlesOf
  BY <1>2, NodesAre, ForestIs
<1> HIDE DEF q
<1>4. \/ disk' = disk
      \/ /\ \E v : disk' = [disk EXCEPT ![q] = v] /\ (t.node.type # "file" => v = "dir")
         /\ (disk[q] = None /\ DownLine(t.node) \in said') \/ (disk[q] = "dir" /\ t.node.type # "file")
  BY <1>1 DEF DownTold
<1>5. CASE disk' = disk
  BY <1>5 DEF Ground
<1>6. ASSUME NEW v, disk' = [disk EXCEPT ![q] = v], t.node.type # "file" => v = "dir",
             (disk[q] = None /\ DownLine(t.node) \in said') \/ (disk[q] = "dir" /\ t.node.type # "file"),
             NEW n \in Nodes, n.h \in Under(root)
      PROVE  LET p == PathBelow(n)
             IN /\ p \in LocalPaths
                /\ disk[p] # None => disk'[p] = disk[p]
                /\ n # t.node => disk'[p] = disk[p]
                /\ disk'[p] # disk[p] => DownLine(n) \in said'
                /\ disk'[p] # disk[p] /\ n.type # "file" => disk'[p] = "dir"
  <2> DEFINE p == PathBelow(n)
  <2>1. p \in LocalPaths
    BY <1>6 DEF Ground
  <2>2. p = q => n = t.node
    BY <1>1, <1>2, <1>6, NodesApart DEF q
  <2> HIDE DEF p
  <2>3. disk'[p] = IF p = q THEN v ELSE disk[p]
    <3>1. DOMAIN disk = LocalPaths
      BY <1>2
    <3> QED BY <1>6, <2>1, <3>1
  <2>4. /\ disk[p] # None => disk'[p] = disk[p]
        /\ n # t.node => disk'[p] = disk[p]
        /\ disk'[p] # disk[p] => DownLine(n) \in said'
        /\ disk'[p] # disk[p] /\ n.type # "file" => disk'[p] = "dir"
    BY <1>6, <2>2, <2>3
  <2> QED BY <2>1, <2>4 DEF p
<1> QED BY <1>4, <1>5, <1>6

\* A line that was still to be said is said or still to be said.
LEMMA DownLinesLeft ==
  ASSUME Ground, PathsDiffer, None # "dir", fs' = fs, root' = root,
         todo \in Seq(Calls), NEW t \in Calls, t = Head(todo), todo # << >>,
         NEW new \in Seq(Calls), todo' = new \o Tail(todo), DownTold(t, new),
         NEW n \in Nodes, DownSays(n), DownMeets(Range(todo), n)
  PROVE  DownLine(n) \in said' \/ (DownSays(n)' /\ DownMeets(Range(todo), n)')
<1>1. Forest(fs) /\ root \in HandlesOf /\ n.h \in Under(root) /\ disk[PathBelow(n)] = None
  BY DEF Ground, DownSays
<1>2. Nodes' = Nodes /\ (\A h : Under(h)' = Under(h)) /\ \A c : PathBelow(c)' = PathBelow(c)
  BY SameTree
<1>3. t.node \in Nodes /\ t.node.h \in Under(root) /\ t.path = PathBelow(t.node) /\ t.node.h \in HandlesOf
  BY DEF Calls, GoodTasks, HandlesOf
<1>4. PICK r \in Range(todo) : n.h \in Under(r.node.h) /\ Clear(r.node, n)
  BY DEF DownMeets
<1>5. \A c \in Nodes : c.h \in Under(root) =>
          LET p == PathBelow(c)
          IN /\ p \in LocalPaths
             /\ disk[p] # None => disk'[p] = disk[p]
             /\ c # t.node => disk'[p] = disk[p]
             /\ disk'[p] # disk[p] => DownLine(c) \in said'
             /\ disk'[p] # disk[p] /\ c.type # "file" => disk'[p] = "dir"
  BY DownChanges
<1>6. CASE disk'[PathBelow(n)] # None
  BY <1>1, <1>5, <1>6
<1>7. CASE disk'[PathBelow(n)] = None
  <2>1. DownSays(n)'
    BY <1>1, <1>2, <1>7 DEF DownSays
  <2>2. r \in Calls
    <3> DEFINE G == Calls
    <3>1. todo \in Seq(G)
      OBVIOUS
    <3> HIDE DEF G
    <3>2. r \in G
      BY <3>1 DEF Range
    <3> QED BY <3>2 DEF G
  <2>3. r.node \in Nodes /\ r.node.h \in Under(root) /\ r.node.h \in HandlesOf
    BY <2>2 DEF Calls, GoodTasks, HandlesOf
  <2>4. ASSUME NEW m \in Nodes, m.h \in Under(root), Clear(m, n) PROVE Clear(m, n)'
    <3> SUFFICES ASSUME NEW c \in Nodes, c.h \in Under(m.h), n.h \in Under(c.h), c # n
                 PROVE  disk'[PathBelow(c)] \in {None, "dir"}
      BY <1>2 DEF Clear
    <3>1. disk[PathBelow(c)] \in {None, "dir"}
      BY <2>4 DEF Clear
    <3>2. c.h \in Under(root)
      BY <1>1, <2>4, UnderWithin
    <3>3. c.type # "file"
      BY <1>1, FileAlone
    <3> QED BY <1>5, <3>1, <3>2, <3>3
  <2>5. /\ Range(todo) \subseteq {t} \cup Range(todo')
        /\ Range(new) \subseteq Range(todo')
    <3> DEFINE G == Calls
    <3>1. todo \in Seq(G) /\ new \in Seq(G)
      OBVIOUS
    <3> HIDE DEF G
    <3> QED BY <3>1, CallsAre
  <2>6. CASE r \in Range(todo')
    <3>1. Clear(r.node, n)'
      BY <1>4, <2>3, <2>4
    <3>2. DownMeets(Range(todo), n)'
      BY <1>2, <1>4, <2>6, <3>1 DEF DownMeets
    <3> QED BY <2>1, <3>2
  <2>7. CASE r = t /\ n = t.node
    <3>1. disk[t.path] = None /\ DownLine(t.node) \in said'
      BY <1>1, <1>3, <2>7 DEF DownTold
    <3> QED BY <2>7, <3>1
  <2>8. CASE r = t /\ n # t.node
    <3> DEFINE m == t.node
    <3>1. m.h \in Under(m.h) /\ n.h \in Under(m.h) /\ Clear(m, n)
      BY <1>1, <1>3, <1>4, <2>8, UnderIs
    <3>2. m.type # "file" /\ disk[t.path] \in {None, "dir"}
      <4>1. m.type # "file"
        BY <1>1, <1>3, <2>8, <3>1, FileAlone
      <4>2. disk[PathBelow(m)] \in {None, "dir"}
        BY <1>3, <2>8, <3>1 DEF Clear
      <4> QED BY <1>3, <4>1, <4>2
    <3>3. \A c \in Nodes : c.parent = m.h => \E i \in DOMAIN new : new[i].node = c
      BY <3>2 DEF DownTold
    <3>4. n.h # m.h
      BY <1>1, <1>3, <2>8, NodesApart
    <3>5. PICK d \in Nodes : d.parent = m.h /\ n.h \in Under(d.h)
      BY <1>1, <1>3, <3>1, <3>4, UnderIs
    <3>6. PICK i \in DOMAIN new : new[i].node = d
      BY <3>3, <3>5
    <3>7. new[i] \in Range(todo')
      BY <2>5 DEF Range
    <3>8. d.h \in Under(m.h) /\ d.h \in Under(root)
      <4>1. d.h \in Under(m.h)
        BY <1>1, <1>3, <3>1, <3>5, UnderIs
      <4> QED BY <1>1, <1>3, <4>1, UnderWithin
    <3>9. Clear(d, n)
      <4> SUFFICES ASSUME NEW c \in Nodes, c.h \in Under(d.h), n.h \in Under(c.h), c # n
                   PROVE  disk[PathBelow(c)] \in {None, "dir"}
        BY DEF Clear
      <4>1. c.h \in Under(m.h)
        BY <1>1, <1>3, <3>8, UnderWithin
      <4> QED BY <3>1, <4>1 DEF Clear
    <3>10. Clear(d, n)'
      BY <2>4, <3>8, <3>9
    <3>11. DownMeets(Range(todo), n)'
      BY <1>2, <3>5, <3>6, <3>7, <3>10 DEF DownMeets
    <3> QED BY <2>1, <3>11
  <2> QED BY <1>4, <2>5, <2>6, <2>7, <2>8
<1> QED BY <1>6, <1>7

\* And no other line is said or still to be said.
LEMMA DownLinesOnly ==
  ASSUME Ground, PathsDiffer, None # "dir", fs' = fs, root' = root,
         todo \in Seq(Calls), NEW t \in Calls, t = Head(todo), todo # << >>,
         NEW new \in Seq(Calls), todo' = new \o Tail(todo), DownTold(t, new),
         NEW n \in Nodes, DownSays(n)', DownMeets(Range(todo), n)'
  PROVE  DownSays(n) /\ DownMeets(Range(todo), n)
<1>1. Nodes' = Nodes /\ (\A h : Under(h)' = Under(h)) /\ \A c : PathBelow(c)' = PathBelow(c)
  BY SameTree
<1>2. Forest(fs) /\ root \in HandlesOf /\ n.h \in Under(root) /\ disk'[PathBelow(n)] = None
  BY <1>1 DEF Ground, DownSays
<1>3. t.node \in Nodes /\ t.node.h \in Under(root) /\ t.path = PathBelow(t.node) /\ t.node.h \in HandlesOf
  BY DEF Calls, GoodTasks, HandlesOf
<1>4. PICK r \in Range(todo') : n.h \in Under(r.node.h) /\ Clear(r.node, n)'
  BY <1>1 DEF DownMeets
<1>5. \A c \in Nodes : c.h \in Under(root) /\ disk[PathBelow(c)] # None =>
          disk'[PathBelow(c)] = disk[PathBelow(c)]
  BY DownChanges
<1>6. DownSays(n)
  BY <1>2, <1>5 DEF DownSays
<1>7. Range(todo') \subseteq Range(new) \cup Range(todo) /\ t \in Range(todo)
  <2> DEFINE G == Calls
  <2>1. todo \in Seq(G) /\ new \in Seq(G)
    OBVIOUS
  <2> HIDE DEF G
  <2> QED BY <2>1, CallsAre
<1>8. r \in Calls
  <2> DEFINE G == Calls
  <2>1. todo \in Seq(G) /\ new \in Seq(G)
    OBVIOUS
  <2> HIDE DEF G
  <2>2. r \in G
    BY <1>7, <2>1 DEF Range
  <2> QED BY <2>2 DEF G
<1>9. r.node \in Nodes /\ r.node.h \in Under(root) /\ r.node.h \in HandlesOf
  BY <1>8 DEF Calls, GoodTasks, HandlesOf
<1>10. Clear(r.node, n)
  <2> SUFFICES ASSUME NEW c \in Nodes, c.h \in Under(r.node.h), n.h \in Under(c.h), c # n
               PROVE  disk[PathBelow(c)] \in {None, "dir"}
    BY DEF Clear
  <2>1. disk'[PathBelow(c)] \in {None, "dir"}
    BY <1>1, <1>4 DEF Clear
  <2>2. c.h \in Under(root)
    BY <1>2, <1>9, UnderWithin
  <2> QED BY <1>5, <2>1, <2>2
<1>11. CASE r \in Range(todo)
  BY <1>4, <1>6, <1>10, <1>11 DEF DownMeets
<1>12. CASE r \in Range(new)
  <2> DEFINE m == t.node
             d == r.node
  <2>1. d.parent = m.h /\ disk[t.path] \in {None, "dir"}
    BY <1>12 DEF DownTold, Range
  <2>2. d.h \in Under(m.h) /\ m.h \in Under(m.h)
    BY <1>2, <1>3, <1>9, <2>1, UnderIs
  <2>3. n.h \in Under(m.h)
    BY <1>2, <1>3, <1>4, <2>2, UnderWithin
  <2>4. Clear(m, n)
    <3> SUFFICES ASSUME NEW c \in Nodes, c.h \in Under(m.h), n.h \in Under(c.h), c # n
                 PROVE  disk[PathBelow(c)] \in {None, "dir"}
      BY DEF Clear
    <3>1. CASE c.h = m.h
      <4>1. c = m
        BY <1>2, <1>3, <3>1, NodesApart
      <4> QED BY <1>3, <2>1, <4>1
    <3>2. CASE c.h # m.h
      <4>1. PICK e \in Nodes : e.parent = m.h /\ c.h \in Under(e.h)
        BY <1>2, <1>3, <3>2, UnderIs
      <4>2. n.h \in Under(e.h)
        BY <1>2, <4>1, UnderWithin DEF HandlesOf
      <4>3. e = d
        BY <1>2, <1>3, <1>4, <1>9, <2>1, <4>1, <4>2, NodesApart
      <4> QED BY <1>10, <4>1, <4>3 DEF Clear
    <3> QED BY <3>1, <3>2
  <2>5. DownMeets(Range(todo), n)
    BY <1>7, <2>3, <2>4 DEF DownMeets
  <2> QED BY <1>6, <2>5
<1> QED BY <1>4, <1>7, <1>11, <1>12

\* A step of a download keeps all the lines together, and the calls typed.
LEMMA DownLinesKept ==
  ASSUME PathsAssumption, Ground, PathsDiffer, None # "dir", root' = root, todo \in Seq(Calls),
         DownStep, ~broken', Kept
  PROVE  /\ said' \cup DownLines(Range(todo))' = said \cup DownLines(Range(todo))
         /\ Ground' /\ todo' \in Seq(Calls')
<1>1. fs' = fs /\ todo # << >>
  BY DEF DownStep, EnterDir, MakeDirFails, RefuseDir, GetFile, GetFails, RefuseFile
<1>2. PICK t : t = Head(todo)
  OBVIOUS
<1>3. t \in Calls
  <2> DEFINE G == Calls
  <2>1. todo \in Seq(G)
    OBVIOUS
  <2> HIDE DEF G
  <2>2. t \in G
    BY <1>1, <1>2, <2>1
  <2> QED BY <2>2 DEF G
<1>4. PICK new \in Seq(Calls) : todo' = new \o Tail(todo) /\ DownTold(t, new)
  BY <1>2, <1>3, DownTells
<1>5. \A n \in Nodes : DownSays(n) /\ DownMeets(Range(todo), n) =>
          DownLine(n) \in said' \/ (DownSays(n)' /\ DownMeets(Range(todo), n)')
  BY <1>1, <1>2, <1>3, <1>4, DownLinesLeft
<1>6. \A n \in Nodes : DownSays(n)' /\ DownMeets(Range(todo), n)' => DownSays(n) /\ DownMeets(Range(todo), n)
  BY <1>1, <1>2, <1>3, <1>4, DownLinesOnly
<1>7. Nodes' = Nodes /\ \A n : DownLine(n)' = DownLine(n)
  BY <1>1, SameTree DEF DownLine
<1>8. said \subseteq said' /\ said' \subseteq said \cup DownLines(Range(todo))
  <2> DEFINE m == t.node
  <2>1. m \in Nodes /\ m.h \in Under(root) /\ t.path = PathBelow(m) /\ m.h \in HandlesOf
        /\ Forest(fs) /\ root \in HandlesOf
    BY <1>3 DEF Calls, GoodTasks, HandlesOf, Ground
  <2>2. said' = said \/ (said' = said \cup {DownLine(m)} /\ disk[t.path] = None)
    BY <1>4 DEF DownTold
  <2>3. ASSUME disk[t.path] = None PROVE DownLine(m) \in DownLines(Range(todo))
    <3>1. DownSays(m)
      BY <2>1, <2>3 DEF DownSays
    <3>2. t \in Range(todo)
      <4> DEFINE G == Calls
      <4>1. todo \in Seq(G) /\ << >> \in Seq(G)
        OBVIOUS
      <4> HIDE DEF G
      <4> QED BY <1>1, <1>2, <4>1, CallsAre
    <3>3. m.h \in Under(m.h)
      BY <2>1, UnderIs
    <3>4. Clear(m, m)
      BY <2>1, NodesApart DEF Clear
    <3>5. DownMeets(Range(todo), m)
      BY <3>2, <3>3, <3>4 DEF DownMeets
    <3> HIDE DEF m
    <3> QED BY <2>1, <3>1, <3>5 DEF DownLines
  <2> QED BY <2>2, <2>3
<1>9. DownLines(Range(todo)) \subseteq said' \cup DownLines(Range(todo))'
  BY <1>5, <1>7 DEF DownLines
<1>10. DownLines(Range(todo))' \subseteq DownLines(Range(todo))
  BY <1>6, <1>7 DEF DownLines
<1>11. Ground'
  BY SettledStays
<1>12. todo' \in Seq(Calls')
  <2> DEFINE G == Calls
  <2>1. Calls' = G
    BY <1>1, SameTree DEF Calls
  <2>2. todo \in Seq(G) /\ new \in Seq(G)
    OBVIOUS
  <2> HIDE DEF G
  <2>3. todo' \in Seq(G)
    BY <1>1, <1>4, <2>2, CallsAre
  <2> QED BY <2>1, <2>3
<1> QED BY <1>8, <1>9, <1>10, <1>11, <1>12

-----------------------------------------------------------------------------
(* The invariant of the two runs.                                           *)

\* A run that goes on, or that came to its end.
Running == pc = "copy" \/ (pc = "done" /\ exit = 0)

\* What is said and what is left to say: all there is to be said of the two
\* directories in a dry run, what the dry run said in the run after it.
Told(left, all) ==
    /\ dry => said \cup left = all
    /\ ~dry => \A lines \in foretold : said \cup left = lines

UpTelling ==
    /\ pc = "again" => foretold = {UpAll}
    /\ Running => todo \in Seq(UpCalls) /\ There(<< >>) /\ Told(UpLines(Range(todo)), UpAll)

\* Both runs copy the same remote directory.
Rooted == root = Stat(fs, RemotePath).h

DownTelling ==
    /\ pc = "again" => Rooted /\ foretold = {DownAll}
    /\ Running => Rooted /\ Ground /\ todo \in Seq(Calls) /\ Told(DownLines(Range(todo)), DownAll)

TellInv ==
    ~broken /\ added = 0 =>
        /\ pc = "start" => said = {} /\ foretold = {}
        /\ pc = "again" => ~dry /\ said = {}
        /\ ~download => UpTelling
        /\ download /\ PathsDiffer => DownTelling

\* What there is to be said stays while the two directories do.
LEMMA UpAllStays ==
  ASSUME RemoteIs, fs' = fs, disk' = disk
  PROVE  /\ UpAll' = UpAll /\ UpCalls' = UpCalls /\ (There(<< >>)' <=> There(<< >>))
         /\ todo' = todo => UpLines(Range(todo))' = UpLines(Range(todo))
<1>1. \A q : (There(q)' <=> There(q)) /\ (FileAt(q)' <=> FileAt(q))
  BY SameList
<1>2. \A p, k : Onward(p, k)' <=> Onward(p, k)
  BY <1>1 DEF Onward
<1>3. \A p : (UpSays(p)' <=> UpSays(p)) /\ UpLine(p)' = UpLine(p)
  BY <1>1 DEF UpSays, UpLine
<1>4. UpAll' = UpAll
  BY <1>2, <1>3 DEF UpAll
<1>5. UpCalls' = UpCalls
  <2>1. UpTypes' = UpTypes
    BY DEF UpTypes
  <2> QED BY <2>1 DEF UpCalls, RPath
<1>6. ASSUME todo' = todo PROVE UpLines(Range(todo))' = UpLines(Range(todo))
  <2>1. \A p : UpMeets(Range(todo), p)' <=> UpMeets(Range(todo), p)
    BY <1>2, <1>6 DEF UpMeets
  <2> QED BY <1>3, <2>1 DEF UpLines
<1> QED BY <1>1, <1>4, <1>5, <1>6

LEMMA DownAllStays ==
  ASSUME fs' = fs, disk' = disk, root' = root
  PROVE  /\ DownAll' = DownAll /\ Calls' = Calls /\ (Rooted' <=> Rooted) /\ (Ground' <=> Ground)
         /\ todo' = todo => DownLines(Range(todo))' = DownLines(Range(todo))
<1>1. /\ Nodes' = Nodes /\ HandlesOf' = HandlesOf /\ (\A h : Under(h)' = Under(h))
      /\ (\A n : PathBelow(n)' = PathBelow(n)) /\ Calls' = Calls
  BY SameTree DEF Calls
<1>2. \A m, n : Clear(m, n)' <=> Clear(m, n)
  BY <1>1 DEF Clear
<1>3. \A n : (DownSays(n)' <=> DownSays(n)) /\ DownLine(n)' = DownLine(n)
  BY <1>1 DEF DownSays, DownLine
<1>4. DownAll' = DownAll
  BY <1>1, <1>2, <1>3 DEF DownAll
<1>5. Ground' <=> Ground
  BY <1>1 DEF Ground
<1>6. ASSUME todo' = todo PROVE DownLines(Range(todo))' = DownLines(Range(todo))
  <2>1. \A n : DownMeets(Range(todo), n)' <=> DownMeets(Range(todo), n)
    BY <1>1, <1>2, <1>6 DEF DownMeets
  <2> QED BY <1>1, <1>3, <2>1 DEF DownLines
<1> QED BY <1>1, <1>4, <1>5, <1>6 DEF Rooted

\* At first.
LEMMA TellInvInit == Init => TellInv
<1> SUFFICES ASSUME Init PROVE TellInv
  OBVIOUS
<1>1. pc = "start" /\ said = {} /\ foretold = {}
  BY DEF Init, InitFrom
<1> QED BY <1>1 DEF TellInv, UpTelling, DownTelling, Running

\* Where nothing happens that a run could tell of.
LEMMA TellStays ==
  ASSUME TellInv, RemoteIs, fs' = fs, disk' = disk, todo' = todo, said' = said, root' = root,
         foretold' = foretold, dry' = dry, download' = download, added' = added, broken' = broken,
         Running' => Running, pc' \in {"start", "again"} => pc' = pc
  PROVE  TellInv'
<1>1. /\ UpAll' = UpAll /\ UpCalls' = UpCalls /\ (There(<< >>)' <=> There(<< >>))
      /\ UpLines(Range(todo))' = UpLines(Range(todo))
  BY UpAllStays
<1>2. /\ DownAll' = DownAll /\ Calls' = Calls /\ (Rooted' <=> Rooted) /\ (Ground' <=> Ground)
      /\ DownLines(Range(todo))' = DownLines(Range(todo))
  BY DownAllStays
<1>3. PathsDiffer' <=> PathsDiffer
  BY DEF PathsDiffer, Nodes
<1>4. UpTelling => UpTelling'
  BY <1>1 DEF UpTelling, Told
<1>5. DownTelling => DownTelling'
  BY <1>2 DEF DownTelling, Told
<1> QED BY <1>3, <1>4, <1>5 DEF TellInv

\* A run begins: all is left to be said.
LEMMA TellStart ==
  ASSUME CopyAssumption, UploadAssumption, TellInv, DownloadInv, UpInv, Start, ~broken, added = 0
  PROVE  TellInv'
<1> SUFFICES ASSUME NEW n, n = Stat(fs, RemotePath), NEW t, t = Task(n, << >>, RemotePath)
             PROVE  TellInv'
  OBVIOUS
<1>1. /\ fs' = fs /\ disk' = disk /\ root' = n.h /\ todo' = <<t>> /\ pc' = "copy" /\ n # None /\ ~IsFile(n)
      /\ said' = said /\ foretold' = foretold /\ dry' = dry /\ download' = download
      /\ added' = added /\ broken' = broken /\ pc \in {"start", "again"}
  BY DEF Start
<1>2. said = {} /\ (pc = "start" => foretold = {}) /\ (pc = "again" => ~dry)
  BY <1>1 DEF TellInv
<1>3. RemoteIs /\ Forest(fs)
  BY DEF UpInv, RemoteIs
<1>4. t.node = n /\ t.path = << >> /\ t.rpath = RemotePath
  BY DEF Task
<1>5. << >> \in LocalPaths /\ RPath(<< >>) = RemotePath /\ RemotePath \in Seq(AllSymbols)
  BY RPathIs DEF UploadAssumption, DownSyncAssumption
<1>6. There(<< >>)
  BY <1>1, <1>5 DEF There
<1>7. n \in Nodes
  BY <1>3, <1>5, <1>6, ThereIs, NodesAre
<1>8. Range(<<t>>) = {t}
  BY DEF Range
<1>9. ASSUME ~download PROVE UpTelling'
  <2>1. UpAll' = UpAll /\ UpCalls' = UpCalls /\ There(<< >>)'
    BY <1>1, <1>3, <1>6, UpAllStays
  <2>2. t \in UpCalls
    <3>1. t \in UpTypes
      BY <1>5, <1>7, NodesAre DEF UpTypes, Task
    <3> QED BY <1>4, <1>5, <3>1 DEF UpCalls
  <2>3. todo' \in Seq(UpCalls')
    <3> DEFINE G == UpCalls
    <3>1. t \in G
      BY <2>2
    <3> HIDE DEF G
    <3>2. <<t>> \in Seq(G)
      BY <3>1
    <3> QED BY <1>1, <2>1, <3>2 DEF G
  <2>4. ASSUME NEW p \in LocalPaths PROVE UpMeets(Range(todo), p)' <=> Onward(p, 0)'
    <3>1. p \in Seq(LocalNames)
      BY DEF UploadAssumption
    <3>2. SubSeq(p, 1, 0) = << >> /\ 0 \in 0 .. Len(p) /\ \A k \in 0 .. Len(p) : SubSeq(p, 1, k) = << >> => k = 0
      BY <3>1
    <3>3. UpMeets(Range(todo), p)' <=> \E k \in 0 .. Len(p) : SubSeq(p, 1, k) = << >> /\ Onward(p, k)'
      BY <1>1, <1>4, <1>8 DEF UpMeets
    <3> QED BY <3>2, <3>3
  <2>5. UpLines(Range(todo))' = UpAll'
    BY <2>4 DEF UpLines, UpAll
  <2>6. pc = "again" => foretold = {UpAll}
    BY <1>9 DEF TellInv, UpTelling
  <2>7. Told(UpLines(Range(todo)), UpAll)'
    BY <1>1, <1>2, <2>1, <2>5, <2>6 DEF Told
  <2> QED BY <1>1, <2>1, <2>3, <2>7 DEF UpTelling
<1>10. ASSUME download, PathsDiffer PROVE DownTelling'
  <2>1. Walking'
    BY <1>10, StartBegins
  <2>2. Ground' /\ todo' \in Seq(Calls')
    BY <2>1 DEF Walking, Walk, Calls
  <2>3. Rooted'
    BY <1>1 DEF Rooted
  <2>4. Nodes' = Nodes
    BY <1>1 DEF Nodes
  <2>5. \A m \in Nodes : m.h = n.h => m = n
    BY <1>3, <1>7, NodesAre, NodeOfIs
  <2>6. ASSUME NEW c \in Nodes, DownSays(c)'
        PROVE  DownMeets(Range(todo), c)' <=> \A m \in Nodes : m.h = n.h => Clear(m, c)'
    <3>1. c.h \in Under(n.h)'
      BY <1>1, <2>6 DEF DownSays
    <3>2. DownMeets(Range(todo), c)' <=> c.h \in Under(n.h)' /\ Clear(n, c)'
      BY <1>1, <1>4, <1>8 DEF DownMeets
    <3> QED BY <1>7, <2>5, <3>1, <3>2
  <2>7. DownLines(Range(todo))' = DownAll'
    BY <1>1, <2>4, <2>6 DEF DownLines, DownAll
  <2>8. pc = "again" => foretold = {DownAll} /\ root' = root
    BY <1>1, <1>10 DEF TellInv, DownTelling, Rooted
  <2>9. pc = "again" => DownAll' = DownAll
    BY <1>1, <2>8, DownAllStays
  <2>10. Told(DownLines(Range(todo)), DownAll)'
    BY <1>1, <1>2, <2>7, <2>8, <2>9 DEF Told
  <2> QED BY <1>1, <2>2, <2>3, <2>10 DEF DownTelling
<1>11. PathsDiffer' <=> PathsDiffer
  BY <1>1 DEF PathsDiffer, Nodes
<1> QED BY <1>1, <1>9, <1>10, <1>11 DEF TellInv

\* The user runs the tool for real after a dry run.
LEMMA TellAgain ==
  ASSUME TellInv, DownloadInv, UpInv, Again
  PROVE  TellInv'
<1>1. /\ fs' = fs /\ disk' = disk /\ root' = root /\ todo' = todo /\ pc' = "again" /\ pc = "done" /\ dry /\ exit = 0
      /\ said' = {} /\ foretold' = {said} /\ dry' = FALSE /\ download' = download
      /\ added' = added /\ broken' = broken
  BY DEF Again
<1>2. todo = << >> /\ Running /\ ~Running'
  BY <1>1 DEF UpInv, Running
<1>3. Range(todo) = {}
  BY <1>2 DEF Range
<1>4. UpLines(Range(todo)) = {} /\ DownLines(Range(todo)) = {}
  BY <1>3 DEF UpLines, UpMeets, DownLines, DownMeets
<1>5. UpTelling => UpTelling'
  <2>1. UpAll' = UpAll
    BY <1>1, UpAllStays DEF UpInv
  <2> QED BY <1>1, <1>2, <1>4, <2>1 DEF UpTelling, Told
<1>6. DownTelling => DownTelling'
  <2>1. DownAll' = DownAll /\ (Rooted' <=> Rooted)
    BY <1>1, DownAllStays
  <2> QED BY <1>1, <1>2, <1>4, <2>1 DEF DownTelling, Told
<1>7. PathsDiffer' <=> PathsDiffer
  BY <1>1 DEF PathsDiffer, Nodes
<1> QED BY <1>1, <1>5, <1>6, <1>7 DEF TellInv

\* Then each step.
LEMMA TellInvStep ==
  ASSUME CopyAssumption, UploadAssumption, DownloadInv, UpInv, TellInv, [Next]_vars
  PROVE  TellInv'
<1>1. RemoteIs /\ added \in Nat /\ PathsAssumption /\ None # "dir"
  BY DEF UpInv, UploadAssumption, DownSyncAssumption
<1>2. CASE UNCHANGED vars
  <2>1. /\ fs' = fs /\ disk' = disk /\ todo' = todo /\ said' = said /\ root' = root /\ foretold' = foretold
        /\ dry' = dry /\ download' = download /\ added' = added /\ broken' = broken
        /\ pc' = pc /\ exit' = exit
    BY <1>2 DEF vars
  <2> QED BY <1>1, <2>1, TellStays DEF Running
<1>3. CASE Start
  <2>1. CASE ~broken /\ added = 0
    BY <1>3, <2>1, TellStart
  <2>2. CASE ~(~broken /\ added = 0)
    <3>1. broken' = broken /\ added' = added
      BY <1>3 DEF Start
    <3> QED BY <2>2, <3>1 DEF TellInv
  <2> QED BY <2>1, <2>2
<1>4. CASE StartFails
  <2>1. /\ fs' = fs /\ disk' = disk /\ todo' = todo /\ said' = said /\ root' = root /\ foretold' = foretold
        /\ dry' = dry /\ download' = download /\ added' = added /\ broken' = broken
        /\ pc' = "done" /\ exit' = 1
    BY <1>4 DEF StartFails
  <2>2. ~Running'
    BY <2>1 DEF Running
  <2> QED BY <1>1, <2>1, <2>2, TellStays
<1>5. CASE End
  <2>1. /\ fs' = fs /\ disk' = disk /\ todo' = todo /\ said' = said /\ root' = root /\ foretold' = foretold
        /\ dry' = dry /\ download' = download /\ added' = added /\ broken' = broken
        /\ pc' = "done" /\ pc = "copy"
    BY <1>5 DEF End
  <2> QED BY <1>1, <2>1, TellStays DEF Running
<1>6. CASE Again
  BY <1>6, TellAgain
<1>7. CASE UpAny
  <2>1. /\ disk' = disk /\ added' = added /\ download' = download /\ ~download /\ dry' = dry
        /\ foretold' = foretold /\ pc = "copy" /\ pc' = "copy"
        /\ (broken' = broken \/ broken' = TRUE)
    BY <1>7 DEF UpAny, UpDir, UpDirFails, UpDirCut, UpRefuse, Refuse, UpSkip, UpFile, UpFileFails, UpTurn
  <2>2. ASSUME ~broken', added' = 0 PROVE UpTelling'
    <3>1. ~broken /\ added = 0
      <4>1. broken' = broken \/ broken' = TRUE
        BY <2>1
      <4>2. ~broken
        BY <2>2, <4>1, Zenon
      <4> QED BY <2>1, <2>2, <4>2
    <3>2. todo \in Seq(UpCalls) /\ There(<< >>) /\ Told(UpLines(Range(todo)), UpAll)
      BY <2>1, <3>1 DEF TellInv, UpTelling, Running
    <3>3. IsTree(disk) /\ (~dry => UpWalk)
      BY <2>1, <3>1 DEF UpInv, Uploads
    <3>4. /\ said' \cup UpLines(Range(todo))' = said \cup UpLines(Range(todo))
          /\ todo' \in Seq(UpCalls') /\ There(<< >>)'
      BY <1>1, <1>7, <2>2, <3>2, <3>3, UpLinesKept
    <3>5. dry => UpAll' = UpAll
      <4>1. dry => fs' = fs
        BY <1>7 DEF UpAny, UpDir, MakeRemote, UpDirFails, UpDirCut, UpRefuse, UpSkip, UpFile, UpFileFails
      <4> QED BY <1>1, <2>1, <4>1, UpAllStays
    <3>6. Told(UpLines(Range(todo)), UpAll)'
      BY <2>1, <3>2, <3>4, <3>5 DEF Told
    <3> QED BY <2>1, <3>4, <3>6 DEF UpTelling
  <2> QED BY <2>1, <2>2 DEF TellInv
<1>8. CASE Down
  <2>1. /\ fs' = fs /\ added' = added /\ download' = download /\ download /\ dry' = dry /\ root' = root
        /\ foretold' = foretold /\ pc = "copy" /\ pc' = "copy" /\ DownStep
        /\ (broken' = broken \/ broken' = TRUE \/ \E n : broken' = (broken \/ IsFile(n)))
    BY <1>8 DEF Down, DownStep, EnterDir, MakeDirFails, RefuseDir, GetFile, GetFails, RefuseFile
  <2>2. PathsDiffer' <=> PathsDiffer
    BY <2>1 DEF PathsDiffer, Nodes
  <2>3. ASSUME ~broken', added' = 0, PathsDiffer PROVE DownTelling'
    <3>1. ~broken /\ added = 0
      <4>1. broken' = broken \/ broken' = TRUE \/ \E n : broken' = (broken \/ IsFile(n))
        BY <2>1
      <4>2. ~broken
        BY <2>3, <4>1, Zenon
      <4> QED BY <2>1, <2>3, <4>2
    <3>2. Rooted /\ Ground /\ todo \in Seq(Calls) /\ Told(DownLines(Range(todo)), DownAll)
      BY <2>1, <2>3, <3>1 DEF TellInv, DownTelling, Running
    <3>3. Kept
      <4>1. DownloadInv' /\ \A p \in LocalPaths : disk[p] # None => disk'[p] = disk[p]
        BY <1>8, DownloadInvStep DEF Next
      <4>2. failed \subseteq failed'
        BY <2>1 DEF DownStep, EnterDir, MakeDirFails, RefuseDir, Refuse, GetFile, GetFails, RefuseFile
      <4> QED BY <2>1, <4>1, <4>2 DEF Kept, DownloadInv, OnDisk
    <3>4. /\ said' \cup DownLines(Range(todo))' = said \cup DownLines(Range(todo))
          /\ Ground' /\ todo' \in Seq(Calls')
      BY <1>1, <2>1, <2>3, <3>2, <3>3, DownLinesKept
    <3>5. dry => DownAll' = DownAll
      BY <2>1, DryStep, DownAllStays
    <3>6. Told(DownLines(Range(todo)), DownAll)'
      BY <2>1, <3>2, <3>4, <3>5 DEF Told
    <3>7. Rooted'
      BY <2>1, <3>2 DEF Rooted
    <3> QED BY <2>1, <3>4, <3>6, <3>7 DEF DownTelling
  <2> QED BY <2>1, <2>2, <2>3 DEF TellInv
<1>9. CASE UserWrites
  <2>1. added' = added + 1 /\ added' # 0
    BY <1>1, <1>9 DEF UserWrites, UserAdds
  <2> QED BY <2>1 DEF TellInv
<1> QED BY <1>2, <1>3, <1>4, <1>5, <1>6, <1>7, <1>8, <1>9 DEF Next, UpAny

\* What the invariant says of the end of the second run.
LEMMA TellEnds ==
  ASSUME DownloadInv, UpInv, TellInv
  PROVE  DryRunTellsAll
<1> SUFFICES ASSUME pc = "done", exit = 0, ~dry, ~broken, added = 0,
                    download => PathsDiffer
             PROVE  \A lines \in foretold : said = lines
  BY DEF DryRunTellsAll
<1>1. todo = << >> /\ Running
  BY DEF UpInv, Running
<1>2. Range(todo) = {}
  BY <1>1 DEF Range
<1>3. UpLines(Range(todo)) = {} /\ DownLines(Range(todo)) = {}
  BY <1>2 DEF UpLines, UpMeets, DownLines, DownMeets
<1>4. ~download => UpTelling
  BY DEF TellInv
<1>5. download => DownTelling
  BY DEF TellInv
<1> QED BY <1>1, <1>3, <1>4, <1>5 DEF UpTelling, DownTelling, Told

\* A dry run foretells the run: the run that follows it says what it said, also
\* nothing after nothing, unless a call fails or the user changes the directory or
\* the run is a download of nodes that share a path; and it changes nothing itself.
THEOREM DryRunForetellsRun ==
  ASSUME CopyAssumption, UploadAssumption
  PROVE  Spec => DryRunForetells
<1> DEFINE Inv == DownloadInv /\ UpInv /\ TellInv
<1>1. Init => TellInv
  BY TellInvInit
<1>2. DownloadInv /\ UpInv /\ TellInv /\ [Next]_vars => TellInv'
  BY TellInvStep
<1>3. DownloadInv /\ UpInv /\ TellInv => DryRunTellsAll
  BY TellEnds
<1>4. Spec => []DownloadInv /\ []UpInv
  BY DownloadInvariant, UpInvariant
<1>5. Spec => [][DryRunChangesNothing]_vars
  BY DryRunIsDry
<1>6. Spec => []DryRunTellsAll
  BY <1>1, <1>2, <1>3, <1>4, PTL DEF Spec
<1>7. Spec => [][DryRunTellsAll' /\ DryRunChangesNothing]_vars
  BY <1>5, <1>6, PTL
<1> QED BY <1>7 DEF DryRunForetells
=============================================================================
