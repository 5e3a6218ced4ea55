--------------------------- MODULE NodeImportProofs ---------------------------
(***************************************************************************)
(* Proofs about NodeImport, for any answers of any length, any handles and *)
(* any number of refreshes.                                                *)
(***************************************************************************)
EXTENDS NodeImport, SequenceTheorems, WellFoundedInduction, TLAPS

-----------------------------------------------------------------------------
(* Induction over the natural numbers, about a set.                          *)

Less == OpToRel(<, Nat)

\* A set that holds 0 and with each number the next holds all of them.
LEMMA Induct ==
  ASSUME NEW T \in SUBSET Nat, 0 \in T, \A n \in T : n + 1 \in T
  PROVE  T = Nat
<1> DEFINE M == {n \in Nat : n \notin T}
<1>1. SUFFICES ASSUME M # {} PROVE FALSE
  OBVIOUS
<1>2. PICK m \in M : \A k \in M : <<k, m>> \notin Less
  <2>1. M \subseteq Nat
    OBVIOUS
  <2> HIDE DEF M
  <2>2. QED BY <1>1, <2>1, NatLessThanWellFounded, WFMin DEF Less
<1>3. m # 0 /\ m - 1 \in Nat
  BY <1>2
<1>4. <<m - 1, m>> \in Less
  BY <1>2, <1>3 DEF Less, OpToRel
<1>5. QED BY <1>2, <1>3, <1>4

-----------------------------------------------------------------------------
(* The loop over the parts of a key.                                         *)

Found == [part : Parts \cup {None}, key : KeyNames, stop : BOOLEAN]
NotFound == [part |-> None, key |-> None, stop |-> FALSE]

\* The loop of FoundKey after any number of turns up to n.
Turns(k, keys, n, found) ==
    /\ found \in [0 .. n -> Found] /\ found[0] = NotFound
    /\ \A i \in 1 .. n : found[i] = TakePart(keys, found[i - 1], k[i])

LEMMA NotFoundType == NotFound \in Found
BY DEF NotFound, Found, KeyNames

\* One turn of the loop keeps to the types.
LEMMA TakePartType ==
  ASSUME NEW keys \in [Handles -> ShareKeys], NEW found \in Found, NEW p \in Parts
  PROVE  TakePart(keys, found, p) \in Found
<1>1. Lookup(keys, p.owner) \in KeyNames
  BY DEF Lookup, Parts, KeyNames, ShareKeys
<1> DEFINE yes == TRUE
<1>2. yes \in BOOLEAN
  OBVIOUS
<1>3. [part |-> p, key |-> Me, stop |-> yes] \in Found
  <2> HIDE DEF yes
  <2>1. QED BY <1>2 DEF Found, KeyNames
<1>4. [found EXCEPT !.key = Lookup(keys, p.owner),
                    !.part = IF Lookup(keys, p.owner) # None THEN p ELSE @] \in Found
  BY <1>1 DEF Found
<1>5. QED BY <1>3, <1>4 DEF TakePart

\* There is such a run of the loop over any key.
LEMMA TurnsExist ==
  ASSUME NEW keys \in [Handles -> ShareKeys], NEW k \in Seq(Parts)
  PROVE  \E found : Turns(k, keys, Len(k), found)
<1> DEFINE T == {n \in Nat : n <= Len(k) => \E found : Turns(k, keys, n, found)}
<1>1. 0 \in T
  <2>1. Turns(k, keys, 0, [i \in 0 .. 0 |-> NotFound])
    BY NotFoundType DEF Turns
  <2>2. QED BY <2>1
<1>2. ASSUME NEW n \in T PROVE n + 1 \in T
  <2>1. SUFFICES ASSUME n + 1 <= Len(k) PROVE \E found : Turns(k, keys, n + 1, found)
    BY DEF T
  <2>2. n \in Nat /\ n <= Len(k)
    BY <2>1, LenProperties
  <2>3. PICK g : Turns(k, keys, n, g)
    BY <2>2
  <2> DEFINE last == TakePart(keys, g[n], k[n + 1])
  <2> DEFINE h == [i \in 0 .. n + 1 |-> IF i <= n THEN g[i] ELSE last]
  <2>4. last \in Found
    <3>1. g[n] \in Found /\ k[n + 1] \in Parts
      BY <2>1, <2>2, <2>3, ElementOfSeq DEF Turns
    <3>2. QED BY <3>1, TakePartType
  <2>5. h \in [0 .. n + 1 -> Found] /\ h[0] = NotFound
    <3> HIDE DEF last
    <3>1. QED BY <2>2, <2>3, <2>4 DEF Turns
  <2>6. ASSUME NEW i \in 1 .. n + 1 PROVE h[i] = TakePart(keys, h[i - 1], k[i])
    <3>1. CASE i = n + 1
      <4>1. h[i] = last /\ h[i - 1] = g[n]
        <5> HIDE DEF last
        <5>1. QED BY <2>2, <3>1
      <4>2. QED BY <3>1, <4>1
    <3>2. CASE i <= n
      <4>1. h[i] = g[i] /\ h[i - 1] = g[i - 1] /\ i \in 1 .. n
        <5> HIDE DEF last
        <5>1. QED BY <2>2, <3>2
      <4>2. QED BY <2>3, <4>1 DEF Turns
    <3>3. QED BY <2>2, <3>1, <3>2
  <2>7. Turns(k, keys, n + 1, h)
    <3> HIDE DEF h
    <3>1. QED BY <2>5, <2>6 DEF Turns
  <2>8. QED BY <2>7
<1>3. T = Nat
  <2>1. T \in SUBSET Nat
    OBVIOUS
  <2> HIDE DEF T
  <2>2. QED BY <1>1, <1>2, <2>1, Induct
<1>4. Len(k) \in T
  BY <1>3, LenProperties
<1>5. QED BY <1>4, LenProperties

\* FoundKey is what such a run ends with.
LEMMA FoundKeyIsLast ==
  ASSUME NEW keys \in [Handles -> ShareKeys], NEW entry \in Entries
  PROVE  \E found : /\ Turns(entry.k, keys, Len(entry.k), found)
                    /\ FoundKey(entry, keys) = found[Len(entry.k)]
<1> DEFINE k == entry.k
<1> DEFINE n == Len(k)
<1> DEFINE body(fn) == [i \in 0 .. n |-> IF i = 0 THEN NotFound
                                         ELSE TakePart(keys, fn[i - 1], k[i])]
<1> DEFINE all == CHOOSE fn : fn = body(fn)
<1>1. k \in Seq(Parts) /\ n \in Nat
  BY LenProperties DEF Entries
<1>2. PICK g : Turns(k, keys, n, g)
  BY <1>1, TurnsExist
<1>3. g = body(g)
  <2> DEFINE b == body(g)
  <2>1. DOMAIN g = 0 .. n /\ g = [i \in 0 .. n |-> g[i]]
    BY <1>2 DEF Turns
  <2>2. ASSUME NEW i \in 0 .. n PROVE g[i] = b[i]
    <3>1. CASE i = 0
      BY <1>2, <3>1 DEF Turns
    <3>2. CASE i # 0
      <4>1. i \in 1 .. n
        BY <1>1, <3>2
      <4>2. QED BY <1>2, <3>2, <4>1 DEF Turns
    <3>3. QED BY <3>1, <3>2
  <2>3. b = [i \in 0 .. n |-> b[i]]
    OBVIOUS
  <2> HIDE DEF b
  <2>4. g = b
    BY <2>1, <2>2, <2>3
  <2>5. QED BY <2>4 DEF b
<1>4. all = body(all)
  BY <1>3
<1>5. FoundKey(entry, keys) = all[n]
  BY DEF FoundKey, NotFound
<1> HIDE DEF all
<1>6. all[0] = NotFound /\ \A i \in 1 .. n : all[i] = TakePart(keys, all[i - 1], k[i])
  <2>1. ASSUME NEW i \in 0 .. n
        PROVE  all[i] = IF i = 0 THEN NotFound ELSE TakePart(keys, all[i - 1], k[i])
    BY <1>4, Zenon
  <2>2. QED BY <1>1, <2>1
<1>7. all \in [0 .. n -> Found]
  <2>1. DOMAIN all = 0 .. n /\ all = [i \in 0 .. n |-> all[i]]
    BY <1>4
  <2> DEFINE T == {i \in Nat : i <= n => all[i] \in Found}
  <2>2. 0 \in T
    BY <1>6, NotFoundType
  <2>3. ASSUME NEW i \in T PROVE i + 1 \in T
    <3>1. SUFFICES ASSUME i + 1 <= n PROVE all[i + 1] \in Found
      BY DEF T
    <3>2. /\ i + 1 \in 1 .. n /\ all[i + 1] = TakePart(keys, all[(i + 1) - 1], k[i + 1])
          /\ all[(i + 1) - 1] \in Found
      BY <1>1, <1>6, <3>1
    <3>3. k[i + 1] \in Parts
      BY <1>1, <3>2, ElementOfSeq
    <3>4. QED BY <3>2, <3>3, TakePartType
  <2>4. T = Nat
    <3>1. T \in SUBSET Nat
      OBVIOUS
    <3> HIDE DEF T
    <3>2. QED BY <2>2, <2>3, <3>1, Induct
  <2>5. \A i \in 0 .. n : all[i] \in Found
    BY <1>1, <2>4
  <2>6. QED BY <2>1, <2>5
<1>8. Turns(k, keys, n, all)
  BY <1>6, <1>7 DEF Turns
<1>9. QED BY <1>5, <1>8

\* What the loop knows after i turns: it stopped at a part for me, or else it
\* has met none, and has the last part if all parts so far are for known keys.
LEMMA LoopFinds ==
  ASSUME NEW keys \in [Handles -> ShareKeys], NEW k \in Seq(Parts),
         NEW found, Turns(k, keys, Len(k), found), NEW i \in 0 .. Len(k)
  PROVE  /\ found[i].stop =>
               /\ found[i].key = Me
               /\ found[i].part \in {k[j] : j \in DOMAIN k} /\ found[i].part.owner = Me
         /\ ~found[i].stop =>
               /\ ~exported => \A j \in 1 .. i : k[j].owner # Me
               /\ i > 0 /\ Lookup(keys, k[i].owner) # None =>
                     found[i].part = k[i] /\ found[i].key = Lookup(keys, k[i].owner)
<1> DEFINE n == Len(k)
<1> DEFINE P(m) ==
      /\ found[m].stop =>
            /\ found[m].key = Me
            /\ found[m].part \in {k[j] : j \in DOMAIN k} /\ found[m].part.owner = Me
      /\ ~found[m].stop =>
            /\ ~exported => \A j \in 1 .. m : k[j].owner # Me
            /\ m > 0 /\ Lookup(keys, k[m].owner) # None =>
                  found[m].part = k[m] /\ found[m].key = Lookup(keys, k[m].owner)
<1>1. n \in Nat /\ DOMAIN k = 1 .. n
  BY LenProperties
<1>2. P(0)
  BY DEF Turns, NotFound
<1>3. ASSUME NEW m \in Nat, m + 1 <= n, P(m) PROVE P(m + 1)
  <2>1. /\ m + 1 \in 1 .. n /\ m + 1 \in DOMAIN k /\ k[m + 1] \in Parts
        /\ found[m + 1] = TakePart(keys, found[m], k[m + 1])
        /\ found[m] \in Found /\ found[m + 1] \in Found
    <3>1. m + 1 \in 1 .. n /\ m \in 0 .. n /\ m + 1 \in 0 .. n /\ (m + 1) - 1 = m
      BY <1>1, <1>3
    <3>2. k[m + 1] \in Parts
      BY <1>1, <3>1, ElementOfSeq
    <3>3. QED BY <1>1, <3>1, <3>2 DEF Turns
  <2> DEFINE p == k[m + 1]
  <2> DEFINE here == found[m]
  <2>2. CASE here.stop
    BY <1>3, <2>1, <2>2 DEF TakePart
  <2>3. CASE ~here.stop /\ p.owner = Me /\ ~exported
    <3>1. found[m + 1] = [part |-> p, key |-> Me, stop |-> TRUE]
      BY <2>1, <2>3 DEF TakePart
    <3>2. found[m + 1].stop /\ found[m + 1].part = p /\ found[m + 1].key = Me
      BY <3>1
    <3>3. QED BY <2>1, <2>3, <3>2
  <2>4. CASE ~here.stop /\ ~(p.owner = Me /\ ~exported)
    <3>1. found[m + 1] = [here EXCEPT !.key = Lookup(keys, p.owner),
                                      !.part = IF Lookup(keys, p.owner) # None THEN p ELSE @]
      BY <2>1, <2>4 DEF TakePart
    <3>2. /\ found[m + 1].stop = here.stop /\ found[m + 1].key = Lookup(keys, p.owner)
          /\ Lookup(keys, p.owner) # None => found[m + 1].part = p
      BY <2>1, <3>1 DEF Found
    <3>3. ~exported => \A j \in 1 .. m + 1 : k[j].owner # Me
      <4>1. 1 .. m + 1 = (1 .. m) \cup {m + 1}
        BY <1>3
      <4>2. QED BY <1>3, <2>4, <4>1
    <3>4. QED BY <2>4, <3>2, <3>3
  <2>5. QED BY <2>2, <2>3, <2>4
<1> DEFINE T == {m \in Nat : m <= n => P(m)}
<1>4. T = Nat
  <2>1. T \in SUBSET Nat /\ 0 \in T
    BY <1>2
  <2>2. ASSUME NEW m \in T PROVE m + 1 \in T
    <3>1. m \in Nat /\ (m <= n => P(m))
      OBVIOUS
    <3> HIDE DEF P
    <3>2. QED BY <1>1, <1>3, <3>1
  <2> HIDE DEF T
  <2>3. QED BY <2>1, <2>2, Induct
<1> HIDE DEF P
<1>5. P(i)
  BY <1>1, <1>4
<1>6. QED BY <1>5 DEF P

\* Each share that is given its own key and no other has it.
KeysRight(keys) == \A h \in Handles : Given(h) = {h} => keys[h] = h

\* An entry the session can read is imported.
LEMMA ReadableIsAccepted ==
  ASSUME NEW keys \in [Handles -> ShareKeys], KeysRight(keys),
         NEW entry \in Entries, Readable(entry)
  PROVE  Accepted(entry, keys)
<1> DEFINE k == entry.k
<1> DEFINE n == Len(k)
<1>1. k \in Seq(Parts) /\ n \in Nat /\ n > 0 /\ DOMAIN k = 1 .. n /\ n \in 0 .. n
      /\ n \in DOMAIN k
  <2>1. k \in Seq(Parts) /\ k # << >>
    BY DEF Entries, Readable
  <2>2. QED BY <2>1, LenProperties, EmptySeq
<1>2. PICK found : /\ Turns(k, keys, n, found)
                   /\ FoundKey(entry, keys) = found[n]
  BY FoundKeyIsLast
<1> DEFINE last == found[n]
<1>3. last \in Found
  BY <1>1, <1>2 DEF Turns
<1>4. /\ last.stop =>
            /\ last.key = Me
            /\ last.part \in {k[j] : j \in DOMAIN k} /\ last.part.owner = Me
      /\ ~last.stop =>
            /\ ~exported => \A j \in 1 .. n : k[j].owner # Me
            /\ n > 0 /\ Lookup(keys, k[n].owner) # None =>
                  last.part = k[n] /\ last.key = Lookup(keys, k[n].owner)
  <2>1. Turns(k, keys, Len(k), found) /\ k \in Seq(Parts) /\ n \in 0 .. Len(k)
    BY <1>1, <1>2
  <2>2. QED BY <2>1, LoopFinds
<1>5. \A j \in DOMAIN k : k[j] \in Parts /\ ~k[j].rsa
  BY <1>1, ElementOfSeq DEF Readable
<1> HIDE DEF last, k, n
<1>6. CASE last.stop
  <2>1. last.part # None /\ ~last.part.rsa
    <3>1. PICK j \in DOMAIN k : last.part = k[j]
      BY <1>4, <1>6
    <3>2. None \notin Parts
      BY ImportAssumption
    <3>3. QED BY <1>5, <3>1, <3>2
  <2>2. QED BY <1>2, <1>4, <1>6, <2>1, ImportAssumption DEF Accepted, last
<1>7. CASE ~last.stop
  <2>1. k[n].owner \in Handles /\ Given(k[n].owner) = {k[n].owner}
    BY <1>1, <1>4, <1>7 DEF Readable, k
  <2>2. Lookup(keys, k[n].owner) = k[n].owner /\ k[n].owner # None
    BY <2>1, ImportAssumption DEF KeysRight, Lookup
  <2>3. last.part = k[n] /\ last.key = k[n].owner /\ last.key # None
    BY <1>1, <1>4, <1>7, <2>2
  <2>4. None \notin Parts
    BY ImportAssumption
  <2>5. QED BY <1>1, <1>2, <1>5, <2>3, <2>4 DEF Accepted, last
<1>8. QED BY <1>3, <1>6, <1>7 DEF Found

-----------------------------------------------------------------------------
(* The invariant.                                                            *)

ImportedNodes == [h : Handles, p : Handles \cup {None}, key : KeyNames, of : KeyNames]

TypeOK ==
    /\ exported \in BOOLEAN /\ f \in Seq(Entries)
    /\ ok \in [Handles -> OkEntries]
    /\ at \in (1 .. Len(f) + 1) \cup {None}
    /\ shareKeys \in [Handles -> ShareKeys]
    /\ imported \in Seq(ImportedNodes) /\ nodes \in Seq(ImportedNodes)
    /\ rounds \in 0 .. MaxRounds
    /\ at # None => rounds < MaxRounds
    /\ exported => \A i \in DOMAIN f : f[i].sk # f[i].h

\* An entry that gives its share a key.
Gives(entry, h) == entry.h = h /\ entry.k # << >> /\ entry.sk # None

\* What share_keys holds of a user's session: a key for each share that was given
\* one so far, and once a refresh has ended for each that is given one.
UserKeys ==
    \A h \in Handles :
        /\ at # None /\ Vouched(h) => shareKeys[h] # None
        /\ at # None => \A i \in 1 .. at - 1 : Gives(f[i], h) => shareKeys[h] # None
        /\ rounds > 0 /\ Given(h) # {} => shareKeys[h] # None

\* The keys a share is given will all have been met: a link's when the first
\* entry was seen, a user's after the first refresh.
Settled == rounds > 0 \/ (exported /\ at # None)

\* No readable entry that was read with settled keys is missing.
NoneSkipped ==
    at # None /\ Settled =>
        \A i \in 1 .. at - 1 : Readable(f[i]) => f[i].h \in HandlesOf(imported)

IInv ==
    /\ TypeOK /\ NoForgedKey /\ (~exported => UserKeys)
    /\ exported /\ Settled /\ f # << >> => shareKeys[f[1].h] # None
    /\ NoneSkipped /\ Complete

LEMMA IInvInit == Init => IInv
<1> SUFFICES ASSUME Init PROVE IInv
  OBVIOUS
<1>1. PICK answer \in Answers : InitFrom(answer)
  BY DEF Init
<1>2. /\ f = answer.f /\ exported = answer.exported /\ ok = answer.ok /\ at = None
      /\ shareKeys = [h \in Handles |-> None] /\ imported = << >> /\ nodes = << >> /\ rounds = 0
  BY <1>1 DEF InitFrom
<1>3. TypeOK
  <2>1. /\ answer.exported \in BOOLEAN /\ answer.f \in Seq(Entries) /\ answer.ok \in [Handles -> OkEntries]
        /\ answer.exported => \A i \in DOMAIN answer.f : answer.f[i].sk # answer.f[i].h
    BY ImportAssumption
  <2>2. QED BY <1>2, <2>1, ImportAssumption, EmptySeq DEF TypeOK, ShareKeys
<1>4. QED BY <1>2, <1>3 DEF IInv, NoForgedKey, UserKeys, Settled, NoneSkipped, Complete

\* What a share is given and what can be read depend on the answer alone.
LEMMA SameAnswer ==
  ASSUME UNCHANGED <<exported, f, ok>>
  PROVE  /\ \A h : Given(h)' = Given(h) /\ (Vouched(h)' <=> Vouched(h))
         /\ \A entry : Readable(entry)' <=> Readable(entry)
<1>1. \A h : Given(h)' = Given(h) /\ (Vouched(h)' <=> Vouched(h))
  BY DEF Given, Vouched
<1>2. QED BY <1>1 DEF Readable

\* Once every share that is given a key has one, each that is given its own only
\* has that: the answer for a folder gives that of the first entry only.
LEMMA SettledRight ==
  ASSUME TypeOK, NEW keys, \A h \in Handles : keys[h] \in Given(h) \cup {None},
         \A h \in Handles : ~exported /\ Given(h) # {} => keys[h] # None,
         exported /\ f # << >> => keys[f[1].h] # None
  PROVE  KeysRight(keys)
<1> SUFFICES ASSUME NEW h \in Handles, Given(h) = {h} PROVE keys[h] = h
  BY DEF KeysRight
<1>1. keys[h] # None
  <2>1. CASE ~exported
    BY <2>1
  <2>2. CASE exported
    <3>1. \A i \in DOMAIN f : f[i].sk # f[i].h
      BY <2>2 DEF TypeOK
    <3>2. f # << >> /\ f[1].h = h
      BY <2>2, <3>1 DEF Given
    <3>3. QED BY <2>2, <3>2
  <2>3. QED BY <2>1, <2>2
<1>2. QED BY <1>1

LEMMA OkKeysType ==
  ASSUME IInv
  PROVE  /\ OkKeys \in [Handles -> ShareKeys]
         /\ \A h \in Handles : OkKeys[h] = IF Vouched(h) THEN ok[h].k ELSE shareKeys[h]
         /\ \A h \in Handles : ~exported => OkKeys[h] \in Given(h) \cup {None}
<1>1. \A h \in Handles : ok[h].k \in ShareKeys
  BY DEF IInv, TypeOK, OkEntries
<1>2. \A h \in Handles : OkKeys[h] = IF Vouched(h) THEN ok[h].k ELSE shareKeys[h]
  BY DEF OkKeys
<1>3. OkKeys \in [Handles -> ShareKeys]
  BY <1>1 DEF OkKeys, IInv, TypeOK
<1>4. ASSUME NEW h \in Handles, ~exported PROVE OkKeys[h] \in Given(h) \cup {None}
  <2>1. CASE Vouched(h)
    BY <1>1, <1>2, <1>4, <2>1 DEF Vouched, Given
  <2>2. CASE ~Vouched(h)
    BY <1>2, <2>2 DEF IInv, NoForgedKey
  <2>3. QED BY <2>1, <2>2
<1>5. QED BY <1>2, <1>3, <1>4

LEMMA BeginStep == ASSUME IInv, Begin PROVE IInv'
<1>1. /\ at = None /\ rounds < MaxRounds /\ at' = 1 /\ imported' = << >>
      /\ UNCHANGED <<exported, f, ok, rounds>>
      /\ nodes' \in {nodes, << >>} /\ at' # None
  BY ImportAssumption DEF Begin
<1>2. /\ exported => shareKeys' =
            [h \in Handles |-> IF f # << >> /\ h = f[1].h THEN h ELSE None]
      /\ ~exported => shareKeys' = OkKeys
  BY DEF Begin
<1>3. /\ shareKeys' \in [Handles -> ShareKeys]
      /\ \A h \in Handles : shareKeys'[h] \in Given(h) \cup {None}
  <2>1. CASE exported
    <3>1. shareKeys' \in [Handles -> ShareKeys]
      BY <1>2, <2>1 DEF ShareKeys
    <3>2. ASSUME NEW h \in Handles, f # << >>, h = f[1].h PROVE h \in Given(h)
      BY <2>1, <3>2, ImportAssumption DEF Given, ShareKeys
    <3>3. QED BY <1>2, <2>1, <3>1, <3>2
  <2>2. CASE ~exported
    BY <1>2, <2>2, OkKeysType
  <2>3. QED BY <2>1, <2>2
<1>4. TypeOK'
  <2>1. 1 \in 1 .. Len(f) + 1
    BY LenProperties DEF IInv, TypeOK
  <2>2. QED BY <1>1, <1>3, <2>1, EmptySeq DEF IInv, TypeOK
<1>5. ~exported => UserKeys'
  <2>1. SUFFICES ASSUME ~exported, NEW h \in Handles
                 PROVE  /\ Vouched(h) => shareKeys'[h] # None
                        /\ rounds > 0 /\ Given(h) # {} => shareKeys'[h] # None
    BY <1>1, SameAnswer DEF UserKeys
  <2>2. shareKeys'[h] = IF Vouched(h) THEN ok[h].k ELSE shareKeys[h]
    BY <1>2, <2>1, OkKeysType
  <2>3. QED BY <2>1, <2>2 DEF IInv, UserKeys, Vouched
<1>6. NoForgedKey'
  BY <1>1, <1>3, SameAnswer DEF NoForgedKey
<1>7. (exported /\ Settled /\ f # << >> => shareKeys[f[1].h] # None)'
  <2>1. SUFFICES ASSUME exported, f # << >> PROVE shareKeys'[f[1].h] # None
    BY <1>1
  <2>2. f[1] \in Entries
    <3>1. f \in Seq(Entries)
      BY DEF IInv, TypeOK
    <3>2. 1 \in 1 .. Len(f)
      BY <2>1, <3>1, EmptySeq, LenProperties
    <3>3. QED BY <3>1, <3>2, ElementOfSeq
  <2>3. QED BY <1>2, <2>1, <2>2, ImportAssumption DEF Entries
<1>8. NoneSkipped' /\ Complete'
  BY <1>1 DEF NoneSkipped, Complete
<1>9. QED BY <1>1, <1>4, <1>5, <1>6, <1>7, <1>8 DEF IInv

LEMMA RefreshFailsStep == ASSUME IInv, RefreshFails PROVE IInv'
<1>1. /\ at = None /\ ~exported /\ shareKeys' = OkKeys
      /\ UNCHANGED <<exported, f, ok, at, imported, nodes, rounds>>
  BY DEF RefreshFails
<1>2. TypeOK' /\ NoForgedKey'
  BY <1>1, OkKeysType, SameAnswer DEF IInv, TypeOK, NoForgedKey
<1>3. UserKeys'
  <2>1. SUFFICES ASSUME NEW h \in Handles
                 PROVE  rounds > 0 /\ Given(h) # {} => shareKeys'[h] # None
    BY <1>1, SameAnswer DEF UserKeys
  <2>2. shareKeys'[h] = IF Vouched(h) THEN ok[h].k ELSE shareKeys[h]
    BY <1>1, OkKeysType
  <2>3. QED BY <1>1, <2>2 DEF IInv, UserKeys, Vouched
<1>4. Complete'
  BY <1>1, SameAnswer DEF IInv, Complete, HandlesOf
<1>5. QED BY <1>1, <1>2, <1>3, <1>4 DEF IInv, NoneSkipped

LEMMA OpenFolderFailsStep == ASSUME IInv, OpenFolderFails PROVE IInv'
<1>1. /\ at = None /\ exported /\ shareKeys' = [h \in Handles |-> None]
      /\ nodes' = << >> /\ rounds' = 0 /\ UNCHANGED <<exported, f, ok, at, imported>>
  BY DEF OpenFolderFails
<1>2. TypeOK'
  BY <1>1, ImportAssumption, EmptySeq DEF IInv, TypeOK, ShareKeys
<1>3. NoForgedKey'
  BY <1>1 DEF NoForgedKey
<1>4. ~Settled' /\ NoneSkipped' /\ Complete'
  BY <1>1 DEF Settled, NoneSkipped, Complete
<1>5. QED BY <1>1, <1>2, <1>3, <1>4 DEF IInv

\* The list with one node more.
LEMMA HandlesOfAppend ==
  ASSUME NEW list \in Seq(ImportedNodes), NEW n \in ImportedNodes
  PROVE  /\ Append(list, n) \in Seq(ImportedNodes)
         /\ HandlesOf(list) \subseteq HandlesOf(Append(list, n))
         /\ n.h \in HandlesOf(Append(list, n))
<1> DEFINE new == Append(list, n)
<1>1. /\ new \in Seq(ImportedNodes) /\ Len(new) = Len(list) + 1 /\ Len(list) \in Nat
      /\ DOMAIN list = 1 .. Len(list) /\ DOMAIN new = 1 .. Len(list) + 1
      /\ new[Len(list) + 1] = n /\ \A i \in 1 .. Len(list) : new[i] = list[i]
  BY AppendProperties, LenProperties
<1> HIDE DEF new
<1>2. HandlesOf(list) \subseteq HandlesOf(new)
  <2>1. ASSUME NEW i \in DOMAIN list PROVE list[i].h \in HandlesOf(new)
    <3>1. i \in DOMAIN new /\ new[i] = list[i]
      BY <1>1
    <3>2. QED BY <3>1 DEF HandlesOf
  <2>2. QED BY <2>1 DEF HandlesOf
<1>3. n.h \in HandlesOf(new)
  <2>1. Len(list) + 1 \in DOMAIN new
    BY <1>1
  <2>2. QED BY <1>1, <2>1 DEF HandlesOf
<1>4. QED BY <1>1, <1>2, <1>3 DEF new

\* What is imported of an entry.
LEMMA NodeType ==
  ASSUME NEW keys \in [Handles -> ShareKeys], NEW entry \in Entries,
         Accepted(entry, keys)
  PROVE  Node(entry, keys) \in ImportedNodes /\ Node(entry, keys).h = entry.h
<1>1. PICK found : /\ Turns(entry.k, keys, Len(entry.k), found)
                   /\ FoundKey(entry, keys) = found[Len(entry.k)]
  BY FoundKeyIsLast
<1>2. Len(entry.k) \in 0 .. Len(entry.k)
  BY LenProperties DEF Entries
<1>3. FoundKey(entry, keys) \in Found
  BY <1>1, <1>2 DEF Turns
<1>4. FoundKey(entry, keys).part \in Parts /\ FoundKey(entry, keys).key \in KeyNames
  BY <1>3 DEF Accepted, Found
<1>5. FoundKey(entry, keys).part.owner \in KeyNames
  BY <1>4 DEF Parts, KeyNames
<1>6. QED BY <1>4, <1>5 DEF Node, ImportedNodes, Entries

LEMMA ImportStep == ASSUME IInv, Import PROVE IInv'
<1> DEFINE entry == IF exported /\ at = 1 THEN [f[at] EXCEPT !.p = None] ELSE f[at]
<1> DEFINE keys == WithShareKey(entry, shareKeys)
<1>1. /\ at # None /\ at <= Len(f) /\ shareKeys' = keys /\ at' = at + 1
      /\ imported' = IF Accepted(entry, keys) THEN Append(imported, Node(entry, keys))
                     ELSE imported
      /\ UNCHANGED <<exported, f, ok, nodes, rounds>>
  BY DEF Import
<1>2. /\ at \in DOMAIN f /\ at \in 1 .. Len(f) /\ f[at] \in Entries /\ Len(f) \in Nat
      /\ DOMAIN f = 1 .. Len(f)
  <2>1. Len(f) \in Nat /\ DOMAIN f = 1 .. Len(f) /\ at \in 1 .. Len(f)
    BY <1>1, LenProperties DEF IInv, TypeOK
  <2>2. QED BY <2>1, ElementOfSeq DEF IInv, TypeOK
<1>3. /\ entry \in Entries /\ entry.h = f[at].h /\ entry.k = f[at].k /\ entry.sk = f[at].sk
      /\ entry.h \in Handles
  BY <1>2 DEF Entries
<1>4. keys = WithShareKey(f[at], shareKeys)
  BY <1>3 DEF WithShareKey
<1> HIDE DEF entry
<1>5. keys \in [Handles -> ShareKeys] /\ \A h \in Handles : keys[h] \in Given(h) \cup {None}
  <2>1. f[at].sk \in ShareKeys /\ f[at].h \in Handles /\ shareKeys \in [Handles -> ShareKeys]
    BY <1>2 DEF Entries, IInv, TypeOK
  <2>2. CASE f[at].k # << >> /\ f[at].sk # None
    <3>1. keys = [shareKeys EXCEPT ![f[at].h] = f[at].sk]
      BY <1>4, <2>2 DEF WithShareKey
    <3>2. f[at].sk \in Given(f[at].h)
      BY <1>2, <2>1, <2>2 DEF Given
    <3> HIDE DEF keys
    <3>3. QED BY <2>1, <3>1, <3>2 DEF IInv, NoForgedKey
  <2>3. CASE ~(f[at].k # << >> /\ f[at].sk # None)
    <3>1. keys = shareKeys
      BY <1>4, <2>3 DEF WithShareKey
    <3> HIDE DEF keys
    <3>2. QED BY <2>1, <3>1 DEF IInv, NoForgedKey
  <2>4. QED BY <2>2, <2>3
<1>6. /\ \A h \in Handles : shareKeys[h] # None => keys[h] # None
      /\ \A h \in Handles : Gives(f[at], h) => keys[h] # None
  BY <1>3, <1>4 DEF WithShareKey, Gives, IInv, TypeOK
<1> HIDE DEF keys
<1>7. /\ imported' \in Seq(ImportedNodes) /\ HandlesOf(imported) \subseteq HandlesOf(imported')
      /\ Accepted(entry, keys) => f[at].h \in HandlesOf(imported')
  <2>1. CASE Accepted(entry, keys)
    <3>1. Node(entry, keys) \in ImportedNodes /\ Node(entry, keys).h = f[at].h
      BY <1>3, <1>5, <2>1, NodeType
    <3>2. PICK n \in ImportedNodes : n = Node(entry, keys)
      BY <3>1
    <3>3. PICK list \in Seq(ImportedNodes) : list = imported
      BY DEF IInv, TypeOK
    <3>4. imported' = Append(list, n) /\ n.h = f[at].h
      BY <1>1, <2>1, <3>1, <3>2, <3>3
    <3>5. HandlesOf(imported) = HandlesOf(list) /\ HandlesOf(imported') = HandlesOf(Append(list, n))
      BY <3>3, <3>4 DEF HandlesOf
    <3>6. QED BY <3>4, <3>5, HandlesOfAppend
  <2>2. CASE ~Accepted(entry, keys)
    BY <1>1, <2>2 DEF IInv, TypeOK
  <2>3. QED BY <2>1, <2>2
<1>8. at' \in 1 .. Len(f) + 1 /\ at' # None /\ 1 .. at' - 1 = (1 .. at - 1) \cup {at}
  BY <1>1, <1>2, ImportAssumption
<1>9. TypeOK' /\ NoForgedKey'
  BY <1>1, <1>5, <1>7, <1>8, SameAnswer DEF IInv, TypeOK, NoForgedKey
<1>10. ~exported => UserKeys'
  <2>1. SUFFICES ASSUME ~exported, NEW h \in Handles
                 PROVE  /\ Vouched(h) => keys[h] # None
                        /\ \A i \in 1 .. at' - 1 : Gives(f[i], h) => keys[h] # None
                        /\ rounds > 0 /\ Given(h) # {} => keys[h] # None
    BY <1>1, <1>8, SameAnswer DEF UserKeys
  <2>2. QED BY <1>1, <1>2, <1>6, <1>8, <2>1 DEF IInv, UserKeys
<1>11. Settled' => Settled
  BY <1>1 DEF Settled
<1>12. ASSUME Settled PROVE KeysRight(keys) /\ (exported /\ f # << >> => keys[f[1].h] # None)
  <2>1. exported /\ f # << >> => keys[f[1].h] # None
    <3>1. f[1].h \in Handles
      <4>1. f \in Seq(Entries) /\ 1 \in 1 .. Len(f)
        BY <1>2 DEF IInv, TypeOK
      <4>2. f[1] \in Entries
        BY <4>1, ElementOfSeq
      <4>3. QED BY <4>2 DEF Entries
    <3>2. QED BY <1>6, <1>12, <3>1 DEF IInv
  <2>2. \A h \in Handles : ~exported /\ Given(h) # {} => keys[h] # None
    BY <1>6, <1>12 DEF IInv, UserKeys, Settled
  <2>3. QED BY <1>5, <2>1, <2>2, SettledRight DEF IInv
<1>13. (exported /\ Settled /\ f # << >> => shareKeys[f[1].h] # None)'
  BY <1>1, <1>11, <1>12
<1>14. NoneSkipped'
  <2>1. SUFFICES ASSUME Settled, NEW i \in 1 .. at' - 1, Readable(f[i])
                 PROVE  f[i].h \in HandlesOf(imported')
    BY <1>1, <1>11, SameAnswer DEF NoneSkipped
  <2>2. CASE i = at
    <3>1. Readable(entry)
      BY <1>3, <2>1, <2>2 DEF Readable
    <3>2. Accepted(entry, keys)
      BY <1>3, <1>5, <1>12, <2>1, <3>1, ReadableIsAccepted
    <3>3. QED BY <1>7, <2>2, <3>2
  <2>3. CASE i \in 1 .. at - 1
    BY <1>1, <1>7, <2>1, <2>3 DEF IInv, NoneSkipped
  <2>4. QED BY <1>8, <2>1, <2>2, <2>3
<1>15. Complete'
  BY <1>8 DEF Complete
<1>16. QED BY <1>1, <1>9, <1>10, <1>13, <1>14, <1>15 DEF IInv

LEMMA EndStep == ASSUME IInv, End PROVE IInv'
<1>1. /\ at # None /\ at > Len(f) /\ nodes' = imported /\ at' = None /\ rounds' = rounds + 1
      /\ UNCHANGED <<exported, f, ok, shareKeys, imported>>
  BY DEF End
<1>2. at = Len(f) + 1 /\ DOMAIN f = 1 .. at - 1 /\ at - 1 = Len(f)
  <2>1. Len(f) \in Nat /\ DOMAIN f = 1 .. Len(f)
    BY LenProperties DEF IInv, TypeOK
  <2>2. QED BY <1>1, <2>1 DEF IInv, TypeOK
<1>3. rounds + 1 \in 1 .. MaxRounds
  BY <1>1, ImportAssumption DEF IInv, TypeOK
<1>4. TypeOK' /\ NoForgedKey'
  BY <1>1, <1>3, ImportAssumption, SameAnswer DEF IInv, TypeOK, NoForgedKey
<1>5. ~exported => UserKeys'
  <2>1. SUFFICES ASSUME ~exported, NEW h \in Handles, Given(h) # {}
                 PROVE  shareKeys[h] # None
    BY <1>1, SameAnswer DEF UserKeys
  <2>2. Vouched(h) \/ \E i \in 1 .. at - 1 : Gives(f[i], h)
    BY <1>2, <2>1 DEF Given, Vouched, Gives
  <2>3. QED BY <1>1, <2>1, <2>2 DEF IInv, UserKeys
<1>6. exported => Settled
  BY <1>1 DEF Settled
<1>7. Complete'
  <2>1. SUFFICES ASSUME rounds + 1 >= IF exported THEN 1 ELSE 2, NEW i \in DOMAIN f,
                        Readable(f[i])
                 PROVE  f[i].h \in HandlesOf(imported)
    BY <1>1, SameAnswer DEF Complete, HandlesOf
  <2>2. Settled
    BY <1>3, <1>6, <2>1 DEF Settled, IInv, TypeOK
  <2>3. QED BY <1>1, <1>2, <2>1, <2>2 DEF IInv, NoneSkipped
<1>8. NoneSkipped'
  BY <1>1 DEF NoneSkipped
<1>9. QED BY <1>1, <1>4, <1>5, <1>6, <1>7, <1>8 DEF IInv

LEMMA IInvStep == ASSUME IInv, [Next]_vars PROVE IInv'
<1>1. CASE UNCHANGED vars
  BY <1>1, SameAnswer DEF vars, IInv, TypeOK, NoForgedKey, UserKeys, Settled, NoneSkipped, Complete,
              HandlesOf
<1>2. QED BY <1>1, BeginStep, ImportStep, EndStep, RefreshFailsStep, OpenFolderFailsStep DEF Next

\* Types, for answers of any length.
THEOREM TypeCorrect == Spec => []TypeOK
<1>1. IInv => TypeOK
  BY DEF IInv
<1>2. IInv /\ [Next]_vars => IInv'
  BY IInvStep
<1>3. QED BY IInvInit, <1>1, <1>2, PTL DEF Spec

\* A share key comes from an 'ok' entry handle_auth accepts, with an entry of the
\* share itself that is not skipped, or from the link, whatever answers come and
\* however often they fail.
THEOREM KeysAreGenuine == Spec => []NoForgedKey
<1>1. IInv => NoForgedKey
  BY DEF IInv
<1>2. IInv /\ [Next]_vars => IInv'
  BY IInvStep
<1>3. QED BY IInvInit, <1>1, <1>2, PTL DEF Spec

\* After two refreshes every node the session can read is in the list, in
\* whatever order the answer has them; of a link's folder, after one.  A wrong
\* share key among the right ones keeps no node of another share out of it.
THEOREM NothingReadableIsMissing == Spec => []Complete
<1>1. IInv => Complete
  BY DEF IInv
<1>2. IInv /\ [Next]_vars => IInv'
  BY IInvStep
<1>3. QED BY IInvInit, <1>1, <1>2, PTL DEF Spec
=============================================================================
