-------------------------- MODULE SessionFsProofs --------------------------
(***************************************************************************)
(* Proofs about SessionFs, for any handles, names and contacts, any length *)
(* of the node list and any number of runs of a command.                   *)
(***************************************************************************)
EXTENDS SessionFs, SequenceTheorems, FiniteSetTheorems, WellFoundedInduction, TLAPS

-----------------------------------------------------------------------------
(* Natural numbers: the least of a set, and induction.                       *)

Less == OpToRel(<, Nat)

\* A set of natural numbers that is not empty has a least element.
LEMMA LeastOf ==
  ASSUME NEW T, T \subseteq Nat, T # {}
  PROVE  \E m \in T : \A k \in T : m <= k
<1>1. PICK m \in T : \A k \in T : <<k, m>> \notin Less
  BY NatLessThanWellFounded, WFMin DEF Less
<1>2. \A x, y \in Nat : x < y => <<x, y>> \in Less
  BY DEF Less, OpToRel
<1>3. ASSUME NEW k \in T PROVE m <= k
  <2>1. m \in Nat /\ k \in Nat
    OBVIOUS
  <2>2. ~(k < m)
    BY <1>1, <1>2, <2>1
  <2>3. QED BY <2>1, <2>2
<1>4. QED BY <1>3

-----------------------------------------------------------------------------
(* The node list.                                                            *)

Node == [handle : AnyHandle, name : Names \cup Users \cup {"Root", "Inbox", "Contacts"},
         type : NodeTypes, mine : BOOLEAN,
         parentHandle : AnyHandle \cup {None}, parent : AnyHandle \cup {None}]

SystemTypes == {"ROOT", "INBOX", "NETWORK"}

\* What mega_node_parse, mega_node_parse_user and mega_session_refresh make:
\* the type tells what the handle is one of, and only files and folders hang
\* below a folder.
GoodNode ==
    {n \in Node :
        /\ n.type = "CONTACT" <=> n.handle \in Users
        /\ n.type \in {"FILE", "FOLDER"} <=> n.handle \in Handles
        /\ n.type = "ROOT" <=> n.handle = Root
        /\ n.type = "CONTACT" => n.name = n.handle
        /\ n.type \in SystemTypes => n.parentHandle = None
        /\ n.type \in SystemTypes \cup {"CONTACT"} => n.parent = None
        /\ n.type \in {"FILE", "FOLDER"} => n.parentHandle \in Handles \cup {Root}}

Current(list) == \A i \in DOMAIN list : list[i].parent = NewParent(list, list[i])

Unique(list) ==
    \A i, j \in DOMAIN list :
        list[i].handle = list[j].handle /\ i # j => list[i].type = "CONTACT"

\* Four system handles, none of a file or a contact.
LEMMA SystemHandles ==
  /\ Root # Inbox /\ Root # Network /\ Inbox # Network
  /\ None \notin AnyHandle
<1>1. \A a, b, c : Cardinality({a, b, c}) \in Nat /\ Cardinality({a, b, c}) <= 3
  <2>1. TAKE a, b, c
  <2>2. IsFiniteSet({a}) /\ Cardinality({a}) = 1
    BY FS_Singleton
  <2>3. IsFiniteSet({a} \cup {b}) /\ Cardinality({a} \cup {b}) <= 2
        /\ Cardinality({a} \cup {b}) \in Nat
    BY <2>2, FS_AddElement
  <2> DEFINE ab == {a} \cup {b}
  <2>4. IsFiniteSet(ab) /\ Cardinality(ab) <= 2 /\ Cardinality(ab) \in Nat
    BY <2>3
  <2>5. {a, b, c} = ab \cup {c}
    OBVIOUS
  <2> HIDE DEF ab
  <2>6. Cardinality(ab \cup {c}) <= 3 /\ Cardinality(ab \cup {c}) \in Nat
    BY <2>4, FS_AddElement
  <2>7. QED BY <2>5, <2>6
<1>2. \A a, b, c : {Root, Inbox, Network, None} # {a, b, c}
  <2>1. ASSUME NEW a, NEW b, NEW c, {Root, Inbox, Network, None} = {a, b, c}
        PROVE  FALSE
    <3>1. Cardinality({a, b, c}) = 4
      BY <2>1, FsAssumption
    <3> DEFINE k == Cardinality({a, b, c})
    <3>2. k \in Nat /\ k <= 3
      BY <1>1, Zenon
    <3>3. k = 4
      BY <3>1
    <3> HIDE DEF k
    <3>4. QED BY <3>2, <3>3
  <2>2. QED BY <2>1, Zenon
<1>3. Root # Inbox
  <2>1. Root = Inbox => {Root, Inbox, Network, None} = {Inbox, Network, None}
    OBVIOUS
  <2>2. QED BY <1>2, <2>1, Zenon
<1>4. Root # Network
  <2>1. Root = Network => {Root, Inbox, Network, None} = {Inbox, Network, None}
    OBVIOUS
  <2>2. QED BY <1>2, <2>1, Zenon
<1>5. Inbox # Network
  <2>1. Inbox = Network => {Root, Inbox, Network, None} = {Root, Network, None}
    OBVIOUS
  <2>2. QED BY <1>2, <2>1, Zenon
<1>6. None \notin {Root, Inbox, Network}
  <2>1. None \in {Root, Inbox, Network}
          => {Root, Inbox, Network, None} = {Root, Inbox, Network}
    OBVIOUS
  <2>2. QED BY <1>2, <2>1, Zenon
<1>7. QED BY <1>3, <1>4, <1>5, <1>6, FsAssumption DEF AnyHandle

\* A list is a function on 1 .. Len.
LEMMA ListType ==
  ASSUME NEW list \in Seq(GoodNode)
  PROVE  /\ Len(list) \in Nat /\ DOMAIN list = 1 .. Len(list)
         /\ \A i \in DOMAIN list : list[i] \in GoodNode
BY LenProperties, ElementOfSeq

\* update_pathmap changes parents only; afterwards they are all current.
LEMMA UpdateList ==
  ASSUME NEW list \in Seq(GoodNode)
  PROVE  /\ UpdatePathmap(list) \in Seq(GoodNode)
         /\ DOMAIN UpdatePathmap(list) = DOMAIN list
         /\ \A i \in DOMAIN list :
               UpdatePathmap(list)[i] = [list[i] EXCEPT !.parent = NewParent(list, list[i])]
         /\ HandlesOf(UpdatePathmap(list)) = HandlesOf(list)
         /\ Current(UpdatePathmap(list))
         /\ Unique(list) => Unique(UpdatePathmap(list))
<1> DEFINE up == UpdatePathmap(list)
<1>1. DOMAIN up = DOMAIN list
      /\ \A i \in DOMAIN list : up[i] = [list[i] EXCEPT !.parent = NewParent(list, list[i])]
  BY DEF UpdatePathmap
<1>2. \A i \in DOMAIN list : list[i] \in GoodNode
  BY ListType
<1>3. ASSUME NEW i \in DOMAIN list
      PROVE  /\ NewParent(list, list[i]) \in AnyHandle \cup {None}
             /\ list[i].type \in SystemTypes \cup {"CONTACT"} => NewParent(list, list[i]) = None
  BY <1>2 DEF NewParent, GoodNode, Node
<1>4. ASSUME NEW i \in DOMAIN list
      PROVE  /\ up[i] \in GoodNode /\ up[i].handle = list[i].handle
             /\ up[i].type = list[i].type /\ up[i].parentHandle = list[i].parentHandle
             /\ up[i].parent = NewParent(list, list[i])
  BY <1>1, <1>2, <1>3 DEF GoodNode, Node
<1>5. HandlesOf(up) = HandlesOf(list)
  BY <1>1, <1>4 DEF HandlesOf
<1>6. up \in Seq(GoodNode)
  <2>1. up \in [1 .. Len(list) -> GoodNode] /\ Len(list) \in Nat
    BY <1>4, ListType DEF UpdatePathmap
  <2>2. QED BY <2>1, SeqDef
<1> HIDE DEF up
<1>7. Current(up)
  BY <1>1, <1>4, <1>5 DEF Current, NewParent
<1>8. Unique(list) => Unique(up)
  BY <1>1, <1>4 DEF Unique
<1>9. QED BY <1>1, <1>5, <1>6, <1>7, <1>8 DEF up

\* Two lists one after the other.
LEMMA ConcatList ==
  ASSUME NEW s \in Seq(GoodNode), NEW t \in Seq(GoodNode)
  PROVE  /\ s \o t \in Seq(GoodNode)
         /\ HandlesOf(s \o t) = HandlesOf(s) \cup HandlesOf(t)
         /\ Unique(s) /\ Unique(t) /\ HandlesOf(s) \cap HandlesOf(t) \subseteq Users
              => Unique(s \o t)
<1> DEFINE m == Len(s)
<1> DEFINE n == Len(t)
<1> DEFINE st == s \o t
<1>1. /\ st \in Seq(GoodNode) /\ DOMAIN st = 1 .. m + n /\ m \in Nat /\ n \in Nat
      /\ \A i \in 1 .. m + n : st[i] = IF i <= m THEN s[i] ELSE t[i - m]
      /\ DOMAIN s = 1 .. m /\ DOMAIN t = 1 .. n
      /\ \A i \in 1 .. m + n : st[i] \in GoodNode
  BY ConcatProperties, ListType
<1> HIDE DEF st, m, n
<1>2. \A i \in 1 .. m : i \in DOMAIN st /\ st[i] = s[i]
  BY <1>1
<1>3. \A i \in 1 .. n : i + m \in DOMAIN st /\ st[i + m] = t[i]
  BY <1>1
<1>4. HandlesOf(st) = HandlesOf(s) \cup HandlesOf(t)
  <2>1. ASSUME NEW i \in DOMAIN st PROVE st[i].handle \in HandlesOf(s) \cup HandlesOf(t)
    <3>1. CASE i <= m
      BY <1>1, <3>1 DEF HandlesOf
    <3>2. CASE i > m
      <4>1. i - m \in DOMAIN t /\ st[i] = t[i - m]
        BY <1>1, <3>2
      <4>2. QED BY <4>1 DEF HandlesOf
    <3>3. QED BY <1>1, <3>1, <3>2
  <2>2. ASSUME NEW i \in DOMAIN s PROVE s[i].handle \in HandlesOf(st)
    BY <1>1, <1>2 DEF HandlesOf
  <2>3. ASSUME NEW i \in DOMAIN t PROVE t[i].handle \in HandlesOf(st)
    <3>1. i + m \in DOMAIN st /\ st[i + m] = t[i]
      BY <1>1, <1>3
    <3>2. QED BY <3>1 DEF HandlesOf
  <2>4. QED BY <2>1, <2>2, <2>3 DEF HandlesOf
<1>5. ASSUME Unique(s), Unique(t), HandlesOf(s) \cap HandlesOf(t) \subseteq Users
      PROVE  Unique(st)
  <2>1. SUFFICES ASSUME NEW i \in DOMAIN st, NEW j \in DOMAIN st,
                        st[i].handle = st[j].handle, i # j
                 PROVE  st[i].type = "CONTACT"
    BY DEF Unique
  <2>2. i \in 1 .. m + n /\ j \in 1 .. m + n
    BY <1>1
  <2>3. CASE i <= m /\ j <= m
    BY <1>1, <1>5, <2>1, <2>2, <2>3 DEF Unique
  <2>4. CASE i > m /\ j > m
    <3>1. i - m \in DOMAIN t /\ j - m \in DOMAIN t /\ i - m # j - m
          /\ st[i] = t[i - m] /\ st[j] = t[j - m]
      BY <1>1, <2>1, <2>2, <2>4
    <3>2. QED BY <1>5, <2>1, <3>1 DEF Unique
  <2>5. CASE (i <= m) # (j <= m)
    <3>1. st[i].handle \in HandlesOf(s) \cap HandlesOf(t)
      <4>1. CASE i <= m /\ j > m
        <5>1. i \in DOMAIN s /\ st[i] = s[i] /\ j - m \in DOMAIN t /\ st[j] = t[j - m]
          BY <1>1, <2>2, <4>1
        <5>2. QED BY <2>1, <5>1 DEF HandlesOf
      <4>2. CASE j <= m /\ i > m
        <5>1. j \in DOMAIN s /\ st[j] = s[j] /\ i - m \in DOMAIN t /\ st[i] = t[i - m]
          BY <1>1, <2>2, <4>2
        <5>2. QED BY <2>1, <5>1 DEF HandlesOf
      <4>3. QED BY <1>1, <2>2, <2>5, <4>1, <4>2
    <3>2. QED BY <1>1, <1>5, <2>2, <3>1 DEF GoodNode
  <2>6. QED BY <1>1, <2>2, <2>3, <2>4, <2>5
<1>6. QED BY <1>1, <1>4, <1>5 DEF st

\* A list of one node.
LEMMA SingletonList ==
  ASSUME NEW n \in GoodNode
  PROVE  <<n>> \in Seq(GoodNode) /\ HandlesOf(<<n>>) = {n.handle} /\ Unique(<<n>>)
BY DEF HandlesOf, Unique

\* A part of a list.
LEMMA SubList ==
  ASSUME NEW list \in Seq(GoodNode), NEW a \in Nat \ {0}, NEW b \in Nat, b <= Len(list)
  PROVE  /\ SubSeq(list, a, b) \in Seq(GoodNode)
         /\ HandlesOf(SubSeq(list, a, b)) = {list[i].handle : i \in a .. b}
         /\ Unique(list) => Unique(SubSeq(list, a, b))
<1> DEFINE sub == SubSeq(list, a, b)
<1>1. \A i \in a .. b : i \in DOMAIN list /\ list[i] \in GoodNode
  BY ListType
<1>2. /\ sub \in Seq(GoodNode) /\ Len(sub) = (IF a <= b THEN b - a + 1 ELSE 0)
      /\ \A i \in 1 .. b - a + 1 : sub[i] = list[a + i - 1]
  BY <1>1, SubSeqProperties
<1>3. DOMAIN sub = 1 .. Len(sub)
  BY <1>2, ListType
<1> HIDE DEF sub
<1>4. HandlesOf(sub) = {list[i].handle : i \in a .. b}
  <2>1. ASSUME NEW i \in DOMAIN sub PROVE \E j \in a .. b : sub[i].handle = list[j].handle
    <3>1. a + i - 1 \in a .. b /\ sub[i] = list[a + i - 1]
      BY <1>2, <1>3
    <3>2. QED BY <3>1
  <2>2. ASSUME NEW j \in a .. b PROVE \E i \in DOMAIN sub : sub[i].handle = list[j].handle
    <3>1. /\ a <= b /\ j - a + 1 \in 1 .. b - a + 1
          /\ a + (j - a + 1) - 1 = j
      BY SMTT(30)
    <3>2. j - a + 1 \in DOMAIN sub
      BY <1>2, <1>3, <3>1
    <3>3. sub[j - a + 1] = list[j]
      <4>1. sub[j - a + 1] = list[a + (j - a + 1) - 1]
        BY <1>2, <3>1
      <4> QED BY <3>1, <4>1
    <3>4. QED BY <3>2, <3>3
  <2>3. QED BY <2>1, <2>2, SMTT(30) DEF HandlesOf
<1>5. Unique(list) => Unique(sub)
  <2>1. SUFFICES ASSUME Unique(list), NEW i \in DOMAIN sub, NEW j \in DOMAIN sub,
                        sub[i].handle = sub[j].handle, i # j
                 PROVE  sub[i].type = "CONTACT"
    BY DEF Unique
  <2>2. /\ a + i - 1 \in DOMAIN list /\ sub[i] = list[a + i - 1]
        /\ a + j - 1 \in DOMAIN list /\ sub[j] = list[a + j - 1]
        /\ a + i - 1 # a + j - 1
    <3>1. i \in 1 .. b - a + 1 /\ j \in 1 .. b - a + 1
      BY <1>2, <1>3, <2>1
    <3>2. a + i - 1 \in a .. b /\ a + j - 1 \in a .. b /\ a + i - 1 # a + j - 1
      BY <2>1, <3>1
    <3>3. QED BY <1>1, <1>2, <3>1, <3>2
  <2>3. QED BY <2>1, <2>2 DEF Unique
<1>6. QED BY <1>2, <1>4, <1>5 DEF sub

\* mega_session_stat finds a node of the list with the path, if it finds one.
LEMMA StatType ==
  ASSUME NEW list \in Seq(GoodNode), NEW p, StatIndex(list, p) # 0
  PROVE  /\ StatIndex(list, p) \in DOMAIN list
         /\ Paths(list)[StatIndex(list, p)] = p
         /\ \A i \in DOMAIN list : Paths(list)[i] = p => StatIndex(list, p) <= i
<1> DEFINE paths == Paths(list)
<1> DEFINE found == {i \in DOMAIN list : paths[i] = p}
<1>1. StatIndex(list, p) =
        IF found = {} THEN 0 ELSE CHOOSE i \in found : \A j \in found : i <= j
  BY DEF StatIndex
<1>2. found \subseteq DOMAIN list /\ found \subseteq Nat
      /\ \A i \in DOMAIN list : i \in found <=> Paths(list)[i] = p
  BY ListType
<1> HIDE DEF found, paths
<1>3. found # {}
  BY <1>1
<1>4. \E i \in found : \A j \in found : i <= j
  BY <1>2, <1>3, LeastOf
<1>5. StatIndex(list, p) \in found /\ \A j \in found : StatIndex(list, p) <= j
  BY <1>1, <1>3, <1>4
<1>6. QED BY <1>2, <1>5

\* A node more at the end.
LEMMA AppendList ==
  ASSUME NEW list \in Seq(GoodNode), NEW n \in GoodNode
  PROVE  /\ Append(list, n) \in Seq(GoodNode)
         /\ HandlesOf(Append(list, n)) = HandlesOf(list) \cup {n.handle}
         /\ Unique(list) /\ (n.handle \in HandlesOf(list) => n.handle \in Users)
              => Unique(Append(list, n))
<1>1. Append(list, n) = list \o <<n>>
  BY AppendIsConcat
<1>2. <<n>> \in Seq(GoodNode) /\ HandlesOf(<<n>>) = {n.handle} /\ Unique(<<n>>)
  BY SingletonList
<1>3. QED BY <1>1, <1>2, ConcatList

-----------------------------------------------------------------------------
(* The invariant.                                                            *)

\* A command in progress knows what it is about: what mkdir and put make is
\* new, rm's path still leads to the node it removes.
CallOK ==
    /\ call = [kind |-> call.kind, path |-> call.path, target |-> call.target,
               name |-> call.name, runs |-> call.runs, made |-> call.made]
    /\ call.kind \in {"mkdir", "put"} =>
          /\ call.name \in Names /\ call.target \in HandlesOf(local)
          /\ call.runs > 0 =>
                /\ call.target \in Handles \cup {Root}
                /\ call.made \in Handles \ (HandlesOf(local) \cup {call.target})
                /\ \A i \in DOMAIN local : local[i].parentHandle # call.made
    /\ call.kind = "add_user" => call.name \in Users
    /\ call.kind \in {"rm", "rm_user"} =>
          LET k == StatIndex(local, call.path)
          IN /\ k \in DOMAIN local /\ local[k].handle = call.target
             /\ call.target \in IF call.kind = "rm" THEN Handles ELSE Users
             /\ call.kind = "rm_user" => call.name = call.target

\* The list of a session: good nodes, among them the system's, each with the
\* parent update_pathmap would find and a handle of its own.
ListOK ==
    /\ local \in Seq(GoodNode)
    /\ {Root, Inbox, Network} \subseteq HandlesOf(local)
    /\ Current(local) /\ Unique(local)

FsInv ==
    /\ TypeOK /\ ListOK /\ CallOK
    /\ IsFiniteSet(DOMAIN server) /\ IsFiniteSet(contacts)

-----------------------------------------------------------------------------
(* The operations on the list.                                               *)

\* The nodes the system has, as mega_session_refresh lists them.
LEMMA SystemNodes ==
  LET top == <<SystemNode(Root, "Root", "ROOT"), SystemNode(Inbox, "Inbox", "INBOX")>>
      net == <<SystemNode(Network, "Contacts", "NETWORK")>>
  IN /\ top \in Seq(GoodNode) /\ HandlesOf(top) = {Root, Inbox} /\ Unique(top)
     /\ net \in Seq(GoodNode) /\ HandlesOf(net) = {Network} /\ Unique(net)
<1> DEFINE top == <<SystemNode(Root, "Root", "ROOT"), SystemNode(Inbox, "Inbox", "INBOX")>>
<1> DEFINE net == <<SystemNode(Network, "Contacts", "NETWORK")>>
<1>1. /\ SystemNode(Root, "Root", "ROOT") \in GoodNode
      /\ SystemNode(Inbox, "Inbox", "INBOX") \in GoodNode
      /\ SystemNode(Network, "Contacts", "NETWORK") \in GoodNode
  BY FsAssumption, SystemHandles
  DEF SystemNode, GoodNode, Node, NodeTypes, SystemTypes, AnyHandle
<1>2. top \in Seq(GoodNode) /\ HandlesOf(top) = {Root, Inbox} /\ Unique(top)
  <2> DEFINE r == <<SystemNode(Root, "Root", "ROOT")>>
  <2> DEFINE i == <<SystemNode(Inbox, "Inbox", "INBOX")>>
  <2>1. top = r \o i
    OBVIOUS
  <2>2. /\ r \in Seq(GoodNode) /\ HandlesOf(r) = {Root} /\ Unique(r)
        /\ i \in Seq(GoodNode) /\ HandlesOf(i) = {Inbox} /\ Unique(i)
    BY <1>1, SingletonList DEF SystemNode
  <2>3. {Root} \cap {Inbox} \subseteq Users
    BY SystemHandles
  <2> HIDE DEF r, i, top
  <2>4. /\ r \o i \in Seq(GoodNode) /\ HandlesOf(r \o i) = {Root} \cup {Inbox}
        /\ Unique(r \o i)
    BY <2>2, <2>3, ConcatList
  <2>5. QED BY <2>1, <2>4
<1>3. net \in Seq(GoodNode) /\ HandlesOf(net) = {Network} /\ Unique(net)
  BY <1>1, SingletonList DEF SystemNode
<1>4. QED BY <1>2, <1>3

\* The files and the contacts among what mega_session_refresh imports.
LEMMA ImportedParts ==
  ASSUME FsInv, NEW files \in Orders, NEW users \in UserOrders
  PROVE  LET mid == [i \in DOMAIN files |-> Parsed(files[i], server[files[i]])]
             end == [i \in DOMAIN users |-> ParsedUser(users[i])]
         IN /\ mid \in Seq(GoodNode) /\ HandlesOf(mid) = {files[i] : i \in DOMAIN files}
            /\ Unique(mid)
            /\ end \in Seq(GoodNode) /\ HandlesOf(end) = {users[i] : i \in DOMAIN users}
            /\ Unique(end)
            /\ {files[i] : i \in DOMAIN files} \subseteq Handles
            /\ {users[i] : i \in DOMAIN users} \subseteq Users
<1> DEFINE mid == [i \in DOMAIN files |-> Parsed(files[i], server[files[i]])]
<1> DEFINE end == [i \in DOMAIN users |-> ParsedUser(users[i])]
<1>1. /\ DOMAIN files = 1 .. Cardinality(DOMAIN server) /\ Cardinality(DOMAIN server) \in Nat
      /\ \A i \in DOMAIN files : files[i] \in DOMAIN server
      /\ \A i, j \in DOMAIN files : files[i] = files[j] => i = j
  BY FS_CardinalityType DEF Orders, FsInv
<1>2. /\ DOMAIN users = 1 .. Cardinality(contacts) /\ Cardinality(contacts) \in Nat
      /\ \A i \in DOMAIN users : users[i] \in contacts
  BY FS_CardinalityType DEF UserOrders, FsInv
<1>3. \A i \in DOMAIN files : mid[i] \in GoodNode /\ mid[i].handle = files[i]
  <2>1. ASSUME NEW h \in DOMAIN server PROVE Parsed(h, server[h]) \in GoodNode
    <3>1. server[h] \in ServerNodes /\ h \in Handles
      BY DEF FsInv, TypeOK
    <3>2. QED
      BY <3>1, FsAssumption
      DEF Parsed, ServerNodes, GoodNode, Node, NodeTypes, SystemTypes, AnyHandle
  <2>2. QED BY <1>1, <2>1 DEF Parsed
<1>4. \A i \in DOMAIN users : end[i] \in GoodNode /\ end[i].handle = users[i]
                              /\ end[i].type = "CONTACT"
  <2>1. ASSUME NEW u \in contacts PROVE ParsedUser(u) \in GoodNode
    <3>1. u \in Users
      BY DEF FsInv, TypeOK
    <3>2. QED
      BY <3>1, FsAssumption
      DEF ParsedUser, GoodNode, Node, NodeTypes, SystemTypes, AnyHandle
  <2>2. QED BY <1>2, <2>1 DEF ParsedUser
<1>5. /\ mid \in Seq(GoodNode) /\ HandlesOf(mid) = {files[i] : i \in DOMAIN files}
      /\ Unique(mid)
  <2>1. mid \in [1 .. Cardinality(DOMAIN server) -> GoodNode]
    BY <1>1, <1>3
  <2>2. mid \in Seq(GoodNode)
    BY <1>1, <2>1, SeqDef
  <2>3. QED BY <1>1, <1>3, <2>2 DEF HandlesOf, Unique
<1>6. /\ end \in Seq(GoodNode) /\ HandlesOf(end) = {users[i] : i \in DOMAIN users}
      /\ Unique(end)
  <2>1. end \in [1 .. Cardinality(contacts) -> GoodNode]
    BY <1>2, <1>4
  <2>2. end \in Seq(GoodNode)
    BY <1>2, <2>1, SeqDef
  <2>3. QED BY <1>4, <2>2 DEF HandlesOf, Unique
<1>7. /\ {files[i] : i \in DOMAIN files} \subseteq Handles
       /\ {users[i] : i \in DOMAIN users} \subseteq Users
  BY <1>1, <1>2 DEF FsInv, TypeOK
<1>8. QED BY <1>5, <1>6, <1>7

\* What mega_session_refresh imports.
LEMMA ImportedList ==
  ASSUME FsInv, NEW files \in Orders, NEW users \in UserOrders
  PROVE  /\ Imported(files, users) \in Seq(GoodNode)
         /\ HandlesOf(Imported(files, users)) =
              {Root, Inbox, Network} \cup {files[i] : i \in DOMAIN files}
                                     \cup {users[i] : i \in DOMAIN users}
         /\ Unique(Imported(files, users))
<1> DEFINE top == <<SystemNode(Root, "Root", "ROOT"), SystemNode(Inbox, "Inbox", "INBOX")>>
<1> DEFINE mid == [i \in DOMAIN files |-> Parsed(files[i], server[files[i]])]
<1> DEFINE net == <<SystemNode(Network, "Contacts", "NETWORK")>>
<1> DEFINE end == [i \in DOMAIN users |-> ParsedUser(users[i])]
<1>1. /\ top \in Seq(GoodNode) /\ HandlesOf(top) = {Root, Inbox} /\ Unique(top)
      /\ net \in Seq(GoodNode) /\ HandlesOf(net) = {Network} /\ Unique(net)
  BY SystemNodes
<1>2. /\ mid \in Seq(GoodNode) /\ HandlesOf(mid) = {files[i] : i \in DOMAIN files}
      /\ Unique(mid)
      /\ end \in Seq(GoodNode) /\ HandlesOf(end) = {users[i] : i \in DOMAIN users}
      /\ Unique(end)
      /\ {files[i] : i \in DOMAIN files} \subseteq Handles
      /\ {users[i] : i \in DOMAIN users} \subseteq Users
  BY ImportedParts
<1>3. Imported(files, users) = ((top \o mid) \o net) \o end
  BY DEF Imported
<1> HIDE DEF top, mid, net, end
<1> DEFINE a == top \o mid
<1>4. /\ a \in Seq(GoodNode) /\ Unique(a)
       /\ HandlesOf(a) = {Root, Inbox} \cup {files[i] : i \in DOMAIN files}
  BY <1>1, <1>2, FsAssumption, ConcatList
<1> HIDE DEF a
<1> DEFINE b == a \o net
<1>5. /\ b \in Seq(GoodNode) /\ Unique(b)
       /\ HandlesOf(b) = {Root, Inbox, Network} \cup {files[i] : i \in DOMAIN files}
  <2>1. HandlesOf(a) \cap HandlesOf(net) \subseteq Users
    BY <1>1, <1>2, <1>4, FsAssumption, SystemHandles
  <2>2. QED BY <1>1, <1>4, <2>1, ConcatList
<1> HIDE DEF b
<1>6. /\ b \o end \in Seq(GoodNode) /\ Unique(b \o end)
       /\ HandlesOf(b \o end) = HandlesOf(b) \cup {users[i] : i \in DOMAIN users}
  BY <1>2, <1>5, ConcatList
<1>7. QED BY <1>3, <1>5, <1>6 DEF a, b

\* mega_session_refresh lists anew what the server has.
LEMMA RefreshStep ==
  ASSUME FsInv, Refresh
  PROVE  FsInv'
<1>1. PICK files \in Orders, users \in UserOrders : local' = UpdatePathmap(Imported(files, users))
  BY DEF Refresh
<1>2. /\ local' \in Seq(GoodNode) /\ Current(local') /\ Unique(local')
      /\ {Root, Inbox, Network} \subseteq HandlesOf(local')
  BY <1>1, ImportedList, UpdateList
<1>3. UNCHANGED <<server, contacts, call>> /\ call.kind = "none" /\ drift' = FALSE
  BY DEF Refresh
<1>4. TypeOK'
  <2>1. local' \in Seq(Node)
    BY <1>2, SeqMonotonic DEF GoodNode
  <2>2. QED BY <1>3, <2>1 DEF FsInv, TypeOK, Node
<1>5. CallOK'
  BY <1>3 DEF FsInv, CallOK
<1>6. QED BY <1>2, <1>3, <1>4, <1>5 DEF FsInv, ListOK

\* A command starts: the node list is only looked at.
LEMMA BeginStep ==
  ASSUME FsInv, NEW kind \in {"mkdir", "put", "rm", "add_user", "rm_user"},
         NEW path, NEW target, NEW name, Begin(kind, path, target, name),
         kind \in {"mkdir", "put"} => name \in Names /\ target \in HandlesOf(local),
         kind = "add_user" => name \in Users /\ target \in HandlesOf(local),
         kind \in {"rm", "rm_user"} =>
             LET k == StatIndex(local, path)
             IN /\ k \in DOMAIN local /\ local[k].handle = target
                /\ target \in IF kind = "rm" THEN Handles ELSE Users
                /\ kind = "rm_user" => name = target
  PROVE  FsInv'
<1>1. UNCHANGED <<server, contacts, local, drift>>
      /\ call' = [kind |-> kind, path |-> path, target |-> target, name |-> name,
                  runs |-> 0, made |-> None]
  BY DEF Begin
<1>2. target \in AnyHandle
  <2>1. HandlesOf(local) \subseteq AnyHandle
    BY ListType DEF FsInv, ListOK, HandlesOf, GoodNode, Node
  <2>2. QED BY <2>1 DEF AnyHandle
<1>3. TypeOK'
  BY <1>1, <1>2, FsAssumption DEF FsInv, TypeOK
<1>4. CallOK'
  BY <1>1 DEF CallOK
<1>5. QED BY <1>1, <1>3, <1>4 DEF FsInv, ListOK

\* The node mega_session_stat found.
LEMMA StatNode ==
  ASSUME FsInv, NEW p, Exists(p)
  PROVE  /\ StatIndex(local, p) \in DOMAIN local /\ Stat(p) = local[StatIndex(local, p)]
         /\ Stat(p) \in GoodNode /\ Stat(p).handle \in HandlesOf(local)
<1>1. StatIndex(local, p) \in DOMAIN local
  BY StatType DEF Exists, FsInv, ListOK
<1>2. QED BY <1>1, ListType DEF Stat, FsInv, ListOK, HandlesOf

\* mega_session_mkdir checks its arguments; what it makes is made by Run.
LEMMA MkdirStep ==
  ASSUME FsInv, NEW p, Mkdir(p)
  PROVE  FsInv'
<1>1. Stat(Dirname(p)).handle \in HandlesOf(local)
  BY StatNode DEF Mkdir
<1>2. CASE Basename(p) \in Users /\ Begin("add_user", p, Stat(Dirname(p)).handle, Basename(p))
  BY <1>1, <1>2, BeginStep
<1>3. CASE Basename(p) \in Names /\ Begin("mkdir", p, Stat(Dirname(p)).handle, Basename(p))
  BY <1>1, <1>3, BeginStep
<1>4. QED BY <1>2, <1>3 DEF Mkdir

\* mega_session_put likewise.
LEMMA PutStep ==
  ASSUME FsInv, NEW p, NEW base \in Names, Put(p, base)
  PROVE  FsInv'
<1>1. CASE /\ Exists(p)
           /\ Begin("put", Append(p, base), Stat(p).handle, base)
  <2>1. Stat(p).handle \in HandlesOf(local)
    BY <1>1, StatNode
  <2>2. QED BY <1>1, <2>1, BeginStep
<1>2. CASE /\ Exists(Dirname(p)) /\ Basename(p) \in Names
           /\ Begin("put", p, Stat(Dirname(p)).handle, Basename(p))
  <2>1. Stat(Dirname(p)).handle \in HandlesOf(local)
    BY <1>2, StatNode
  <2>2. QED BY <1>2, <2>1, BeginStep
<1>3. QED BY <1>1, <1>2 DEF Put

\* mega_session_rm likewise; its path is that of a node or a contact.
LEMMA RmStep ==
  ASSUME FsInv, NEW p, Rm(p)
  PROVE  FsInv'
<1>1. /\ StatIndex(local, p) \in DOMAIN local /\ Stat(p) = local[StatIndex(local, p)]
      /\ Stat(p) \in GoodNode
  BY StatNode DEF Rm
<1>2. CASE Stat(p).type \in {"FILE", "FOLDER"} /\ Begin("rm", p, Stat(p).handle, None)
  <2>1. Stat(p).handle \in Handles
    BY <1>1, <1>2 DEF GoodNode
  <2>2. QED BY <1>1, <1>2, <2>1, BeginStep
<1>3. CASE Stat(p).type = "CONTACT" /\ Begin("rm_user", p, Stat(p).handle, Stat(p).name)
  <2>1. Stat(p).handle \in Users /\ Stat(p).name = Stat(p).handle
    BY <1>1, <1>3 DEF GoodNode
  <2>2. QED BY <1>1, <1>3, <2>1, BeginStep
<1>4. QED BY <1>2, <1>3 DEF Rm

\* The server's tree with a node more, or with some less, is a tree of nodes.
LEMMA ServerType ==
  ASSUME FsInv
  PROVE  /\ \A h \in Handles, rec \in ServerNodes :
               /\ IsFiniteSet(DOMAIN With(h, rec)) /\ DOMAIN With(h, rec) \subseteq Handles
               /\ \A g \in DOMAIN With(h, rec) : With(h, rec)[g] \in ServerNodes
         /\ \A gone :
               /\ IsFiniteSet(DOMAIN Without(gone)) /\ DOMAIN Without(gone) \subseteq Handles
               /\ \A g \in DOMAIN Without(gone) : Without(gone)[g] \in ServerNodes
<1>1. ASSUME NEW h \in Handles, NEW rec \in ServerNodes
      PROVE  /\ IsFiniteSet(DOMAIN With(h, rec)) /\ DOMAIN With(h, rec) \subseteq Handles
             /\ \A g \in DOMAIN With(h, rec) : With(h, rec)[g] \in ServerNodes
  <2>1. DOMAIN With(h, rec) = DOMAIN server \cup {h}
    BY DEF With
  <2>2. IsFiniteSet(DOMAIN server \cup {h})
    BY FS_AddElement DEF FsInv
  <2>3. QED BY <2>1, <2>2 DEF With, FsInv, TypeOK
<1>2. ASSUME NEW gone
      PROVE  /\ IsFiniteSet(DOMAIN Without(gone)) /\ DOMAIN Without(gone) \subseteq Handles
             /\ \A g \in DOMAIN Without(gone) : Without(gone)[g] \in ServerNodes
  <2>1. DOMAIN Without(gone) = DOMAIN server \ gone
    BY DEF Without
  <2>2. IsFiniteSet(DOMAIN server \ gone)
    BY FS_Subset DEF FsInv
  <2>3. QED BY <2>1, <2>2 DEF Without, FsInv, TypeOK
<1>3. QED BY <1>1, <1>2

\* The request reaches the server, once or again.
LEMMA RunStep ==
  ASSUME FsInv, Run
  PROVE  FsInv'
<1>1. UNCHANGED local /\ drift' \in BOOLEAN /\ call.runs + 1 \in 0 .. MaxRuns
  <2>1. UNCHANGED local /\ call.runs < MaxRuns /\ drift' = (drift \/ call.runs > 0)
    BY DEF Run
  <2>2. call.runs \in 0 .. MaxRuns /\ MaxRuns \in Nat
    BY FsAssumption DEF FsInv, TypeOK
  <2>3. QED BY <2>1, <2>2
<1>2. ASSUME call.kind \in {"mkdir", "put"}, IsFolder(call.target), NEW h \in Handles, Fresh(h),
             UNCHANGED contacts,
             server' = With(h, [parent |-> call.target, name |-> call.name, mine |-> TRUE,
                                type |-> IF call.kind = "put" THEN "FILE" ELSE "FOLDER"]),
             call' = [call EXCEPT !.runs = @ + 1, !.made = h]
      PROVE  FsInv'
  <2>1. call.target \in Handles \cup {Root} /\ call.name \in Names
    BY <1>2 DEF FsInv, TypeOK, CallOK, IsFolder
  <2> DEFINE rec == [parent |-> call.target, name |-> call.name, mine |-> TRUE,
                     type |-> IF call.kind = "put" THEN "FILE" ELSE "FOLDER"]
  <2>2. rec \in ServerNodes
    BY <2>1 DEF ServerNodes
  <2>3. server' = With(h, rec)
    BY <1>2
  <2> HIDE DEF rec
  <2>4. IsFiniteSet(DOMAIN server') /\ DOMAIN server' \subseteq Handles
        /\ \A g \in DOMAIN server' : server'[g] \in ServerNodes
    BY <2>2, <2>3, ServerType
  <2>5. call' = [kind |-> call.kind, path |-> call.path, target |-> call.target,
                 name |-> call.name, runs |-> call.runs + 1, made |-> h]
    BY <1>2 DEF FsInv, CallOK
  <2>6. TypeOK'
    <3>1. call'.kind = call.kind /\ call'.target = call.target /\ call'.made = h
          /\ call'.runs = call.runs + 1
      BY <2>5
    <3>2. QED BY <1>1, <1>2, <2>4, <3>1 DEF FsInv, TypeOK
  <2>7. CallOK'
    BY <1>1, <1>2, <2>1, <2>5 DEF FsInv, CallOK, Fresh
  <2>8. QED BY <1>1, <1>2, <2>4, <2>6, <2>7 DEF FsInv, ListOK
<1>3. ASSUME call.kind \in {"rm", "add_user", "rm_user"},
             call' = [call EXCEPT !.runs = @ + 1],
             IsFiniteSet(DOMAIN server') /\ DOMAIN server' \subseteq Handles,
             \A g \in DOMAIN server' : server'[g] \in ServerNodes,
             IsFiniteSet(contacts') /\ contacts' \subseteq Users
      PROVE  FsInv'
  <2>1. call' = [kind |-> call.kind, path |-> call.path, target |-> call.target,
                 name |-> call.name, runs |-> call.runs + 1, made |-> call.made]
    BY <1>3 DEF FsInv, CallOK
  <2>2. TypeOK'
    BY <1>1, <1>3, <2>1 DEF FsInv, TypeOK
  <2>3. CallOK'
    BY <1>1, <1>3, <2>1 DEF FsInv, CallOK
  <2>4. QED BY <1>1, <1>3, <2>2, <2>3 DEF FsInv, ListOK
<1>4. CASE /\ call.kind = "rm" /\ server' = Without(Below(call.target))
           /\ call' = [call EXCEPT !.runs = @ + 1] /\ UNCHANGED contacts
  BY <1>3, <1>4, ServerType DEF FsInv, TypeOK
<1>5. CASE /\ call.kind \in {"add_user", "rm_user"}
           /\ contacts' = IF call.kind = "add_user" THEN contacts \cup {call.name}
                                                    ELSE contacts \ {call.name}
           /\ call' = [call EXCEPT !.runs = @ + 1] /\ UNCHANGED server
  <2>1. IsFiniteSet(contacts') /\ contacts' \subseteq Users
    <3>1. IsFiniteSet(contacts \cup {call.name}) /\ IsFiniteSet(contacts \ {call.name})
      BY FS_AddElement, FS_RemoveElement DEF FsInv
    <3>2. QED BY <1>5, <3>1 DEF FsInv, TypeOK, CallOK
  <2>2. QED BY <1>3, <1>5, <2>1 DEF FsInv, TypeOK
<1>6. QED BY <1>2, <1>4, <1>5 DEF Run

\* The call fails, or another client changes the server: the list stays.
LEMMA UnseenStep ==
  ASSUME FsInv, Fail \/ OtherClient
  PROVE  FsInv'
<1>1. CASE Fail
  <2>1. UNCHANGED <<server, contacts, local>> /\ call' = NoCall /\ drift' \in BOOLEAN
    BY <1>1 DEF Fail
  <2>2. TypeOK' /\ CallOK'
    BY <2>1, FsAssumption DEF FsInv, TypeOK, CallOK, NoCall
  <2>3. QED BY <2>1, <2>2 DEF FsInv, ListOK
<1>2. CASE OtherClient
  <2>1. /\ IsFiniteSet(DOMAIN server') /\ DOMAIN server' \subseteq Handles
        /\ \A g \in DOMAIN server' : server'[g] \in ServerNodes
    <3>1. ASSUME NEW h \in Handles, NEW parent \in DOMAIN server \cup {Root}, NEW n \in Names,
                 NEW t \in {"FILE", "FOLDER"}, NEW m \in BOOLEAN,
                 server' = With(h, [parent |-> parent, name |-> n, type |-> t, mine |-> m])
          PROVE  /\ IsFiniteSet(DOMAIN server') /\ DOMAIN server' \subseteq Handles
                 /\ \A g \in DOMAIN server' : server'[g] \in ServerNodes
      <4>1. [parent |-> parent, name |-> n, type |-> t, mine |-> m] \in ServerNodes
        BY DEF ServerNodes, FsInv, TypeOK
      <4>2. QED BY <3>1, <4>1, ServerType
    <3>2. ASSUME NEW h \in DOMAIN server, server' = Without(Below(h))
          PROVE  /\ IsFiniteSet(DOMAIN server') /\ DOMAIN server' \subseteq Handles
                 /\ \A g \in DOMAIN server' : server'[g] \in ServerNodes
      BY <3>2, ServerType
    <3>3. QED BY <1>2, <3>1, <3>2 DEF OtherClient
  <2>2. UNCHANGED <<contacts, local, call>> /\ drift' = TRUE
    BY <1>2 DEF OtherClient
  <2>3. TypeOK' /\ CallOK'
    BY <2>1, <2>2 DEF FsInv, TypeOK, CallOK
  <2>4. QED BY <2>1, <2>2, <2>3 DEF FsInv, ListOK
<1>3. QED BY <1>1, <1>2

\* The node a successful mkdir or put adds, and the list with it.
LEMMA MadeNode ==
  ASSUME FsInv, call.kind \in {"mkdir", "put"}, call.runs > 0, NEW t \in {"FILE", "FOLDER"}
  PROVE  /\ Made(t) \in GoodNode
         /\ [Made(t) EXCEPT !.parent = call.target] \in GoodNode
         /\ Made(t).handle = call.made /\ Made(t).type = t
         /\ Made(t).parentHandle = call.target /\ call.target # None
         /\ call.made \notin HandlesOf(local) /\ call.target \in HandlesOf(local)
<1>1. /\ call.name \in Names /\ call.target \in HandlesOf(local)
      /\ call.target \in Handles \cup {Root}
      /\ call.made \in Handles \ (HandlesOf(local) \cup {call.target})
  BY DEF FsInv, CallOK
<1> DEFINE yes == TRUE
<1>2. Made(t) = [handle |-> call.made, name |-> call.name, type |-> t, mine |-> yes,
                 parentHandle |-> call.target, parent |-> None]
  BY DEF Made, Parsed
<1>yes. yes \in BOOLEAN
  OBVIOUS
<1> HIDE DEF yes
<1> DEFINE m == call.made
<1> DEFINE p == call.target
<1>3. /\ m \in Handles /\ m \notin Users /\ m # Root
      /\ p \in Handles \cup {Root} /\ p # None
  BY <1>1, FsAssumption, SystemHandles DEF AnyHandle
<1>4. \A q \in {None, p} :
        [handle |-> m, name |-> call.name, type |-> t, mine |-> yes,
         parentHandle |-> p, parent |-> q] \in GoodNode
  <2> HIDE DEF m, p
  <2>1. QED BY <1>1, <1>3, <1>yes DEF GoodNode, Node, NodeTypes, SystemTypes, AnyHandle
<1>5. [Made(t) EXCEPT !.parent = p] =
        [handle |-> m, name |-> call.name, type |-> t, mine |-> yes,
         parentHandle |-> p, parent |-> p]
  <2>1. [[handle |-> m, name |-> call.name, type |-> t, mine |-> yes,
          parentHandle |-> p, parent |-> None] EXCEPT !.parent = p] =
        [handle |-> m, name |-> call.name, type |-> t, mine |-> yes,
         parentHandle |-> p, parent |-> p]
    OBVIOUS
  <2>2. QED BY <1>2, <2>1, Zenon
<1>6. Made(t) \in GoodNode /\ [Made(t) EXCEPT !.parent = p] \in GoodNode
  BY <1>2, <1>4, <1>5, Zenon
<1>7. Made(t).handle = m /\ Made(t).type = t /\ Made(t).parentHandle = p
  BY <1>2
<1>8. QED BY <1>1, <1>3, <1>6, <1>7

\* mkdir: the new list is the one update_pathmap makes of the longer list.
LEMMA AppendedList ==
  ASSUME FsInv, NEW n \in GoodNode, n.handle \in HandlesOf(local) => n.handle \in Users
  PROVE  /\ Appended(n) \in Seq(GoodNode)
         /\ HandlesOf(Appended(n)) = HandlesOf(local) \cup {n.handle}
         /\ Current(Appended(n)) /\ Unique(Appended(n))
<1>1. /\ Append(local, n) \in Seq(GoodNode) /\ Unique(Append(local, n))
      /\ HandlesOf(Append(local, n)) = HandlesOf(local) \cup {n.handle}
  BY AppendList DEF FsInv, ListOK
<1>2. QED BY <1>1, UpdateList DEF Appended

\* put sets only the parent of the new node: nobody else's changes, because
\* nobody has the new node for a parent.
LEMMA AppendedFileList ==
  ASSUME FsInv, call.kind = "put", call.runs > 0
  PROVE  /\ AppendedFile(Made("FILE"), call.target) \in Seq(GoodNode)
         /\ HandlesOf(AppendedFile(Made("FILE"), call.target)) = HandlesOf(local) \cup {call.made}
         /\ Current(AppendedFile(Made("FILE"), call.target))
         /\ Unique(AppendedFile(Made("FILE"), call.target))
<1> DEFINE n == [Made("FILE") EXCEPT !.parent = call.target]
<1> DEFINE new == Append(local, n)
<1>1. AppendedFile(Made("FILE"), call.target) = new
  BY DEF AppendedFile
<1>2. /\ n \in GoodNode /\ n.handle = call.made /\ n.type = "FILE"
      /\ n.parentHandle = call.target /\ n.parent = call.target
      /\ call.made \notin HandlesOf(local) /\ call.target \in HandlesOf(local)
  <2>1. /\ Made("FILE") \in GoodNode /\ n \in GoodNode
        /\ Made("FILE").handle = call.made /\ Made("FILE").type = "FILE"
        /\ Made("FILE").parentHandle = call.target
        /\ call.made \notin HandlesOf(local) /\ call.target \in HandlesOf(local)
    BY MadeNode
  <2>2. QED BY <2>1 DEF GoodNode, Node
<1> HIDE DEF n
<1>3. /\ new \in Seq(GoodNode) /\ Unique(new)
      /\ HandlesOf(new) = HandlesOf(local) \cup {call.made}
  BY <1>2, AppendList DEF FsInv, ListOK
<1>4. Current(new)
  <2>1. /\ \A i \in DOMAIN new : i \in DOMAIN local \/ new[i] = n
        /\ \A i \in DOMAIN local : new[i] = local[i]
    <3>1. /\ Len(new) = Len(local) + 1 /\ DOMAIN new = 1 .. Len(new)
          /\ DOMAIN local = 1 .. Len(local) /\ Len(local) \in Nat
          /\ \A i \in 1 .. Len(local) : new[i] = local[i]
          /\ new[Len(local) + 1] = n
      BY <1>2, <1>3, AppendProperties, ListType DEF FsInv, ListOK
    <3>2. QED BY <3>1
  <2>2. n.parent = NewParent(new, n)
    <3>1. call.target # None
      BY MadeNode
    <3>2. QED BY <1>2, <1>3, <3>1 DEF NewParent
  <2>3. ASSUME NEW i \in DOMAIN local PROVE new[i].parent = NewParent(new, new[i])
    <3>1. local[i].parent = NewParent(local, local[i]) /\ local[i].parentHandle # call.made
      BY DEF FsInv, ListOK, Current, CallOK
    <3>2. QED BY <1>3, <2>1, <3>1 DEF NewParent
  <2>4. QED BY <2>1, <2>2, <2>3 DEF Current
<1>5. QED BY <1>1, <1>3, <1>4

\* A list without its k-th node.
Without1(list, k) == SubSeq(list, 1, k - 1) \o SubSeq(list, k + 1, Len(list))

\* What is left when a node is removed is as well linked as before.
LEMMA RemovedList ==
  ASSUME NEW list \in Seq(GoodNode), NEW k \in DOMAIN list, Unique(list)
  PROVE  /\ Without1(list, k) \in Seq(GoodNode) /\ Unique(Without1(list, k))
         /\ HandlesOf(Without1(list, k)) = {list[i].handle : i \in DOMAIN list \ {k}}
<1> DEFINE n == Len(list)
<1> DEFINE s == SubSeq(list, 1, k - 1)
<1> DEFINE t == SubSeq(list, k + 1, n)
<1>1. /\ n \in Nat /\ DOMAIN list = 1 .. n /\ k \in 1 .. n
      /\ \A i \in DOMAIN list : list[i] \in GoodNode
  BY ListType
<1>2. /\ s \in Seq(GoodNode) /\ Unique(s)
      /\ HandlesOf(s) = {list[i].handle : i \in 1 .. k - 1}
  BY <1>1, SubList
<1>3. /\ t \in Seq(GoodNode) /\ Unique(t)
      /\ HandlesOf(t) = {list[i].handle : i \in k + 1 .. n}
  BY <1>1, SubList, SMTT(30)
<1> HIDE DEF s, t, n
<1>4. HandlesOf(s) \cap HandlesOf(t) \subseteq Users
  <2>1. SUFFICES ASSUME NEW i \in 1 .. k - 1, NEW j \in k + 1 .. n,
                        list[i].handle = list[j].handle
                 PROVE  list[i].handle \in Users
    BY <1>2, <1>3
  <2>2. i \in DOMAIN list /\ j \in DOMAIN list /\ i # j
    BY <1>1
  <2>3. QED BY <1>1, <2>1, <2>2 DEF Unique, GoodNode
<1>5. /\ s \o t \in Seq(GoodNode) /\ Unique(s \o t)
      /\ HandlesOf(s \o t) = HandlesOf(s) \cup HandlesOf(t)
  BY <1>2, <1>3, <1>4, ConcatList
<1>6. DOMAIN list \ {k} = (1 .. k - 1) \cup (k + 1 .. n)
  BY <1>1
<1>7. QED BY <1>2, <1>3, <1>5, <1>6 DEF Without1, s, t, n

\* The answer arrives and the list is changed accordingly.
LEMMA SucceedStep ==
  ASSUME FsInv, Succeed
  PROVE  FsInv'
<1>1. /\ call.kind # "none" /\ call.runs > 0 /\ call' = NoCall
      /\ UNCHANGED <<server, contacts, drift>>
      /\ call.kind \in {"mkdir", "add_user", "put", "rm", "rm_user"}
  BY DEF Succeed, FsInv, TypeOK
<1>2. SUFFICES ListOK'
  <2>1. local' \in Seq(Node)
    BY <1>2, SeqMonotonic DEF ListOK, GoodNode
  <2>2. TypeOK'
    BY <1>1, <2>1, FsAssumption DEF FsInv, TypeOK, NoCall, Node
  <2>3. CallOK'
    BY <1>1 DEF CallOK, NoCall
  <2>4. QED BY <1>1, <1>2, <2>2, <2>3 DEF FsInv
<1>3. CASE call.kind = "mkdir"
  <2>1. local' = Appended(Made("FOLDER"))
    BY <1>3 DEF Succeed
  <2>2. /\ Made("FOLDER") \in GoodNode /\ Made("FOLDER").handle = call.made
        /\ call.made \notin HandlesOf(local)
    BY <1>1, <1>3, MadeNode
  <2>3. QED BY <2>1, <2>2, AppendedList DEF FsInv, ListOK
<1>4. CASE call.kind = "add_user"
  <2>1. local' = Appended(ParsedUser(call.name))
    BY <1>4 DEF Succeed
  <2>2. ParsedUser(call.name) \in GoodNode /\ ParsedUser(call.name).handle \in Users
    <3>1. call.name \in Users
      BY <1>4 DEF FsInv, CallOK
    <3>2. QED
      BY <3>1, FsAssumption DEF ParsedUser, GoodNode, Node, NodeTypes, SystemTypes, AnyHandle
  <2>3. QED BY <2>1, <2>2, AppendedList DEF FsInv, ListOK
<1>5. CASE call.kind = "put"
  <2>1. local' = AppendedFile(Made("FILE"), call.target)
    BY <1>5 DEF Succeed
  <2>2. QED BY <1>1, <1>5, <2>1, AppendedFileList DEF FsInv, ListOK
<1>6. CASE call.kind \in {"rm", "rm_user"}
  <2> DEFINE k == StatIndex(local, call.path)
  <2>1. local' = UpdatePathmap(Without1(local, k))
    BY <1>6 DEF Succeed, Removed, Without1
  <2>2. k \in DOMAIN local /\ local[k].handle = call.target /\ call.target \in Handles \cup Users
    BY <1>6 DEF FsInv, CallOK
  <2> HIDE DEF k
  <2>3. /\ local' \in Seq(GoodNode) /\ Current(local') /\ Unique(local')
        /\ HandlesOf(local') = {local[i].handle : i \in DOMAIN local \ {k}}
    BY <2>1, <2>2, RemovedList, UpdateList DEF FsInv, ListOK
  <2>4. {Root, Inbox, Network} \subseteq HandlesOf(local')
    <3>1. ASSUME NEW h \in {Root, Inbox, Network} PROVE h \in HandlesOf(local')
      <4>1. PICK i \in DOMAIN local : local[i].handle = h
        BY DEF FsInv, ListOK, HandlesOf
      <4>2. i # k
        BY <2>2, <4>1, FsAssumption
      <4>3. QED BY <2>3, <4>1, <4>2
    <3>2. QED BY <3>1
  <2>5. QED BY <2>3, <2>4 DEF ListOK
<1>7. QED BY <1>1, <1>3, <1>4, <1>5, <1>6

\* A session that has just logged in shows the system's nodes.
LEMMA InitList ==
  Init => ListOK /\ HandlesOf(local) = {Root, Inbox, Network}
<1> SUFFICES ASSUME Init PROVE ListOK /\ HandlesOf(local) = {Root, Inbox, Network}
  OBVIOUS
<1> DEFINE top == <<SystemNode(Root, "Root", "ROOT"), SystemNode(Inbox, "Inbox", "INBOX")>>
<1> DEFINE net == <<SystemNode(Network, "Contacts", "NETWORK")>>
<1>1. local = UpdatePathmap(top \o net)
  <2>1. \A a, b, c : <<a, b>> \o <<c>> = <<a, b, c>>
    <3>1. TAKE a, b, c
    <3> DEFINE S == {a, b, c}
    <3>2. <<a, b>> \in Seq(S) /\ <<c>> \in Seq(S) /\ <<a, b, c>> \in Seq(S)
      OBVIOUS
    <3>3. /\ <<a, b>> \o <<c>> \in Seq(S) /\ Len(<<a, b>> \o <<c>>) = 3
          /\ \A i \in 1 .. 3 : (<<a, b>> \o <<c>>)[i] = IF i <= 2 THEN <<a, b>>[i] ELSE <<c>>[i - 2]
      BY <3>2, ConcatProperties
    <3> DEFINE two == <<a, b>> \o <<c>>
    <3>4. two[1] = a /\ two[2] = b /\ two[3] = c
      BY <3>3
    <3> HIDE DEF two
    <3>5. Len(two) = Len(<<a, b, c>>) /\ \A i \in 1 .. Len(two) : two[i] = <<a, b, c>>[i]
      BY <3>3, <3>4 DEF two
    <3>6. two \in Seq(S) /\ two = <<a, b, c>>
      BY <3>2, <3>3, <3>5, SeqEqual DEF two
    <3>7. QED BY <3>6 DEF two
  <2> DEFINE all == <<SystemNode(Root, "Root", "ROOT"), SystemNode(Inbox, "Inbox", "INBOX"),
                     SystemNode(Network, "Contacts", "NETWORK")>>
  <2>2. top \o net = all
    BY <2>1, Zenon
  <2>3. local = UpdatePathmap(all)
    BY Zenon DEF Init
  <2> HIDE DEF top, net, all
  <2>4. QED BY <2>2, <2>3
<1>2. /\ top \in Seq(GoodNode) /\ HandlesOf(top) = {Root, Inbox} /\ Unique(top)
      /\ net \in Seq(GoodNode) /\ HandlesOf(net) = {Network} /\ Unique(net)
  BY SystemNodes
<1> HIDE DEF top, net
<1>3. /\ top \o net \in Seq(GoodNode) /\ HandlesOf(top \o net) = {Root, Inbox, Network}
      /\ Unique(top \o net)
  <2>1. HandlesOf(top) \cap HandlesOf(net) \subseteq Users
    BY <1>2, SystemHandles
  <2>2. /\ top \o net \in Seq(GoodNode)
        /\ HandlesOf(top \o net) = HandlesOf(top) \cup HandlesOf(net)
        /\ Unique(top \o net)
    BY <1>2, <2>1, ConcatList
  <2>3. HandlesOf(top \o net) = {Root, Inbox, Network}
    BY <1>2, <2>2
  <2>4. QED BY <2>2, <2>3
<1>4. QED BY <1>1, <1>3, UpdateList DEF ListOK

\* A session that has just logged in.
LEMMA FsInit == Init => FsInv
<1> SUFFICES ASSUME Init PROVE FsInv
  OBVIOUS
<1>1. ListOK
  BY InitList
<1>2. /\ server = NoFiles /\ contacts = {} /\ call = NoCall /\ drift = FALSE
  BY DEF Init
<1>3. DOMAIN server = {} /\ IsFiniteSet(DOMAIN server) /\ IsFiniteSet(contacts)
  BY <1>2, FS_EmptySet DEF NoFiles
<1>4. TypeOK
  <2>1. local \in Seq(Node)
    BY <1>1, SeqMonotonic DEF ListOK, GoodNode
  <2>2. /\ call.kind = "none" /\ call.target = None /\ call.made = None /\ call.runs = 0
    BY <1>2 DEF NoCall
  <2>3. 0 \in 0 .. MaxRuns
    BY FsAssumption
  <2>4. QED BY <1>2, <1>3, <2>1, <2>2, <2>3 DEF TypeOK, Node
<1>5. CallOK
  BY <1>2 DEF CallOK, NoCall
<1>6. QED BY <1>1, <1>3, <1>4, <1>5 DEF FsInv

\* Every step keeps the invariant.
LEMMA FsStep ==
  ASSUME FsInv, [Next]_vars
  PROVE  FsInv'
<1>1. CASE UNCHANGED vars
  BY <1>1 DEF vars, FsInv, TypeOK, ListOK, CallOK
<1>2. QED
  BY <1>1, RefreshStep, MkdirStep, RmStep, PutStep, RunStep, SucceedStep, UnseenStep DEF Next

\* The list, the command in progress and the server's tree are well typed,
\* after any commands and refreshes and whatever other clients do.
THEOREM FsTypeCorrect == Spec => []TypeOK
<1>1. FsInv => TypeOK
  BY DEF FsInv
<1>2. FsInv /\ [Next]_vars => FsInv'
  BY FsStep
<1>3. QED BY FsInit, <1>1, <1>2, PTL DEF Spec

\* The parent pointers are always what update_pathmap would make them, also
\* after a put, which sets only its own (oldmega.c:3135), and no file, folder
\* or system node is in the list twice.
THEOREM ListIsLinked == Spec => []WellLinked
<1>1. FsInv => WellLinked
  BY DEF FsInv, ListOK, Current, Unique, WellLinked, PathmapCurrent, UniqueHandles
<1>2. FsInv /\ [Next]_vars => FsInv'
  BY FsStep
<1>3. QED BY FsInit, <1>1, <1>2, PTL DEF Spec

-----------------------------------------------------------------------------
(* Recursive functions over a rank, and induction along it.                  *)

\* Induction over the natural numbers, about a set.
LEMMA Induct ==
  ASSUME NEW T \in SUBSET Nat, 0 \in T, \A n \in T : n + 1 \in T
  PROVE  T = Nat
<1> DEFINE M == {n \in Nat : n \notin T}
<1>1. SUFFICES ASSUME M # {} PROVE FALSE
  OBVIOUS
<1>2. PICK m \in M : \A k \in M : m <= k
  <2>1. M \subseteq Nat
    OBVIOUS
  <2> HIDE DEF M
  <2>2. QED BY <1>1, <2>1, LeastOf
<1>3. m # 0 /\ m - 1 \in Nat /\ m - 1 \notin M
  BY <1>2
<1>4. QED BY <1>2, <1>3

\* A definition of a function on D with values in V: at the tops outright,
\* elsewhere by next from the value at up, which has a lower rank.
Recursive(D, V, tops, up, first, next, B, rank) ==
    /\ V # {} /\ tops \in SUBSET D /\ up \in [D \ tops -> D]
    /\ first \in [tops -> V] /\ next \in [D \ tops -> [V -> V]]
    /\ B \in Nat /\ rank \in [D -> 0 .. B]
    /\ \A i \in D \ tops : rank[up[i]] < rank[i]

Solves(f, D, V, tops, up, first, next) ==
    /\ f \in [D -> V]
    /\ \A i \in tops : f[i] = first[i]
    /\ \A i \in D \ tops : f[i] = next[i][f[up[i]]]

\* There is such a function.
LEMMA Recursion ==
  ASSUME NEW D, NEW V, NEW tops, NEW up, NEW first, NEW next, NEW B, NEW rank,
         Recursive(D, V, tops, up, first, next, B, rank)
  PROVE  \E f : Solves(f, D, V, tops, up, first, next)
<1> DEFINE Holds(f, i) == f[i] = IF i \in tops THEN first[i] ELSE next[i][f[up[i]]]
<1> DEFINE T == {n \in Nat : \E f \in [D -> V] : \A i \in D : rank[i] < n => Holds(f, i)}
<1>1. /\ V # {} /\ tops \in SUBSET D /\ up \in [D \ tops -> D]
      /\ first \in [tops -> V] /\ next \in [D \ tops -> [V -> V]]
      /\ B \in Nat /\ rank \in [D -> 0 .. B]
      /\ \A i \in D \ tops : rank[up[i]] < rank[i]
  BY DEF Recursive
<1>2. \A i \in D : rank[i] \in Nat /\ rank[i] < B + 1
  BY <1>1
<1>3. 0 \in T
  <2>1. PICK v : v \in V
    BY <1>1
  <2>2. [i \in D |-> v] \in [D -> V] /\ \A i \in D : ~(rank[i] < 0)
    BY <1>2, <2>1
  <2> HIDE DEF Holds
  <2>3. QED BY <2>2
<1>4. ASSUME NEW n \in T PROVE n + 1 \in T
  <2>1. PICK f \in [D -> V] : \A i \in D : rank[i] < n => Holds(f, i)
    OBVIOUS
  <2> DEFINE g == [i \in D |-> IF i \in tops THEN first[i] ELSE next[i][f[up[i]]]]
  <2>2. g \in [D -> V]
    BY <1>1
  <2>3. \A i \in D : g[i] = IF i \in tops THEN first[i] ELSE next[i][f[up[i]]]
    OBVIOUS
  <2> HIDE DEF g
  <2>4. ASSUME NEW i \in D, rank[i] < n + 1 PROVE Holds(g, i)
    <3>1. CASE i \in tops
      BY <2>3, <3>1
    <3>2. CASE i \notin tops
      <4>1. up[i] \in D /\ rank[up[i]] < rank[i]
        BY <1>1, <3>2
      <4>2. rank[up[i]] < n
        BY <1>2, <2>4, <4>1
      <4>3. Holds(f, up[i])
        BY <2>1, <4>1, <4>2
      <4>4. g[up[i]] = f[up[i]]
        BY <2>3, <4>1, <4>3
      <4>5. QED BY <2>3, <3>2, <4>4
    <3>3. QED BY <3>1, <3>2
  <2> HIDE DEF Holds
  <2>5. QED BY <2>2, <2>4
<1>5. T = Nat
  <2>1. T \in SUBSET Nat
    OBVIOUS
  <2> HIDE DEF T
  <2>2. QED BY <1>3, <1>4, <2>1, Induct
<1>6. B + 1 \in T
  <2> HIDE DEF T
  <2>1. QED BY <1>1, <1>5
<1>7. PICK f \in [D -> V] : \A i \in D : rank[i] < B + 1 => Holds(f, i)
  BY <1>6
<1>8. \A i \in D : Holds(f, i)
  BY <1>2, <1>7
<1>9. QED BY <1>1, <1>8 DEF Solves

\* What holds of i when it holds of up[i] holds everywhere.
LEMMA RankInduction ==
  ASSUME NEW D, NEW B \in Nat, NEW rank \in [D -> 0 .. B], NEW T \in SUBSET D,
         \A i \in D : (\A j \in D : rank[j] < rank[i] => j \in T) => i \in T
  PROVE  T = D
<1> DEFINE N == {n \in Nat : \A i \in D : rank[i] < n => i \in T}
<1>1. 0 \in N
  BY \A i \in D : ~(rank[i] < 0)
<1>2. ASSUME NEW n \in N PROVE n + 1 \in N
  <2>1. ASSUME NEW i \in D, rank[i] < n + 1 PROVE i \in T
    <3>1. \A j \in D : rank[j] < rank[i] => rank[j] < n
      BY <2>1
    <3>2. QED BY <3>1
  <2>2. QED BY <2>1
<1>3. N = Nat
  <2>1. N \in SUBSET Nat
    OBVIOUS
  <2> HIDE DEF N
  <2>2. QED BY <1>1, <1>2, <2>1, Induct
<1>4. B + 1 \in N
  BY <1>3
<1>5. \A i \in D : rank[i] < B + 1
  OBVIOUS
<1>6. QED BY <1>4, <1>5

-----------------------------------------------------------------------------
(* What rm takes with it: the nodes below a node.                            *)

Children(S) == {c \in DOMAIN server : server[c].parent \in S}

\* Below(h) holds h and with each node its children, nothing but what is on
\* the server, and each node in it but h for its parent's sake.  Each step
\* down adds a node or is the last, so that the number of nodes is enough.
LEMMA BelowClosed ==
  ASSUME IsFiniteSet(DOMAIN server), NEW h \in DOMAIN server
  PROVE  /\ h \in Below(h) /\ Below(h) \subseteq DOMAIN server
         /\ Children(Below(h)) \subseteq Below(h)
         /\ \A c \in Below(h) \ {h} : server[c].parent \in Below(h)
<1> DEFINE N == Cardinality(DOMAIN server)
<1> DEFINE D == 0 .. N
<1> DEFINE Eq(f) == f = [d \in D |-> IF d = 0 THEN {h} ELSE f[d - 1] \cup Children(f[d - 1])]
<1>1. N \in Nat
  BY FS_CardinalityType
<1>2. \E f : Eq(f)
  <2> DEFINE V == SUBSET DOMAIN server
  <2> DEFINE next == [d \in D \ {0} |-> [S \in V |-> S \cup Children(S)]]
  <2> DEFINE tops == {0}
  <2> DEFINE up == [d \in D \ {0} |-> d - 1]
  <2> DEFINE first == [d \in {0} |-> {h}]
  <2> DEFINE rank == [d \in D |-> d]
  <2>1. /\ V # {} /\ tops \in SUBSET D /\ rank \in [D -> 0 .. N]
        /\ first \in [tops -> V] /\ up \in [D \ tops -> D] /\ next \in [D \ tops -> [V -> V]]
        /\ \A d \in D \ tops : rank[up[d]] < rank[d]
    BY <1>1 DEF Children
  <2>2. /\ \A d \in D : d \in tops <=> d = 0
        /\ \A d \in D \ {0} : up[d] = d - 1
        /\ first[0] = {h}
        /\ \A d \in D \ {0}, S \in V : next[d][S] = S \cup Children(S)
    BY <1>1
  <2> HIDE DEF V, tops, next, up, first, rank, D, N
  <2>3. Recursive(D, V, tops, up, first, next, N, rank)
    BY <1>1, <2>1 DEF Recursive
  <2>4. PICK f : Solves(f, D, V, tops, up, first, next)
    BY <2>3, Recursion
  <2>5. ASSUME NEW d \in D
        PROVE  f[d] = IF d = 0 THEN {h} ELSE f[d - 1] \cup Children(f[d - 1])
    <3>1. CASE d = 0
      BY <2>2, <2>4, <3>1 DEF Solves
    <3>2. CASE d # 0
      <4>1. up[d] \in D /\ up[d] = d - 1
        BY <2>1, <2>2, <3>2
      <4>2. f[d - 1] \in V
        BY <2>4, <4>1 DEF Solves
      <4>3. QED BY <2>2, <2>4, <3>2, <4>1, <4>2 DEF Solves
    <3>3. QED BY <3>1, <3>2
  <2>6. Eq(f)
    BY <2>4, <2>5 DEF Solves
  <2>7. QED BY <2>6
<1> DEFINE down == CHOOSE f : Eq(f)
<1>3. Below(h) = down[N]
  BY DEF Below, Children
<1>4. Eq(down)
  BY <1>2
<1>5. /\ down[0] = {h}
      /\ \A d \in Nat : d + 1 \in D => down[d + 1] = down[d] \cup Children(down[d])
  <2> HIDE DEF N, down
  <2>1. \A d \in D : down[d] = IF d = 0 THEN {h} ELSE down[d - 1] \cup Children(down[d - 1])
    BY <1>4
  <2>2. ASSUME NEW d \in Nat, d + 1 \in D PROVE down[d + 1] = down[d] \cup Children(down[d])
    <3>1. d + 1 # 0 /\ (d + 1) - 1 = d
      OBVIOUS
    <3>2. QED BY <2>1, <2>2, <3>1
  <2>3. 0 \in D
    BY <1>1
  <2>4. QED BY <2>1, <2>2, <2>3
<1> HIDE DEF N, down, Eq
<1> DEFINE Good(S) == /\ h \in S /\ S \subseteq DOMAIN server
                      /\ \A c \in S \ {h} : server[c].parent \in S
<1> DEFINE T == {d \in Nat : d \in D => /\ Good(down[d])
                                        /\ (Children(down[d]) \subseteq down[d]
                                             \/ Cardinality(down[d]) >= d + 1)}
<1>6. 0 \in T
  <2>1. Good(down[0])
    BY <1>5
  <2>2. Cardinality(down[0]) = 1
    BY <1>5, FS_Singleton
  <2>3. QED BY <2>1, <2>2
<1>7. ASSUME NEW d \in T PROVE d + 1 \in T
  <2>1. SUFFICES ASSUME d + 1 \in D
                 PROVE  /\ Good(down[d + 1])
                        /\ (Children(down[d + 1]) \subseteq down[d + 1]
                             \/ Cardinality(down[d + 1]) >= d + 2)
    OBVIOUS
  <2>2. /\ d \in D /\ Good(down[d]) /\ down[d + 1] = down[d] \cup Children(down[d])
        /\ (Children(down[d]) \subseteq down[d] \/ Cardinality(down[d]) >= d + 1)
    BY <1>1, <1>5, <2>1
  <2>3. Good(down[d + 1])
    BY <2>2 DEF Children
  <2>4. CASE Children(down[d]) \subseteq down[d]
    BY <2>2, <2>3, <2>4
  <2>5. CASE ~(Children(down[d]) \subseteq down[d])
    <3>1. PICK c \in Children(down[d]) : c \notin down[d]
      BY <2>5
    <3>2. IsFiniteSet(down[d]) /\ IsFiniteSet(down[d + 1])
      BY <2>2, <2>3, FS_Subset
    <3>3. /\ IsFiniteSet(down[d] \cup {c}) /\ Cardinality(down[d]) \in Nat
          /\ Cardinality(down[d] \cup {c}) = Cardinality(down[d]) + 1
      BY <3>1, <3>2, FS_AddElement, FS_CardinalityType
    <3>4. down[d] \cup {c} \subseteq down[d + 1]
      BY <2>2, <3>1
    <3>5. /\ Cardinality(down[d + 1]) \in Nat
          /\ Cardinality(down[d] \cup {c}) <= Cardinality(down[d + 1])
      BY <3>2, <3>4, FS_Subset, FS_CardinalityType
    <3>6. QED BY <2>2, <2>3, <2>5, <3>3, <3>5
  <2>6. QED BY <2>4, <2>5
<1>8. T = Nat
  <2>1. T \in SUBSET Nat
    OBVIOUS
  <2> HIDE DEF T
  <2>2. QED BY <1>6, <1>7, <2>1, Induct
<1>9. N \in T /\ N \in D
  <2> HIDE DEF T
  <2>1. QED BY <1>1, <1>8
<1>10. Good(down[N])
  BY <1>9
<1>11. Children(down[N]) \subseteq down[N]
  <2>1. CASE Cardinality(down[N]) >= N + 1
    <3>1. Cardinality(down[N]) <= N /\ Cardinality(down[N]) \in Nat
      <4>1. down[N] \subseteq DOMAIN server
        BY <1>10
      <4>2. IsFiniteSet(down[N]) /\ Cardinality(down[N]) <= Cardinality(DOMAIN server)
        BY <4>1, FS_Subset
      <4>3. QED BY <4>2, FS_CardinalityType DEF N
    <3>2. QED BY <1>1, <2>1, <3>1
  <2>2. QED BY <1>9, <2>1
<1>12. QED BY <1>3, <1>10, <1>11

-----------------------------------------------------------------------------
(* The nodes of the list after a command.                                    *)

\* Two nodes alike but for where their parent pointers go.
Same(m, n) ==
    m.handle = n.handle /\ m.name = n.name /\ m.type = n.type /\ m.parentHandle = n.parentHandle

\* update_pathmap changes nothing else.
LEMMA UpdateNodes ==
  ASSUME NEW list \in Seq(GoodNode)
  PROVE  /\ DOMAIN UpdatePathmap(list) = DOMAIN list
         /\ \A i \in DOMAIN list : Same(UpdatePathmap(list)[i], list[i])
<1>1. \A i \in DOMAIN list : list[i] \in GoodNode
  BY ListType
<1>2. /\ DOMAIN UpdatePathmap(list) = DOMAIN list
      /\ \A i \in DOMAIN list :
            UpdatePathmap(list)[i] = [list[i] EXCEPT !.parent = NewParent(list, list[i])]
  BY UpdateList
<1>3. QED BY <1>1, <1>2 DEF Same, GoodNode, Node

\* The nodes of two lists one after the other.
LEMMA ConcatNodes ==
  ASSUME NEW s \in Seq(GoodNode), NEW t \in Seq(GoodNode), NEW i \in DOMAIN (s \o t)
  PROVE  \/ \E j \in DOMAIN s : i = j /\ (s \o t)[i] = s[j]
         \/ \E j \in DOMAIN t : i = Len(s) + j /\ (s \o t)[i] = t[j]
<1>1. /\ s \o t \in Seq(GoodNode) /\ Len(s \o t) = Len(s) + Len(t)
      /\ \A k \in 1 .. Len(s) + Len(t) :
            (s \o t)[k] = IF k <= Len(s) THEN s[k] ELSE t[k - Len(s)]
  BY ConcatProperties
<1>2. /\ DOMAIN s = 1 .. Len(s) /\ DOMAIN t = 1 .. Len(t)
      /\ DOMAIN (s \o t) = 1 .. Len(s \o t)
      /\ Len(s) \in Nat /\ Len(t) \in Nat
  BY <1>1, ListType
<1>3. CASE i <= Len(s)
  BY <1>1, <1>2, <1>3
<1>4. CASE i > Len(s)
  <2>1. i - Len(s) \in DOMAIN t /\ i = Len(s) + (i - Len(s)) /\ (s \o t)[i] = t[i - Len(s)]
    BY <1>1, <1>2, <1>4
  <2>2. QED BY <2>1
<1>5. QED BY <1>1, <1>2, <1>3, <1>4

\* The nodes of a list one longer.
LEMMA AppendNodes ==
  ASSUME NEW list \in Seq(GoodNode), NEW n \in GoodNode
  PROVE  /\ DOMAIN Append(list, n) = DOMAIN list \cup {Len(list) + 1}
         /\ Len(list) + 1 \notin DOMAIN list
         /\ \A i \in DOMAIN list : Append(list, n)[i] = list[i]
         /\ Append(list, n)[Len(list) + 1] = n
<1>1. /\ Append(list, n) \in Seq(GoodNode) /\ Len(Append(list, n)) = Len(list) + 1
      /\ \A i \in 1 .. Len(list) : Append(list, n)[i] = list[i]
      /\ Append(list, n)[Len(list) + 1] = n
  BY AppendProperties
<1>2. /\ DOMAIN list = 1 .. Len(list) /\ Len(list) \in Nat
      /\ DOMAIN Append(list, n) = 1 .. Len(Append(list, n))
  BY <1>1, ListType
<1>3. QED BY <1>1, <1>2

\* The nodes of a list one shorter.
LEMMA RemovedNodes ==
  ASSUME NEW list \in Seq(GoodNode), NEW k \in DOMAIN list, NEW i \in DOMAIN Without1(list, k)
  PROVE  \E j \in DOMAIN list \ {k} : Without1(list, k)[i] = list[j]
<1> DEFINE n == Len(list)
<1> DEFINE s == SubSeq(list, 1, k - 1)
<1> DEFINE t == SubSeq(list, k + 1, n)
<1>1. n \in Nat /\ DOMAIN list = 1 .. n /\ k \in 1 .. n
  BY ListType
<1>2. s \in Seq(GoodNode) /\ t \in Seq(GoodNode)
  BY <1>1, SubList
<1>3. ASSUME NEW j \in DOMAIN s PROVE j \in DOMAIN list \ {k} /\ s[j] = list[j]
  <2>1. /\ Len(s) = IF 1 <= k - 1 THEN k - 1 - 1 + 1 ELSE 0
        /\ \A m \in 1 .. k - 1 - 1 + 1 : s[m] = list[1 + m - 1]
    <3>1. \A m \in 1 .. k - 1 : list[m] \in GoodNode
      BY <1>1, ListType
    <3>2. QED BY <1>1, <3>1, SubSeqProperties
  <2>2. j \in 1 .. k - 1
    BY <1>1, <1>2, <2>1, ListType
  <2>3. 1 + j - 1 = j /\ j \in 1 .. k - 1 - 1 + 1
    BY <2>2, <1>1
  <2>4. s[j] = list[j]
    <3>1. s[j] = list[1 + j - 1]
      BY <2>1, <2>3
    <3>2. QED BY <2>3, <3>1
  <2>5. j \in 1 .. n /\ j # k
    BY <1>1, <2>2
  <2>6. QED BY <1>1, <2>4, <2>5
<1>4. ASSUME NEW j \in DOMAIN t PROVE k + j \in DOMAIN list \ {k} /\ t[j] = list[k + j]
  <2>1. /\ Len(t) = IF k + 1 <= n THEN n - (k + 1) + 1 ELSE 0
        /\ \A m \in 1 .. n - (k + 1) + 1 : t[m] = list[k + 1 + m - 1]
    <3>1. \A m \in k + 1 .. n : list[m] \in GoodNode
      BY <1>1, ListType
    <3>2. QED BY <1>1, <3>1, SubSeqProperties, SMTT(30)
  <2>2. j \in 1 .. n - k
    BY <1>1, <1>2, <2>1, ListType
  <2>3. k + 1 + j - 1 = k + j /\ j \in 1 .. n - (k + 1) + 1
    BY <2>2, <1>1
  <2>4. t[j] = list[k + j]
    <3>1. t[j] = list[k + 1 + j - 1]
      BY <2>1, <2>3
    <3>2. QED BY <2>3, <3>1
  <2>5. k + j \in 1 .. n /\ k + j # k
    BY <1>1, <2>2
  <2>6. QED BY <1>1, <2>4, <2>5
<1>5. \/ \E j \in DOMAIN s : Without1(list, k)[i] = s[j]
      \/ \E j \in DOMAIN t : Without1(list, k)[i] = t[j]
  BY <1>2, ConcatNodes DEF Without1
<1>6. QED BY <1>3, <1>4, <1>5

\* The node mkdir or put adds when it succeeds.
Added == IF call.kind = "put" THEN [Made("FILE") EXCEPT !.parent = call.target]
         ELSE IF call.kind = "mkdir" THEN Made("FOLDER")
         ELSE ParsedUser(call.name)

\* It is the node that was made, and hangs where it was asked for.
LEMMA AddedNode ==
  ASSUME FsInv, call.kind \in {"mkdir", "put"}, call.runs > 0
  PROVE  /\ Added \in GoodNode /\ Added.handle = call.made /\ Added.parentHandle = call.target
         /\ Added.name = call.name
         /\ Added.type = IF call.kind = "put" THEN "FILE" ELSE "FOLDER"
<1>1. ASSUME NEW t \in {"FILE", "FOLDER"}
      PROVE  /\ [Made(t) EXCEPT !.parent = call.target].handle = Made(t).handle
             /\ [Made(t) EXCEPT !.parent = call.target].name = Made(t).name
             /\ [Made(t) EXCEPT !.parent = call.target].type = Made(t).type
             /\ [Made(t) EXCEPT !.parent = call.target].parentHandle = Made(t).parentHandle
  <2>1. Made(t) \in Node
    BY MadeNode DEF GoodNode
  <2>2. QED BY <2>1 DEF Node
<1>2. \A t \in {"FILE", "FOLDER"} : Made(t).name = call.name
  BY DEF Made, Parsed
<1>3. CASE call.kind = "put"
  BY <1>1, <1>2, <1>3, MadeNode DEF Added
<1>4. CASE call.kind = "mkdir"
  BY <1>2, <1>4, MadeNode DEF Added
<1>5. QED BY <1>3, <1>4

\* What a command that succeeds makes of the list: a node more at the end, or
\* one less.
LEMMA SucceedNodes ==
  ASSUME FsInv, Succeed
  PROVE  /\ call.kind \in {"mkdir", "put", "add_user"} =>
              /\ Added \in GoodNode
              /\ DOMAIN local' = DOMAIN local \cup {Len(local) + 1}
              /\ Len(local) + 1 \notin DOMAIN local
              /\ \A i \in DOMAIN local : Same(local'[i], local[i])
              /\ Same(local'[Len(local) + 1], Added)
              /\ HandlesOf(local') = HandlesOf(local) \cup {Added.handle}
         /\ call.kind \in {"rm", "rm_user"} =>
              /\ \A i \in DOMAIN local' :
                    \E j \in DOMAIN local \ {StatIndex(local, call.path)} :
                        Same(local'[i], local[j])
              /\ HandlesOf(local') =
                   {local[i].handle : i \in DOMAIN local \ {StatIndex(local, call.path)}}
<1>1. local \in Seq(GoodNode) /\ Unique(local) /\ call.kind # "none" /\ call.runs > 0
  BY DEF FsInv, ListOK, Succeed
<1>2. CASE call.kind \in {"mkdir", "add_user"}
  <2>1. local' = UpdatePathmap(Append(local, Added))
    BY <1>2 DEF Succeed, Appended, Added
  <2>2. Added \in GoodNode
    <3>1. CASE call.kind = "mkdir"
      BY <1>1, <3>1, MadeNode DEF Added
    <3>2. CASE call.kind = "add_user"
      <4>1. call.name \in Users
        BY <3>2 DEF FsInv, CallOK
      <4>2. QED
        BY <3>2, <4>1, FsAssumption
        DEF Added, ParsedUser, GoodNode, Node, NodeTypes, SystemTypes, AnyHandle
    <3>3. QED BY <1>2, <3>1, <3>2
  <2> DEFINE longer == Append(local, Added)
  <2>3. /\ longer \in Seq(GoodNode) /\ HandlesOf(longer) = HandlesOf(local) \cup {Added.handle}
        /\ DOMAIN longer = DOMAIN local \cup {Len(local) + 1}
        /\ Len(local) + 1 \notin DOMAIN local
        /\ \A i \in DOMAIN local : longer[i] = local[i]
        /\ longer[Len(local) + 1] = Added
    BY <1>1, <2>2, AppendList, AppendNodes
  <2> HIDE DEF longer
  <2>4. /\ HandlesOf(local') = HandlesOf(longer) /\ DOMAIN local' = DOMAIN longer
        /\ \A i \in DOMAIN longer : Same(local'[i], longer[i])
    BY <2>1, <2>3, UpdateList, UpdateNodes DEF longer
  <2>5. QED BY <1>2, <2>2, <2>3, <2>4
<1>3. CASE call.kind = "put"
  <2>1. local' = Append(local, Added)
    BY <1>3 DEF Succeed, AppendedFile, Added
  <2>2. Added \in GoodNode
    BY <1>1, <1>3, MadeNode DEF Added
  <2>3. /\ HandlesOf(local') = HandlesOf(local) \cup {Added.handle}
        /\ DOMAIN local' = DOMAIN local \cup {Len(local) + 1}
        /\ Len(local) + 1 \notin DOMAIN local
        /\ \A i \in DOMAIN local : local'[i] = local[i]
        /\ local'[Len(local) + 1] = Added
    BY <1>1, <2>1, <2>2, AppendList, AppendNodes
  <2>4. QED BY <1>3, <2>2, <2>3 DEF Same
<1>4. CASE call.kind \in {"rm", "rm_user"}
  <2> DEFINE k == StatIndex(local, call.path)
  <2>1. local' = UpdatePathmap(Without1(local, k))
    BY <1>4 DEF Succeed, Removed, Without1
  <2>2. k \in DOMAIN local
    BY <1>4 DEF FsInv, CallOK
  <2> HIDE DEF k
  <2> DEFINE shorter == Without1(local, k)
  <2>3. /\ shorter \in Seq(GoodNode)
        /\ HandlesOf(shorter) = {local[i].handle : i \in DOMAIN local \ {k}}
        /\ \A i \in DOMAIN shorter : \E j \in DOMAIN local \ {k} : shorter[i] = local[j]
    BY <1>1, <2>2, RemovedList, RemovedNodes
  <2> HIDE DEF shorter
  <2>4. /\ HandlesOf(local') = HandlesOf(shorter) /\ DOMAIN local' = DOMAIN shorter
        /\ \A i \in DOMAIN shorter : Same(local'[i], shorter[i])
    BY <2>1, <2>3, UpdateList, UpdateNodes DEF shorter
  <2>5. ASSUME NEW i \in DOMAIN local' PROVE \E j \in DOMAIN local \ {k} : Same(local'[i], local[j])
    BY <2>3, <2>4
  <2>6. QED BY <1>4, <2>3, <2>4, <2>5 DEF k
<1>5. QED BY <1>1, <1>2, <1>3, <1>4 DEF FsInv, TypeOK

-----------------------------------------------------------------------------
(* The nodes of the list after a refresh.                                    *)

\* A node as the server has it.
SameNode(n, rec) == n.name = rec.name /\ n.type = rec.type /\ n.parentHandle = rec.parent

\* An order without repetition, as long as a set, lists all of it.
LEMMA AllListed ==
  ASSUME NEW S, IsFiniteSet(S), NEW f \in [1 .. Cardinality(S) -> S],
         \A i, j \in DOMAIN f : f[i] = f[j] => i = j
  PROVE  {f[i] : i \in DOMAIN f} = S
<1> DEFINE n == Cardinality(S)
<1>1. n \in Nat
  BY FS_CardinalityType
<1>2. Cardinality(1 .. n) = n
  BY <1>1, FS_Interval
<1>3. f \in Injection(1 .. n, S)
  BY DEF Injection, IsInjective
<1>4. f \in Surjection(1 .. n, S)
  BY <1>2, <1>3, FS_Injection
<1>5. QED BY <1>4 DEF Surjection

\* After a refresh the list has the server's files, its contacts and the
\* system's nodes, the files as the server has them.
LEMMA RefreshNodes ==
  ASSUME FsInv, Refresh
  PROVE  /\ HandlesOf(local') = {Root, Inbox, Network} \cup DOMAIN server \cup contacts
         /\ \A i \in DOMAIN local' :
               local'[i].handle \in Handles =>
                 /\ local'[i].handle \in DOMAIN server
                 /\ SameNode(local'[i], server[local'[i].handle])
<1>1. PICK files \in Orders, users \in UserOrders : local' = UpdatePathmap(Imported(files, users))
  BY DEF Refresh
<1> DEFINE top == <<SystemNode(Root, "Root", "ROOT"), SystemNode(Inbox, "Inbox", "INBOX")>>
<1> DEFINE mid == [i \in DOMAIN files |-> Parsed(files[i], server[files[i]])]
<1> DEFINE net == <<SystemNode(Network, "Contacts", "NETWORK")>>
<1> DEFINE end == [i \in DOMAIN users |-> ParsedUser(users[i])]
<1> DEFINE all == Imported(files, users)
<1>2. /\ all \in Seq(GoodNode)
      /\ HandlesOf(all) = {Root, Inbox, Network} \cup {files[i] : i \in DOMAIN files}
                                                 \cup {users[i] : i \in DOMAIN users}
  BY ImportedList
<1>3. {files[i] : i \in DOMAIN files} = DOMAIN server
  BY AllListed DEF Orders, FsInv
<1>4. {users[i] : i \in DOMAIN users} = contacts
  BY AllListed DEF UserOrders, FsInv
<1> HIDE DEF all
<1>5. /\ DOMAIN local' = DOMAIN all /\ HandlesOf(local') = HandlesOf(all)
      /\ \A i \in DOMAIN all : Same(local'[i], all[i])
  BY <1>1, <1>2, UpdateList, UpdateNodes DEF all
<1>6. ASSUME NEW i \in DOMAIN all, all[i].handle \in Handles
      PROVE  all[i].handle \in DOMAIN server /\ SameNode(all[i], server[all[i].handle])
  <2>1. all = ((top \o mid) \o net) \o end
    BY DEF all, Imported
  <2>2. top \in Seq(GoodNode) /\ net \in Seq(GoodNode)
    BY SystemNodes
  <2>3. mid \in Seq(GoodNode) /\ end \in Seq(GoodNode)
    BY ImportedParts
  <2> HIDE DEF top, mid, net, end
  <2>4. (top \o mid) \in Seq(GoodNode)
    BY <2>2, <2>3, ConcatList
  <2>5. ((top \o mid) \o net) \in Seq(GoodNode)
    BY <2>2, <2>4, ConcatList
  <2>6. \/ \E j \in DOMAIN end : all[i] = end[j]
        \/ \E j \in DOMAIN ((top \o mid) \o net) : all[i] = ((top \o mid) \o net)[j]
    BY <2>1, <2>3, <2>5, ConcatNodes
  <2>7. ASSUME NEW j \in DOMAIN ((top \o mid) \o net)
        PROVE  \/ \E k \in DOMAIN net : ((top \o mid) \o net)[j] = net[k]
               \/ \E k \in DOMAIN (top \o mid) : ((top \o mid) \o net)[j] = (top \o mid)[k]
    BY <2>2, <2>4, ConcatNodes
  <2>8. ASSUME NEW j \in DOMAIN (top \o mid)
        PROVE  \/ \E k \in DOMAIN top : (top \o mid)[j] = top[k]
               \/ \E k \in DOMAIN mid : (top \o mid)[j] = mid[k]
    BY <2>2, <2>3, ConcatNodes
  <2>9. \/ \E j \in DOMAIN top : all[i] = top[j]
        \/ \E j \in DOMAIN mid : all[i] = mid[j]
        \/ \E j \in DOMAIN net : all[i] = net[j]
        \/ \E j \in DOMAIN end : all[i] = end[j]
    BY <2>6, <2>7, <2>8
  <2>10. \A j \in DOMAIN top : top[j].handle \notin Handles
    BY FsAssumption DEF top, SystemNode
  <2>11. \A j \in DOMAIN net : net[j].handle \notin Handles
    BY FsAssumption DEF net, SystemNode
  <2>12. \A j \in DOMAIN end : end[j].handle \notin Handles
    BY <1>4, FsAssumption DEF end, ParsedUser, FsInv, TypeOK
  <2>13. PICK j \in DOMAIN mid : all[i] = mid[j]
    BY <1>6, <2>9, <2>10, <2>11, <2>12
  <2>14. all[i] = Parsed(files[j], server[files[j]]) /\ files[j] \in DOMAIN server
    BY <1>3, <2>13 DEF mid
  <2>15. QED BY <2>14 DEF Parsed, SameNode
<1>7. ASSUME NEW i \in DOMAIN local', local'[i].handle \in Handles
      PROVE  local'[i].handle \in DOMAIN server /\ SameNode(local'[i], server[local'[i].handle])
  BY <1>5, <1>6, <1>7 DEF Same, SameNode
<1>8. QED BY <1>2, <1>3, <1>4, <1>5, <1>7

-----------------------------------------------------------------------------
(* The parents of the nodes make a tree.                                     *)

\* A number for every handle that falls from each node to its parent, on the
\* server, in the list, and for the node mkdir or put is about to add.
Ranks(r) ==
    /\ \A h \in DOMAIN server : r[server[h].parent] < r[h]
    /\ \A i \in DOMAIN local :
          local[i].handle \in Handles => r[local[i].parentHandle] < r[local[i].handle]
    /\ call.kind \in {"mkdir", "put"} /\ call.runs > 0 => r[call.target] < r[call.made]

\* The server holds the parent of all it holds, and no node is above itself.
TreeInv ==
    /\ \A h \in DOMAIN server : server[h].parent \in DOMAIN server \cup {Root}
    /\ \E B \in Nat : \E r \in [AnyHandle -> 0 .. B] : Ranks(r)

\* A new node fits below a folder.
LEMMA WithTree ==
  ASSUME FsInv, TreeInv, NEW h \in Handles, Fresh(h), NEW rec \in ServerNodes,
         rec.parent \in DOMAIN server \cup {Root},
         server' = With(h, rec), UNCHANGED local,
         call'.kind = call.kind, call'.target = call.target,
         \/ call'.made = call.made /\ call'.runs = call.runs
         \/ call'.made = h /\ call.target = rec.parent
  PROVE  TreeInv'
<1>1. PICK B \in Nat : \E r \in [AnyHandle -> 0 .. B] : Ranks(r)
  BY DEF TreeInv
<1>2. PICK r \in [AnyHandle -> 0 .. B] : Ranks(r)
  BY <1>1
<1> DEFINE p == rec.parent
<1> DEFINE s == [r EXCEPT ![h] = r[p] + 1]
<1>3. /\ h \in AnyHandle /\ p \in AnyHandle /\ p # h /\ h # Root /\ h \notin DOMAIN server
      /\ \A g \in AnyHandle : r[g] \in Nat /\ r[g] <= B
  BY FsAssumption DEF AnyHandle, Fresh, FsInv, TypeOK
<1>4. /\ s \in [AnyHandle -> 0 .. B + 1] /\ s[h] = r[p] + 1
      /\ \A g \in AnyHandle : g # h => s[g] = r[g]
  BY <1>3
<1> HIDE DEF s
<1>5. /\ DOMAIN server' = DOMAIN server \cup {h} /\ server'[h] = rec
      /\ \A g \in DOMAIN server : server'[g] = server[g]
  BY <1>3 DEF With
<1>6. \A g \in DOMAIN server : /\ server[g].parent \in DOMAIN server \cup {Root}
                               /\ server[g].parent # h /\ g # h
                               /\ g \in AnyHandle /\ server[g].parent \in AnyHandle
  BY <1>3 DEF TreeInv, AnyHandle, FsInv, TypeOK
<1>7. \A g \in DOMAIN server' : s[server'[g].parent] < s[g]
  <2>1. s[server'[h].parent] < s[h]
    BY <1>3, <1>4, <1>5
  <2>2. ASSUME NEW g \in DOMAIN server PROVE s[server'[g].parent] < s[g]
    BY <1>2, <1>4, <1>5, <1>6 DEF Ranks
  <2>3. QED BY <1>5, <2>1, <2>2
<1>8. ASSUME NEW i \in DOMAIN local, local[i].handle \in Handles
      PROVE  s[local[i].parentHandle] < s[local[i].handle]
  <2>1. /\ local[i] \in GoodNode /\ local[i].handle # h /\ local[i].parentHandle # h
    BY ListType DEF FsInv, ListOK, Fresh, HandlesOf
  <2>2. local[i].handle \in AnyHandle /\ local[i].parentHandle \in AnyHandle
    BY <1>8, <2>1 DEF GoodNode, Node, AnyHandle
  <2>3. QED BY <1>2, <1>4, <1>8, <2>1, <2>2 DEF Ranks
<1>9. ASSUME call'.kind \in {"mkdir", "put"}, call'.runs > 0
      PROVE  s[call'.target] < s[call'.made]
  <2>1. CASE call'.made = h /\ call.target = rec.parent
    BY <1>3, <1>4, <2>1
  <2>2. CASE call'.made = call.made /\ call'.runs = call.runs
    <3>1. /\ call.made \in AnyHandle /\ call.target \in AnyHandle
          /\ call.made # h /\ call.target # h /\ r[call.target] < r[call.made]
      BY <1>2, <1>9, <2>2 DEF Ranks, FsInv, CallOK, AnyHandle, Fresh
    <3>2. QED BY <1>4, <2>2, <3>1
  <2>3. QED BY <2>1, <2>2
<1>10. Ranks(s)'
  BY <1>7, <1>8, <1>9 DEF Ranks
<1>11. \A g \in DOMAIN server' : server'[g].parent \in DOMAIN server' \cup {Root}
  BY <1>5, <1>6
<1>12. QED BY <1>4, <1>10, <1>11 DEF TreeInv

\* What is below a node goes with it.
LEMMA WithoutTree ==
  ASSUME FsInv, TreeInv, NEW h \in DOMAIN server,
         server' = Without(Below(h)), UNCHANGED local,
         call'.kind = call.kind, call'.target = call.target, call'.made = call.made,
         call'.runs > 0 /\ call.kind \in {"mkdir", "put"} => call.runs > 0
  PROVE  TreeInv'
<1>1. PICK B \in Nat : \E r \in [AnyHandle -> 0 .. B] : Ranks(r)
  BY DEF TreeInv
<1>2. PICK r \in [AnyHandle -> 0 .. B] : Ranks(r)
  BY <1>1
<1>3. /\ DOMAIN server' = DOMAIN server \ Below(h)
      /\ \A g \in DOMAIN server' : server'[g] = server[g]
  BY DEF Without
<1>4. Children(Below(h)) \subseteq Below(h)
  BY BelowClosed DEF FsInv
<1>5. \A g \in DOMAIN server' : server'[g].parent \in DOMAIN server' \cup {Root}
  BY <1>3, <1>4 DEF TreeInv, Children
<1>6. Ranks(r)'
  BY <1>2, <1>3 DEF Ranks
<1>7. QED BY <1>5, <1>6 DEF TreeInv

\* A command's answer: the new node falls to its parent by the rank kept for it.
LEMMA SucceedTree ==
  ASSUME FsInv, TreeInv, Succeed
  PROVE  TreeInv'
<1>1. PICK B \in Nat : \E r \in [AnyHandle -> 0 .. B] : Ranks(r)
  BY DEF TreeInv
<1>2. PICK r \in [AnyHandle -> 0 .. B] : Ranks(r)
  BY <1>1
<1>3. /\ call.kind # "none" /\ call.runs > 0 /\ call'.kind = "none" /\ UNCHANGED server
      /\ call.kind \in {"mkdir", "put", "add_user", "rm", "rm_user"}
  BY DEF Succeed, NoCall, FsInv, TypeOK
<1>4. ASSUME NEW i \in DOMAIN local', local'[i].handle \in Handles
      PROVE  r[local'[i].parentHandle] < r[local'[i].handle]
  <2>1. ASSUME NEW j \in DOMAIN local, Same(local'[i], local[j])
        PROVE  r[local'[i].parentHandle] < r[local'[i].handle]
    BY <1>2, <1>4, <2>1 DEF Same, Ranks
  <2>2. CASE call.kind \in {"rm", "rm_user"}
    BY <2>1, <2>2, SucceedNodes
  <2>3. CASE call.kind \in {"mkdir", "put", "add_user"}
    <3>1. CASE i \in DOMAIN local
      BY <2>1, <2>3, <3>1, SucceedNodes
    <3>2. CASE Same(local'[i], Added)
      <4>1. Added.handle \in Handles
        BY <1>4, <3>2 DEF Same
      <4>2. call.kind # "add_user"
        <5>1. call.kind = "add_user" => Added.handle = call.name /\ call.name \in Users
          BY DEF Added, ParsedUser, FsInv, CallOK
        <5>2. QED BY <4>1, <5>1, FsAssumption
      <4>3. Added.handle = call.made /\ Added.parentHandle = call.target
        BY <1>3, <2>3, <4>2, AddedNode
      <4>4. QED BY <1>2, <1>3, <2>3, <3>2, <4>2, <4>3 DEF Same, Ranks
    <3>3. QED BY <2>3, <3>1, <3>2, SucceedNodes
  <2>4. QED BY <1>3, <2>2, <2>3
<1>5. Ranks(r)'
  BY <1>2, <1>3, <1>4 DEF Ranks
<1>6. QED BY <1>3, <1>5 DEF TreeInv

\* A refresh: the list gets its parents from the server, which has a tree.
LEMMA RefreshTree ==
  ASSUME FsInv, TreeInv, Refresh
  PROVE  TreeInv'
<1>1. PICK B \in Nat : \E r \in [AnyHandle -> 0 .. B] : Ranks(r)
  BY DEF TreeInv
<1>2. PICK r \in [AnyHandle -> 0 .. B] : Ranks(r)
  BY <1>1
<1>3. UNCHANGED <<server, call>> /\ call.kind = "none"
  BY DEF Refresh
<1>4. Ranks(r)'
  BY <1>2, <1>3, RefreshNodes DEF Ranks, SameNode
<1>5. QED BY <1>3, <1>4 DEF TreeInv

\* A request: the server adds one node below another or takes a whole subtree away.
LEMMA RunTree ==
  ASSUME FsInv, TreeInv, Run
  PROVE  TreeInv'
<1>1. UNCHANGED local
  BY DEF Run
<1>2. ASSUME call.kind \in {"mkdir", "put"}, IsFolder(call.target), NEW h \in Handles, Fresh(h),
             server' = With(h, [parent |-> call.target, name |-> call.name, mine |-> TRUE,
                                type |-> IF call.kind = "put" THEN "FILE" ELSE "FOLDER"]),
             call' = [call EXCEPT !.runs = @ + 1, !.made = h]
      PROVE  TreeInv'
  <2> DEFINE rec == [parent |-> call.target, name |-> call.name, mine |-> TRUE,
                     type |-> IF call.kind = "put" THEN "FILE" ELSE "FOLDER"]
  <2>1. call.target \in Handles \cup {Root} /\ call.name \in Names
        /\ call.target \in DOMAIN server \cup {Root}
    BY <1>2 DEF FsInv, TypeOK, CallOK, IsFolder
  <2>2. rec \in ServerNodes /\ rec.parent = call.target
    BY <2>1 DEF ServerNodes
  <2>3. server' = With(h, rec)
    BY <1>2
  <2>4. call'.kind = call.kind /\ call'.target = call.target /\ call'.made = h
    <3>1. call' = [kind |-> call.kind, path |-> call.path, target |-> call.target,
                   name |-> call.name, runs |-> call.runs + 1, made |-> h]
      BY <1>2 DEF FsInv, CallOK
    <3>2. QED BY <3>1
  <2> HIDE DEF rec
  <2>5. QED BY <1>1, <1>2, <2>1, <2>2, <2>3, <2>4, WithTree
<1>3. CASE /\ call.kind = "rm" /\ call.target \in DOMAIN server
           /\ server' = Without(Below(call.target))
           /\ call' = [call EXCEPT !.runs = @ + 1]
  <2>1. call'.kind = call.kind /\ call'.target = call.target /\ call'.made = call.made
    <3>1. call' = [kind |-> call.kind, path |-> call.path, target |-> call.target,
                   name |-> call.name, runs |-> call.runs + 1, made |-> call.made]
      BY <1>3 DEF FsInv, CallOK
    <3>2. QED BY <3>1
  <2>2. QED BY <1>1, <1>3, <2>1, WithoutTree
<1>4. CASE /\ call.kind \in {"add_user", "rm_user"} /\ UNCHANGED server
           /\ call' = [call EXCEPT !.runs = @ + 1]
  <2>1. call'.kind = call.kind
    <3>1. call' = [kind |-> call.kind, path |-> call.path, target |-> call.target,
                   name |-> call.name, runs |-> call.runs + 1, made |-> call.made]
      BY <1>4 DEF FsInv, CallOK
    <3>2. QED BY <3>1
  <2>2. QED BY <1>1, <1>4, <2>1 DEF TreeInv, Ranks
<1>5. QED BY <1>2, <1>3, <1>4 DEF Run

\* Another client's change does the same.
LEMMA OtherTree ==
  ASSUME FsInv, TreeInv, OtherClient
  PROVE  TreeInv'
<1>1. UNCHANGED <<local, call>>
  BY DEF OtherClient
<1>2. ASSUME NEW h \in Handles, NEW parent \in DOMAIN server \cup {Root}, NEW n \in Names,
             NEW t \in {"FILE", "FOLDER"}, NEW m \in BOOLEAN, Fresh(h),
             server' = With(h, [parent |-> parent, name |-> n, type |-> t, mine |-> m])
      PROVE  TreeInv'
  <2>1. [parent |-> parent, name |-> n, type |-> t, mine |-> m] \in ServerNodes
    BY DEF ServerNodes, FsInv, TypeOK
  <2>2. QED BY <1>1, <1>2, <2>1, WithTree
<1>3. ASSUME NEW h \in DOMAIN server, server' = Without(Below(h))
      PROVE  TreeInv'
  BY <1>1, <1>3, WithoutTree
<1>4. QED BY <1>2, <1>3 DEF OtherClient

\* A command begins or fails, or nothing happens.
\* The other steps touch neither list nor server.
LEMMA IdleTree ==
  ASSUME TreeInv, UNCHANGED <<server, local>>,
         call' = call \/ call'.runs = 0
  PROVE  TreeInv'
<1>1. PICK B \in Nat : \E r \in [AnyHandle -> 0 .. B] : Ranks(r)
  BY DEF TreeInv
<1>2. PICK r \in [AnyHandle -> 0 .. B] : Ranks(r)
  BY <1>1
<1>3. Ranks(r)'
  BY <1>2 DEF Ranks
<1>4. QED BY <1>3 DEF TreeInv

-----------------------------------------------------------------------------
(* Paths and Top are what they say they are.                                 *)

\* A list whose nodes are each below their parents, by their ranks.
Ranked(list, B, r) ==
    /\ list \in Seq(GoodNode) /\ Current(list) /\ Unique(list)
    /\ B \in Nat /\ r \in [AnyHandle -> 0 .. B]
    /\ \A i \in DOMAIN list :
          list[i].handle \in Handles => r[list[i].parentHandle] < r[list[i].handle]

\* The place of the one node with a handle that is not a contact's.
LEMMA IndexIsUnique ==
  ASSUME NEW list \in Seq(GoodNode), Unique(list),
         NEW i \in DOMAIN list, list[i].handle \notin Users
  PROVE  IndexOf(list, list[i].handle) = i
<1> DEFINE h == list[i].handle
<1>1. \A j \in DOMAIN list : list[j].handle = h => j = i
  BY ListType DEF Unique, GoodNode
<1>2. i <= i
  BY ListType
<1> HIDE DEF h
<1>3. /\ list[i].handle = h /\ \A j \in DOMAIN list : list[j].handle = h => j <= i
  BY <1>1, <1>2 DEF h
<1>4. /\ IndexOf(list, h) \in DOMAIN list /\ list[IndexOf(list, h)].handle = h
  BY <1>3 DEF IndexOf
<1>5. QED BY <1>1, <1>4 DEF h

\* A parent pointer leads from a file or a folder to a folder of the list.
LEMMA ParentIndex ==
  ASSUME NEW list \in Seq(GoodNode), Current(list), Unique(list),
         NEW i \in DOMAIN list, list[i].parent # None
  PROVE  /\ IndexOf(list, list[i].parent) \in DOMAIN list
         /\ list[IndexOf(list, list[i].parent)].handle = list[i].parent
         /\ list[i].parent = list[i].parentHandle /\ list[i].parent \in Handles \cup {Root}
         /\ list[i].handle \in Handles
<1>1. list[i] \in GoodNode /\ list[i].parent = NewParent(list, list[i])
  BY ListType DEF Current
<1>2. list[i].type \in {"FILE", "FOLDER"} /\ list[i].type # "CONTACT"
  BY <1>1 DEF GoodNode, Node, NodeTypes, SystemTypes
<1>3. /\ list[i].handle \in Handles /\ list[i].parentHandle \in Handles \cup {Root}
      /\ list[i].parent = list[i].parentHandle /\ list[i].parentHandle \in HandlesOf(list)
  <2>1. list[i].handle \in Handles /\ list[i].parentHandle \in Handles \cup {Root}
    BY <1>1, <1>2 DEF GoodNode
  <2>2. list[i].parentHandle # None
    BY <2>1, FsAssumption, SystemHandles DEF AnyHandle
  <2>3. QED BY <1>1, <1>2, <2>1, <2>2 DEF NewParent
<1>4. PICK j \in DOMAIN list : list[j].handle = list[i].parent
  BY <1>3 DEF HandlesOf
<1>5. list[j].handle \notin Users
  BY <1>3, <1>4, FsAssumption
<1>6. IndexOf(list, list[j].handle) = j
  BY <1>5, IndexIsUnique
<1>7. QED BY <1>3, <1>4, <1>6

\* The step from a node to its parent, for the functions that climb the tree.
Rooted(list) == {i \in DOMAIN list : list[i].parent = None}
Up(list) == [i \in DOMAIN list \ Rooted(list) |-> IndexOf(list, list[i].parent)]

\* Whoever has a parent in a ranked list finds it there, one rank lower at least.
LEMMA Climb ==
  ASSUME NEW list, NEW B, NEW r, Ranked(list, B, r)
  PROVE  LET rank == [i \in DOMAIN list |-> r[list[i].handle]]
         IN /\ Rooted(list) \in SUBSET DOMAIN list
            /\ Up(list) \in [DOMAIN list \ Rooted(list) -> DOMAIN list]
            /\ B \in Nat /\ rank \in [DOMAIN list -> 0 .. B]
            /\ \A i \in DOMAIN list \ Rooted(list) : rank[Up(list)[i]] < rank[i]
<1> DEFINE rank == [i \in DOMAIN list |-> r[list[i].handle]]
<1>1. /\ list \in Seq(GoodNode) /\ Current(list) /\ Unique(list)
      /\ B \in Nat /\ r \in [AnyHandle -> 0 .. B]
  BY DEF Ranked
<1>2. \A i \in DOMAIN list : list[i].handle \in AnyHandle
  BY <1>1, ListType DEF GoodNode, Node
<1>3. ASSUME NEW i \in DOMAIN list \ Rooted(list)
      PROVE  /\ Up(list)[i] \in DOMAIN list /\ list[Up(list)[i]].handle = list[i].parentHandle
             /\ list[i].handle \in Handles
  BY <1>1, ParentIndex DEF Rooted, Up
<1>4. ASSUME NEW i \in DOMAIN list \ Rooted(list) PROVE rank[Up(list)[i]] < rank[i]
  <2>1. i \in DOMAIN list /\ r[list[i].parentHandle] < r[list[i].handle]
    BY <1>3 DEF Ranked
  <2>2. rank[i] = r[list[i].handle] /\ rank[Up(list)[i]] = r[list[i].parentHandle]
    BY <1>3
  <2>3. QED BY <2>1, <2>2
<1>5. rank \in [DOMAIN list -> 0 .. B]
  BY <1>1, <1>2
<1>6. Up(list) \in [DOMAIN list \ Rooted(list) -> DOMAIN list]
  BY <1>3 DEF Up
<1>7. QED BY <1>1, <1>4, <1>5, <1>6 DEF Rooted

\* The paths of mega_node_get_path: a name at the top, elsewhere a name behind
\* the path of the parent.
LEMMA PathsDef ==
  ASSUME NEW list, NEW B, NEW r, Ranked(list, B, r)
  PROVE  /\ DOMAIN Paths(list) = DOMAIN list
         /\ \A i \in DOMAIN list : Paths(list)[i] =
               IF list[i].parent = None THEN <<list[i].name>>
               ELSE Append(Paths(list)[IndexOf(list, list[i].parent)], list[i].name)
         /\ \A i \in DOMAIN list : Paths(list)[i] \in Seq({list[j].name : j \in DOMAIN list})
<1> DEFINE D == DOMAIN list
<1> DEFINE S == {list[j].name : j \in DOMAIN list}
<1> DEFINE V == Seq(S)
<1> DEFINE tops == Rooted(list)
<1> DEFINE first == [i \in tops |-> <<list[i].name>>]
<1> DEFINE next == [i \in D \ tops |-> [v \in V |-> Append(v, list[i].name)]]
<1> DEFINE rank == [i \in D |-> r[list[i].handle]]
<1> DEFINE Eq(f) == f = [i \in D |-> IF list[i].parent = None THEN <<list[i].name>>
                                     ELSE Append(f[IndexOf(list, list[i].parent)], list[i].name)]
<1>1. /\ tops \in SUBSET D /\ Up(list) \in [D \ tops -> D]
      /\ B \in Nat /\ rank \in [D -> 0 .. B]
      /\ \A i \in D \ tops : rank[Up(list)[i]] < rank[i]
  BY Climb
<1>2. V # {} /\ first \in [tops -> V] /\ next \in [D \ tops -> [V -> V]]
  <2>1. << >> \in V
    BY EmptySeq
  <2>2. \A i \in D : list[i].name \in S
    OBVIOUS
  <2> HIDE DEF S
  <2>3. ASSUME NEW i \in tops PROVE <<list[i].name>> \in V
    BY <1>1, <2>2, <2>3
  <2>4. ASSUME NEW i \in D \ tops, NEW v \in V PROVE Append(v, list[i].name) \in V
    BY <2>2, <2>4, AppendProperties
  <2> HIDE DEF V
  <2>5. QED BY <2>1, <2>3, <2>4
<1>3. \A i \in D \ tops, v \in V : next[i][v] = Append(v, list[i].name)
  OBVIOUS
<1> HIDE DEF V, tops, first, next, rank, D
<1>4. Recursive(D, V, tops, Up(list), first, next, B, rank)
  BY <1>1, <1>2 DEF Recursive
<1>5. PICK f : Solves(f, D, V, tops, Up(list), first, next)
  BY <1>4, Recursion
<1>6. ASSUME NEW i \in D
      PROVE  f[i] = IF list[i].parent = None THEN <<list[i].name>>
                    ELSE Append(f[IndexOf(list, list[i].parent)], list[i].name)
  <2>1. CASE i \in tops
    BY <1>5, <2>1 DEF Solves, tops, Rooted, first
  <2>2. CASE i \notin tops
    <3>1. Up(list)[i] = IndexOf(list, list[i].parent) /\ Up(list)[i] \in D
          /\ list[i].parent # None
      BY <1>1, <2>2 DEF Up, tops, Rooted, D
    <3>2. f[Up(list)[i]] \in V
      BY <1>5, <3>1 DEF Solves
    <3>3. QED BY <1>3, <1>5, <2>2, <3>1, <3>2 DEF Solves
  <2>3. QED BY <2>1, <2>2
<1>7. Eq(f)
  BY <1>5, <1>6 DEF Solves
<1> DEFINE paths == CHOOSE g : Eq(g)
<1>8. Paths(list) = paths
  BY DEF Paths, D
<1>9. Eq(paths)
  BY <1>7
<1> HIDE DEF paths
<1>10. /\ DOMAIN paths = D
       /\ \A i \in D : paths[i] =
             IF list[i].parent = None THEN <<list[i].name>>
             ELSE Append(paths[IndexOf(list, list[i].parent)], list[i].name)
  BY <1>9
<1> HIDE DEF Eq
<1>11. \A i \in D : paths[i] \in V
  <2> DEFINE T == {i \in D : paths[i] \in V}
  <2>1. ASSUME NEW i \in D, \A j \in D : rank[j] < rank[i] => j \in T
        PROVE  i \in T
    <3>1. CASE i \in tops
      <4>1. paths[i] = first[i]
        BY <1>10, <3>1 DEF first, tops, Rooted
      <4>2. QED BY <1>2, <3>1, <4>1
    <3>2. CASE i \notin tops
      <4>1. Up(list)[i] = IndexOf(list, list[i].parent) /\ list[i].parent # None
            /\ Up(list)[i] \in D /\ rank[Up(list)[i]] < rank[i]
        BY <1>1, <3>2 DEF Up, tops, Rooted, D
      <4>2. paths[Up(list)[i]] \in V
        BY <2>1, <4>1
      <4>3. paths[i] = next[i][paths[Up(list)[i]]]
        <5>1. paths[i] = Append(paths[Up(list)[i]], list[i].name)
          BY <1>10, <4>1
        <5>2. next[i][paths[Up(list)[i]]] = Append(paths[Up(list)[i]], list[i].name)
          BY <1>3, <3>2, <4>2
        <5>3. QED BY <5>1, <5>2
      <4>4. QED BY <1>2, <3>2, <4>2, <4>3
    <3>3. QED BY <3>1, <3>2
  <2>2. T \in SUBSET D
    OBVIOUS
  <2> HIDE DEF T
  <2>3. T = D
    BY <1>1, <2>1, <2>2, RankInduction
  <2>4. QED BY <2>3 DEF T
<1>12. QED BY <1>8, <1>10, <1>11 DEF D, V

\* The top of a node without a parent is itself, of another its parent's.
LEMMA TopDef ==
  ASSUME NEW B, NEW r, Ranked(local, B, r)
  PROVE  /\ \A i \in DOMAIN local :
               Top[i] = IF local[i].parent = None THEN i ELSE Top[IndexOf(local, local[i].parent)]
<1> DEFINE D == DOMAIN local
<1> DEFINE tops == Rooted(local)
<1> DEFINE first == [i \in tops |-> i]
<1> DEFINE next == [i \in D \ tops |-> [v \in D |-> v]]
<1> DEFINE rank == [i \in D |-> r[local[i].handle]]
<1> DEFINE Eq(f) == f = [i \in D |-> IF local[i].parent = None THEN i
                                     ELSE f[IndexOf(local, local[i].parent)]]
<1>1. /\ tops \in SUBSET D /\ Up(local) \in [D \ tops -> D]
      /\ B \in Nat /\ rank \in [D -> 0 .. B]
      /\ \A i \in D \ tops : rank[Up(local)[i]] < rank[i]
  BY Climb
<1>2. first \in [tops -> D] /\ next \in [D \ tops -> [D -> D]]
  BY <1>1
<1>3. \A i \in D \ tops, v \in D : next[i][v] = v
  OBVIOUS
<1> HIDE DEF tops, first, next, rank, D
<1>4. CASE D = {}
  BY <1>4 DEF D
<1>5. CASE D # {}
  <2>1. Recursive(D, D, tops, Up(local), first, next, B, rank)
    BY <1>1, <1>2, <1>5 DEF Recursive
  <2>2. PICK f : Solves(f, D, D, tops, Up(local), first, next)
    BY <2>1, Recursion
  <2>3. ASSUME NEW i \in D
        PROVE  f[i] = IF local[i].parent = None THEN i ELSE f[IndexOf(local, local[i].parent)]
    <3>1. CASE i \in tops
      BY <2>2, <3>1 DEF Solves, tops, Rooted, first
    <3>2. CASE i \notin tops
      <4>1. Up(local)[i] = IndexOf(local, local[i].parent) /\ Up(local)[i] \in D
            /\ local[i].parent # None
        BY <1>1, <3>2 DEF Up, tops, Rooted, D
      <4>2. f[Up(local)[i]] \in D
        BY <2>2, <4>1 DEF Solves
      <4>3. QED BY <1>3, <2>2, <3>2, <4>1, <4>2 DEF Solves
    <3>3. QED BY <3>1, <3>2
  <2>4. Eq(f)
    BY <2>2, <2>3 DEF Solves
  <2> DEFINE top == CHOOSE g : Eq(g)
  <2>5. Top = top
    BY DEF Top, D
  <2>6. Eq(top)
    BY <2>4
  <2> HIDE DEF top
  <2>7. QED BY <2>5, <2>6 DEF D
<1>6. QED BY <1>4, <1>5

-----------------------------------------------------------------------------
(* The list mirrors the server.                                              *)

\* What the command in progress has done on the server and not yet in the
\* list: the node it made, the node it removed, the contact it added or
\* removed.
Making == IF call.kind \in {"mkdir", "put"} /\ call.runs > 0 THEN {call.made} ELSE {}
Removing == IF call.kind = "rm" /\ call.runs > 0 THEN {call.target} ELSE {}
Adding == IF call.kind = "add_user" /\ call.runs > 0 THEN {call.name} ELSE {}
Leaving == IF call.kind = "rm_user" /\ call.runs > 0 THEN {call.name} ELSE {}

\* A node that the server has is as the server has it; one that it has not is
\* an orphan, below neither a node of the server nor the root.
Mirrored(n) ==
    /\ n.handle \in DOMAIN server => SameNode(n, server[n.handle])
    /\ n.handle \in Handles \ (DOMAIN server \cup Removing)
         => n.parentHandle \notin DOMAIN server \cup {Root}

FilesMirror ==
    /\ DOMAIN server \ Making \subseteq HandlesOf(local) \ Removing
    /\ Making \subseteq DOMAIN server
    /\ call.made \in Making =>
          /\ server[call.made].parent = call.target /\ server[call.made].name = call.name
          /\ server[call.made].type = IF call.kind = "put" THEN "FILE" ELSE "FOLDER"
    /\ \A i \in DOMAIN local : Mirrored(local[i])

ContactsMirror == contacts \ Adding \subseteq HandlesOf(local) \ Leaving

\* The list and the server, as long as nothing happened behind the session's
\* back.
MirrorInv ==
    ~drift => /\ call.kind # "none" => call.runs <= 1
              /\ FilesMirror /\ ContactsMirror

\* With no command in progress the list shows below the system folders what
\* the server holds.
LEMMA MirrorIsCoherent ==
  ASSUME FsInv, TreeInv, MirrorInv
  PROVE  Coherent
<1>1. SUFFICES ASSUME ~drift, call.kind = "none" PROVE FilesKnown /\ ContactsKnown
  BY DEF Coherent, FilesKnown, ContactsKnown
<1>2. Making = {} /\ Removing = {} /\ Adding = {} /\ Leaving = {}
  BY <1>1 DEF Making, Removing, Adding, Leaving
<1>3. /\ DOMAIN server \subseteq HandlesOf(local) /\ contacts \subseteq HandlesOf(local)
      /\ \A i \in DOMAIN local : Mirrored(local[i])
  BY <1>1, <1>2 DEF MirrorInv, FilesMirror, ContactsMirror
<1>4. PICK B \in Nat : \E r \in [AnyHandle -> 0 .. B] : Ranks(r)
  BY DEF TreeInv
<1>5. PICK r \in [AnyHandle -> 0 .. B] : Ranks(r)
  BY <1>4
<1>6. Ranked(local, B, r)
  BY <1>5 DEF Ranked, Ranks, FsInv, ListOK
<1>7. \A i \in DOMAIN local :
        Top[i] = IF local[i].parent = None THEN i ELSE Top[IndexOf(local, local[i].parent)]
  BY <1>6, TopDef
<1> DEFINE D == DOMAIN local
<1> DEFINE rank == [i \in D |-> r[local[i].handle]]
<1>8. /\ Up(local) \in [D \ Rooted(local) -> D] /\ B \in Nat /\ rank \in [D -> 0 .. B]
      /\ \A i \in D \ Rooted(local) : rank[Up(local)[i]] < rank[i]
  BY <1>6, Climb
<1>9. ASSUME NEW i \in D, i \notin Rooted(local)
      PROVE  /\ Up(local)[i] \in D /\ rank[Up(local)[i]] < rank[i] /\ Top[i] = Top[Up(local)[i]]
             /\ local[Up(local)[i]].handle = local[i].parentHandle
             /\ local[i].parentHandle \in Handles \cup {Root}
  <2>1. Up(local)[i] = IndexOf(local, local[i].parent) /\ local[i].parent # None
    BY <1>9 DEF Up, Rooted
  <2>2. local \in Seq(GoodNode) /\ Current(local) /\ Unique(local)
    BY DEF FsInv, ListOK
  <2>3. Up(local)[i] \in D /\ rank[Up(local)[i]] < rank[i]
    BY <1>8, <1>9
  <2>4. Top[i] = Top[Up(local)[i]]
    BY <1>7, <1>9, <2>1
  <2>5. /\ local[Up(local)[i]].handle = local[i].parentHandle
        /\ local[i].parentHandle \in Handles \cup {Root}
    BY <1>9, <2>1, <2>2, ParentIndex
  <2>6. QED BY <2>3, <2>4, <2>5
<1>10. ASSUME NEW i \in D
       PROVE  /\ local[i] \in GoodNode /\ local[i].parent = NewParent(local, local[i])
              /\ Mirrored(local[i])
  BY <1>3, ListType DEF FsInv, ListOK, Current
<1> HIDE DEF rank
<1> DEFINE OnServer(i) == local[i].handle \in DOMAIN server
<1> DEFINE Orphan(i) == local[i].handle \in Handles \ DOMAIN server
<1>11. \A i \in D : OnServer(i) \/ local[i].handle = Root => local[Top[i]].type = "ROOT"
  <2> DEFINE T == {i \in D : OnServer(i) \/ local[i].handle = Root => local[Top[i]].type = "ROOT"}
  <2>1. ASSUME NEW i \in D, \A j \in D : rank[j] < rank[i] => j \in T
        PROVE  i \in T
    <3>1. CASE local[i].handle = Root
      <4>1. local[i].type = "ROOT" /\ local[i].parent = None
        BY <1>10, <3>1 DEF GoodNode, SystemTypes
      <4>2. QED BY <1>7, <4>1
    <3>2. CASE OnServer(i)
      <4>1. local[i].parentHandle \in DOMAIN server \cup {Root}
        BY <1>10, <3>2 DEF Mirrored, SameNode, TreeInv
      <4>2. local[i].parentHandle \in HandlesOf(local) /\ local[i].parentHandle # None
        BY <1>3, <4>1, FsAssumption, SystemHandles DEF FsInv, ListOK, TypeOK, AnyHandle
      <4>3. local[i].type # "CONTACT"
        BY <1>10, <3>2, FsAssumption DEF GoodNode, FsInv, TypeOK
      <4>4. local[i].parent # None
        BY <1>10, <4>2, <4>3 DEF NewParent
      <4>5. i \notin Rooted(local)
        BY <4>4 DEF Rooted
      <4>6. Up(local)[i] \in T
        BY <1>9, <2>1, <4>5
      <4>7. QED BY <1>9, <4>1, <4>5, <4>6
    <3>3. QED BY <3>1, <3>2
  <2>2. T \in SUBSET D
    OBVIOUS
  <2> HIDE DEF T, D
  <2>3. T = D
    BY <1>8, <2>1, <2>2, RankInduction
  <2>4. QED BY <2>3 DEF T
<1>12. \A i \in D : Orphan(i) => local[Top[i]].type \in {"FILE", "FOLDER"}
  <2> DEFINE T == {i \in D : Orphan(i) => local[Top[i]].type \in {"FILE", "FOLDER"}}
  <2>1. ASSUME NEW i \in D, \A j \in D : rank[j] < rank[i] => j \in T
        PROVE  i \in T
    <3>1. SUFFICES ASSUME Orphan(i) PROVE local[Top[i]].type \in {"FILE", "FOLDER"}
      OBVIOUS
    <3>2. CASE i \in Rooted(local)
      BY <1>7, <1>10, <3>1, <3>2 DEF Rooted, GoodNode
    <3>3. CASE i \notin Rooted(local)
      <4>1. local[i].parentHandle \in Handles \ DOMAIN server
        BY <1>2, <1>9, <1>10, <3>1, <3>3 DEF Mirrored
      <4>2. Orphan(Up(local)[i]) /\ Up(local)[i] \in T
        BY <1>9, <2>1, <3>3, <4>1
      <4>3. QED BY <1>9, <3>3, <4>2
    <3>4. QED BY <3>2, <3>3
  <2>2. T \in SUBSET D
    OBVIOUS
  <2> HIDE DEF T, D
  <2>3. T = D
    BY <1>8, <2>1, <2>2, RankInduction
  <2>4. QED BY <2>3 DEF T
<1>13. \A i \in D : local[i].handle \in Handles => (Attached(i) <=> OnServer(i))
  BY <1>11, <1>12 DEF Attached
<1>14. \A i \in D : OnServer(i) => SameNode(local[i], server[local[i].handle])
  BY <1>10 DEF Mirrored
<1>15. FilesKnown
  BY <1>3, <1>13, <1>14 DEF FilesKnown, SameNode
<1>16. QED BY <1>3, <1>15 DEF ContactsKnown

\* Between commands nothing is pending.
LEMMA NothingPending ==
  ASSUME call.runs = 0 \/ call.kind = "none"
  PROVE  Making = {} /\ Removing = {} /\ Adding = {} /\ Leaving = {}
BY DEF Making, Removing, Adding, Leaving

\* A refresh, a command that begins, one that fails without having run.
LEMMA QuietMirror ==
  ASSUME FsInv, MirrorInv,
         \/ Refresh
         \/ /\ UNCHANGED <<server, contacts, local, drift>> /\ call.kind = "none"
            /\ call'.runs = 0
         \/ Fail
         \/ OtherClient
  PROVE  MirrorInv'
<1>1. CASE Refresh
  <2>1. UNCHANGED <<server, contacts, call>> /\ call.kind = "none"
    BY <1>1 DEF Refresh
  <2>2. (Making = {} /\ Removing = {} /\ Adding = {} /\ Leaving = {})'
    BY <2>1 DEF Making, Removing, Adding, Leaving
  <2>3. /\ HandlesOf(local') = {Root, Inbox, Network} \cup DOMAIN server \cup contacts
        /\ \A i \in DOMAIN local' :
              local'[i].handle \in Handles =>
                /\ local'[i].handle \in DOMAIN server
                /\ SameNode(local'[i], server[local'[i].handle])
    BY <1>1, RefreshNodes
  <2>4. DOMAIN server \subseteq Handles
    BY DEF FsInv, TypeOK
  <2>5. ASSUME NEW i \in DOMAIN local' PROVE Mirrored(local[i])'
    BY <2>1, <2>3, <2>4 DEF Mirrored, SameNode
  <2>6. FilesMirror' /\ ContactsMirror'
    BY <2>1, <2>2, <2>3, <2>5 DEF FilesMirror, ContactsMirror
  <2>7. QED BY <2>1, <2>6 DEF MirrorInv
<1>2. CASE /\ UNCHANGED <<server, contacts, local, drift>> /\ call.kind = "none"
           /\ call'.runs = 0
  <2>1. Making = {} /\ Removing = {} /\ Adding = {} /\ Leaving = {}
    BY <1>2, NothingPending
  <2>2. (Making = {} /\ Removing = {} /\ Adding = {} /\ Leaving = {})'
    BY <1>2 DEF Making, Removing, Adding, Leaving
  <2>3. QED
    BY <1>2, <2>1, <2>2 DEF MirrorInv, FilesMirror, ContactsMirror, Mirrored, SameNode
<1>3. CASE Fail
  <2>1. /\ UNCHANGED <<server, contacts, local>> /\ call' = NoCall
        /\ ~drift' => ~drift /\ ~(call.runs > 0)
    BY <1>3 DEF Fail
  <2>2. call.runs \in Nat
    BY FsAssumption DEF FsInv, TypeOK
  <2>3. (Making = {} /\ Removing = {} /\ Adding = {} /\ Leaving = {})'
    BY <2>1 DEF NoCall, Making, Removing, Adding, Leaving
  <2>4. SUFFICES ASSUME ~drift, call.runs = 0
                 PROVE  FilesMirror' /\ ContactsMirror' /\ call'.kind = "none"
    BY <2>2, <2>1 DEF MirrorInv
  <2>5. Making = {} /\ Removing = {} /\ Adding = {} /\ Leaving = {}
    BY <2>4, NothingPending
  <2>6. call'.kind = "none"
    BY <2>1 DEF NoCall
  <2>7. QED
    BY <2>1, <2>3, <2>4, <2>5, <2>6 DEF MirrorInv, FilesMirror, ContactsMirror, Mirrored, SameNode
<1>4. CASE OtherClient
  BY <1>4 DEF OtherClient, MirrorInv
<1>5. QED BY <1>1, <1>2, <1>3, <1>4

\* What the request changes on the server is what the command has pending.
LEMMA RunMirror ==
  ASSUME FsInv, MirrorInv, Run
  PROVE  MirrorInv'
<1>1. UNCHANGED local /\ (~drift' => ~drift /\ ~(call.runs > 0)) /\ call.kind # "none"
  BY DEF Run
<1>2. UNCHANGED local /\ (~drift' => ~drift /\ call.runs = 0)
  <2>1. call.runs \in Nat
    BY FsAssumption DEF FsInv, TypeOK
  <2>2. QED BY <1>1, <2>1
<1>3. SUFFICES ASSUME ~drift, call.runs = 0
               PROVE  FilesMirror' /\ ContactsMirror' /\ call'.runs <= 1
  BY <1>2 DEF MirrorInv
<1>4. Making = {} /\ Removing = {} /\ Adding = {} /\ Leaving = {}
  BY <1>3, NothingPending
<1>5. /\ DOMAIN server \subseteq HandlesOf(local) /\ contacts \subseteq HandlesOf(local)
      /\ \A i \in DOMAIN local : Mirrored(local[i]) /\ local[i] \in GoodNode
  BY <1>3, <1>4, ListType DEF MirrorInv, FilesMirror, ContactsMirror, FsInv, ListOK
<1>6. ASSUME call.kind \in {"mkdir", "put"}, NEW h \in Handles, Fresh(h),
             server' = With(h, [parent |-> call.target, name |-> call.name, mine |-> TRUE,
                                type |-> IF call.kind = "put" THEN "FILE" ELSE "FOLDER"]),
             call' = [call EXCEPT !.runs = @ + 1, !.made = h],
             UNCHANGED contacts
      PROVE  FilesMirror' /\ ContactsMirror' /\ call'.runs <= 1
  <2>1. /\ call'.kind = call.kind /\ call'.target = call.target /\ call'.name = call.name
        /\ call'.runs = 1 /\ call'.made = h
    <3>1. call' = [kind |-> call.kind, path |-> call.path, target |-> call.target,
                   name |-> call.name, runs |-> call.runs + 1, made |-> h]
      BY <1>6 DEF FsInv, CallOK
    <3>2. QED BY <1>3, <3>1
  <2>2. /\ Making' = {h} /\ Removing' = {} /\ Adding' = {} /\ Leaving' = {}
    BY <1>6, <2>1 DEF Making, Removing, Adding, Leaving
  <2>3. /\ DOMAIN server' = DOMAIN server \cup {h} /\ h \notin DOMAIN server
        /\ \A g \in DOMAIN server : server'[g] = server[g]
        /\ server'[h].parent = call.target /\ server'[h].name = call.name
        /\ server'[h].type = IF call.kind = "put" THEN "FILE" ELSE "FOLDER"
    BY <1>6 DEF With, Fresh
  <2>4. ASSUME NEW i \in DOMAIN local PROVE Mirrored(local[i])'
    <3>1. local[i].handle # h /\ local[i].parentHandle # h
      BY <1>6 DEF Fresh, HandlesOf
    <3>2. QED BY <1>2, <1>4, <1>5, <2>2, <2>3, <3>1 DEF Mirrored, SameNode
  <2>5. FilesMirror'
    BY <1>2, <1>5, <2>1, <2>2, <2>3, <2>4 DEF FilesMirror
  <2>6. QED BY <1>2, <1>5, <1>6, <2>1, <2>2, <2>5 DEF ContactsMirror
<1>7. CASE /\ call.kind = "rm" /\ call.target \in DOMAIN server
           /\ server' = Without(Below(call.target))
           /\ call' = [call EXCEPT !.runs = @ + 1] /\ UNCHANGED contacts
  <2> DEFINE t == call.target
  <2>1. call'.kind = "rm" /\ call'.target = t /\ call'.runs = 1
    <3>1. call' = [kind |-> call.kind, path |-> call.path, target |-> call.target,
                   name |-> call.name, runs |-> call.runs + 1, made |-> call.made]
      BY <1>7 DEF FsInv, CallOK
    <3>2. QED BY <1>3, <1>7, <3>1
  <2>2. /\ Making' = {} /\ Removing' = {t} /\ Adding' = {} /\ Leaving' = {}
    BY <2>1 DEF Making, Removing, Adding, Leaving
  <2>3. /\ t \in Below(t) /\ Below(t) \subseteq DOMAIN server
        /\ \A c \in Below(t) \ {t} : server[c].parent \in Below(t)
    BY <1>7, BelowClosed DEF FsInv
  <2>4. /\ DOMAIN server' = DOMAIN server \ Below(t)
        /\ \A g \in DOMAIN server' : server'[g] = server[g]
    BY <1>7 DEF Without
  <2>5. Root \notin DOMAIN server
    BY FsAssumption DEF FsInv, TypeOK
  <2>6. ASSUME NEW i \in DOMAIN local PROVE Mirrored(local[i])'
    <3>1. CASE local[i].handle \in DOMAIN server
      BY <1>2, <1>4, <1>5, <2>2, <2>3, <2>4, <2>5, <3>1 DEF Mirrored, SameNode
    <3>2. CASE local[i].handle \notin DOMAIN server
      BY <1>2, <1>4, <1>5, <2>2, <2>4, <3>2 DEF Mirrored
    <3>3. QED BY <3>1, <3>2
  <2>7. FilesMirror'
    BY <1>2, <1>5, <2>2, <2>3, <2>4, <2>6 DEF FilesMirror
  <2>8. QED BY <1>2, <1>5, <1>7, <2>1, <2>2, <2>7 DEF ContactsMirror
<1>8. CASE /\ call.kind \in {"add_user", "rm_user"}
           /\ contacts' = IF call.kind = "add_user" THEN contacts \cup {call.name}
                                                    ELSE contacts \ {call.name}
           /\ call' = [call EXCEPT !.runs = @ + 1] /\ UNCHANGED server
  <2>1. call'.kind = call.kind /\ call'.name = call.name /\ call'.runs = 1
    <3>1. call' = [kind |-> call.kind, path |-> call.path, target |-> call.target,
                   name |-> call.name, runs |-> call.runs + 1, made |-> call.made]
      BY <1>8 DEF FsInv, CallOK
    <3>2. QED BY <1>3, <1>8, <3>1
  <2>2. /\ Making' = {} /\ Removing' = {}
        /\ Adding' = (IF call.kind = "add_user" THEN {call.name} ELSE {})
        /\ Leaving' = (IF call.kind = "rm_user" THEN {call.name} ELSE {})
    BY <1>8, <2>1 DEF Making, Removing, Adding, Leaving
  <2>3. FilesMirror'
    BY <1>2, <1>4, <1>5, <1>8, <2>2 DEF FilesMirror, Mirrored, SameNode
  <2>4. ContactsMirror'
    BY <1>2, <1>5, <1>8, <2>2 DEF ContactsMirror
  <2>5. QED BY <2>1, <2>3, <2>4
<1>9. QED BY <1>6, <1>7, <1>8 DEF Run

\* The answer puts what was pending into the list.
LEMMA SucceedMirror ==
  ASSUME FsInv, MirrorInv, Succeed
  PROVE  MirrorInv'
<1>1. /\ call.kind # "none" /\ call.runs > 0 /\ call' = NoCall
      /\ UNCHANGED <<server, contacts, drift>>
      /\ call.kind \in {"mkdir", "put", "add_user", "rm", "rm_user"}
  BY DEF Succeed, FsInv, TypeOK
<1>2. (Making = {} /\ Removing = {} /\ Adding = {} /\ Leaving = {})' /\ call'.kind = "none"
  BY <1>1 DEF NoCall, Making, Removing, Adding, Leaving
<1>3. SUFFICES ASSUME ~drift PROVE FilesMirror' /\ ContactsMirror'
  BY <1>1, <1>2 DEF MirrorInv
<1>4. FilesMirror /\ ContactsMirror
  BY <1>3 DEF MirrorInv
<1>5. DOMAIN server \subseteq Handles /\ contacts \subseteq Users /\ Handles \cap Users = {}
  BY FsAssumption DEF FsInv, TypeOK
<1>6. CASE call.kind \in {"mkdir", "put"}
  <2>1. Making = {call.made} /\ Removing = {} /\ Adding = {} /\ Leaving = {}
    BY <1>1, <1>6 DEF Making, Removing, Adding, Leaving
  <2>2. /\ Added.handle = call.made /\ Added.parentHandle = call.target
        /\ Added.name = call.name
        /\ Added.type = IF call.kind = "put" THEN "FILE" ELSE "FOLDER"
    BY <1>1, <1>6, AddedNode
  <2>3. call.made \in DOMAIN server /\ SameNode(Added, server[call.made])
    BY <1>4, <2>1, <2>2 DEF FilesMirror, SameNode
  <2>4. ASSUME NEW i \in DOMAIN local' PROVE Mirrored(local[i])'
    <3>1. CASE i \in DOMAIN local
      <4>1. Same(local'[i], local[i]) /\ Mirrored(local[i])
        BY <1>4, <1>6, <3>1, SucceedNodes DEF FilesMirror
      <4>2. QED BY <1>1, <1>2, <2>1, <4>1 DEF Same, Mirrored, SameNode
    <3>2. CASE Same(local'[i], Added)
      BY <1>1, <2>2, <2>3, <3>2 DEF Same, Mirrored, SameNode
    <3>3. QED BY <1>6, <3>1, <3>2, SucceedNodes
  <2>5. HandlesOf(local') = HandlesOf(local) \cup {call.made}
    BY <1>6, <2>2, SucceedNodes
  <2>6. QED BY <1>1, <1>2, <1>4, <2>1, <2>4, <2>5 DEF FilesMirror, ContactsMirror
<1>7. CASE call.kind = "add_user"
  <2>1. Making = {} /\ Removing = {} /\ Adding = {call.name} /\ Leaving = {}
    BY <1>1, <1>7 DEF Making, Removing, Adding, Leaving
  <2>2. Added.handle = call.name /\ call.name \in Users
    BY <1>7 DEF Added, ParsedUser, FsInv, CallOK
  <2>3. ASSUME NEW i \in DOMAIN local' PROVE Mirrored(local[i])'
    <3>1. CASE i \in DOMAIN local
      <4>1. Same(local'[i], local[i]) /\ Mirrored(local[i])
        BY <1>4, <1>7, <3>1, SucceedNodes DEF FilesMirror
      <4>2. QED BY <1>1, <1>2, <2>1, <4>1 DEF Same, Mirrored, SameNode
    <3>2. CASE Same(local'[i], Added)
      BY <1>1, <1>5, <2>2, <3>2 DEF Same, Mirrored
    <3>3. QED BY <1>7, <3>1, <3>2, SucceedNodes
  <2>4. HandlesOf(local') = HandlesOf(local) \cup {call.name}
    BY <1>7, <2>2, SucceedNodes
  <2>5. QED BY <1>1, <1>2, <1>4, <2>1, <2>3, <2>4 DEF FilesMirror, ContactsMirror
<1>8. CASE call.kind \in {"rm", "rm_user"}
  <2> DEFINE k == StatIndex(local, call.path)
  <2> DEFINE t == call.target
  <2>1. /\ k \in DOMAIN local /\ local[k].handle = t
        /\ t \in IF call.kind = "rm" THEN Handles ELSE Users
        /\ call.kind = "rm_user" => call.name = t
    BY <1>8 DEF FsInv, CallOK
  <2>2. /\ Making = {} /\ Adding = {}
        /\ Removing = (IF call.kind = "rm" THEN {t} ELSE {})
        /\ Leaving = (IF call.kind = "rm_user" THEN {t} ELSE {})
    BY <1>1, <1>8, <2>1 DEF Making, Removing, Adding, Leaving
  <2>3. /\ HandlesOf(local') = {local[i].handle : i \in DOMAIN local \ {k}}
        /\ \A i \in DOMAIN local' : \E j \in DOMAIN local \ {k} : Same(local'[i], local[j])
    BY <1>8, SucceedNodes
  <2> HIDE DEF k
  <2>4. HandlesOf(local) \ {t} \subseteq HandlesOf(local')
    BY <2>1, <2>3 DEF HandlesOf
  <2>5. ASSUME NEW i \in DOMAIN local' PROVE Mirrored(local[i])'
    <3>1. PICK j \in DOMAIN local \ {k} : Same(local'[i], local[j])
      BY <2>3
    <3>2. Mirrored(local[j])
      BY <1>4 DEF FilesMirror
    <3>3. local[j].handle \in Handles => local[j].handle # t
      <4>1. local[j].handle = t => local[j].type = "CONTACT" /\ local[j] \in GoodNode
        BY <2>1, <3>1, ListType DEF FsInv, ListOK, Unique
      <4>2. QED BY <1>5, <4>1 DEF GoodNode
    <3>4. QED BY <1>1, <1>2, <1>5, <2>2, <3>1, <3>2, <3>3 DEF Same, Mirrored, SameNode
  <2>6. DOMAIN server \subseteq HandlesOf(local')
    BY <1>4, <1>5, <1>8, <2>1, <2>2, <2>4 DEF FilesMirror
  <2>7. contacts \subseteq HandlesOf(local')
    BY <1>4, <1>5, <1>8, <2>1, <2>2, <2>4 DEF ContactsMirror
  <2>8. QED BY <1>1, <1>2, <2>5, <2>6, <2>7 DEF FilesMirror, ContactsMirror
<1>9. QED BY <1>1, <1>6, <1>7, <1>8

-----------------------------------------------------------------------------
(* The node mkdir or put creates is found under its path.                    *)

\* mkdir and put create below a node of the list, under a path nobody has.
CreateInv ==
    call.kind \in {"mkdir", "put"} =>
        /\ StatIndex(local, call.path) = 0
        /\ \E k \in DOMAIN local : /\ local[k].handle = call.target
                                   /\ call.path = Append(Paths(local)[k], call.name)

\* A path mega_session_stat does not find is no node's.
LEMMA StatNone ==
  ASSUME NEW list \in Seq(GoodNode), NEW p
  PROVE  StatIndex(list, p) = 0 <=> \A i \in DOMAIN list : Paths(list)[i] # p
<1> DEFINE paths == Paths(list)
<1> DEFINE found == {i \in DOMAIN list : paths[i] = p}
<1>1. StatIndex(list, p) =
        IF found = {} THEN 0 ELSE CHOOSE i \in found : \A j \in found : i <= j
  BY DEF StatIndex
<1>2. CASE found = {}
  BY <1>1, <1>2
<1>3. CASE found # {}
  <2>1. found \subseteq Nat /\ 0 \notin found
    BY ListType
  <2>2. PICK i \in found : \A j \in found : i <= j
    <3> HIDE DEF found
    <3>1. QED BY <1>3, <2>1, LeastOf
  <2> HIDE DEF found
  <2>3. StatIndex(list, p) \in found
    BY <1>1, <1>3, <2>2
  <2>4. QED BY <1>3, <2>1, <2>3 DEF found
<1>4. QED BY <1>2, <1>3

\* A path is its directory with its last element behind.
LEMMA PathSplit ==
  ASSUME NEW S, NEW p \in Seq(S), Len(p) > 1
  PROVE  p = Append(Dirname(p), Basename(p))
<1> DEFINE n == Len(p)
<1> DEFINE q == Append(Dirname(p), Basename(p))
<1>1. n \in Nat /\ n > 1 /\ \A i \in 1 .. n : p[i] \in S
  BY LenProperties, ElementOfSeq
<1>2. /\ Dirname(p) \in Seq(S) /\ Len(Dirname(p)) = n - 1
      /\ \A i \in 1 .. n - 1 : Dirname(p)[i] = p[i]
  <2>1. \A i \in 1 .. n - 1 : p[i] \in S
    BY <1>1
  <2>2. /\ Dirname(p) \in Seq(S)
        /\ Len(Dirname(p)) = IF 1 <= n - 1 THEN n - 1 - 1 + 1 ELSE 0
        /\ \A i \in 1 .. n - 1 - 1 + 1 : Dirname(p)[i] = p[1 + i - 1]
    BY <1>1, <2>1, SubSeqProperties DEF Dirname
  <2>3. QED BY <1>1, <2>2
<1>3. Basename(p) \in S /\ Basename(p) = p[n]
  BY <1>1 DEF Basename
<1>4. /\ q \in Seq(S) /\ Len(q) = n - 1 + 1
      /\ \A i \in 1 .. n - 1 : q[i] = Dirname(p)[i]
      /\ q[n - 1 + 1] = Basename(p)
  BY <1>2, <1>3, AppendProperties
<1> HIDE DEF q
<1>5. Len(q) = n /\ \A i \in 1 .. n : q[i] = p[i]
  BY <1>1, <1>2, <1>3, <1>4
<1>6. p = q
  BY <1>4, <1>5, SeqEqual
<1>7. QED BY <1>6 DEF q

\* What a user names are sequences of elements.
LEMMA UserPathType == \A p \in UserPaths : p \in Seq(Elements \cup {"Root", "Inbox", "Contacts"})
<1> DEFINE S == Elements \cup {"Root", "Inbox", "Contacts"}
<1>1. \A a \in S : <<a>> \in Seq(S)
  OBVIOUS
<1>2. \A a, b, c \in S : <<a, b, c>> \in Seq(S)
  OBVIOUS
<1>3. /\ "Root" \in S /\ "Inbox" \in S /\ "Contacts" \in S
      /\ Names \subseteq S /\ Elements \subseteq S
  BY DEF Elements
<1> HIDE DEF S
<1>4. \A t \in Tops : t \in Seq(S)
  BY <1>1, <1>3 DEF Tops
<1>5. \A t \in Tops, n \in Elements : Append(t, n) \in Seq(S)
  BY <1>3, <1>4, AppendProperties
<1>6. \A m, n \in Names : <<"Root", m, n>> \in Seq(S)
  BY <1>2, <1>3
<1>7. ASSUME NEW p \in UserPaths PROVE p \in Seq(S)
  <2>1. \/ p \in Tops
        \/ \E t \in Tops, n \in Elements : p = Append(t, n)
        \/ \E m, n \in Names : p = <<"Root", m, n>>
    BY DEF UserPaths
  <2>2. QED BY <1>4, <1>5, <1>6, <2>1
<1>8. QED BY <1>7 DEF S

\* mkdir and put have looked their path up: it is free and its directory exists.
LEMMA CreateBegins ==
  ASSUME FsInv, NEW p \in UserPaths, NEW base \in Names, Mkdir(p) \/ Put(p, base)
  PROVE  CreateInv'
<1>1. local \in Seq(GoodNode)
  BY DEF FsInv, ListOK
<1>2. ASSUME NEW q, ~Exists(q), NEW d, Exists(d), NEW n, q = Append(d, n),
             NEW kind, Begin(kind, q, Stat(d).handle, n)
      PROVE  CreateInv'
  <2>1. /\ UNCHANGED local /\ call'.path = q /\ call'.target = Stat(d).handle
        /\ call'.name = n
    BY <1>2 DEF Begin
  <2>2. /\ StatIndex(local, d) \in DOMAIN local
        /\ Stat(d) = local[StatIndex(local, d)]
    BY <1>2, StatNode
  <2>3. Paths(local)[StatIndex(local, d)] = d
    BY <1>1, <1>2, StatType DEF Exists
  <2>4. StatIndex(local, q) = 0
    BY <1>2 DEF Exists
  <2>5. QED BY <1>2, <2>1, <2>2, <2>3, <2>4 DEF CreateInv
<1>3. Len(p) > 1 => p = Append(Dirname(p), Basename(p))
  BY PathSplit, UserPathType
<1>4. CASE Mkdir(p)
  <2>1. ~Exists(p) /\ Len(p) > 1 /\ Exists(Dirname(p))
    BY <1>4 DEF Mkdir
  <2>2. PICK kind \in {"mkdir", "add_user"} : Begin(kind, p, Stat(Dirname(p)).handle, Basename(p))
    BY <1>4 DEF Mkdir
  <2>3. QED BY <1>2, <1>3, <2>1, <2>2
<1>5. CASE Put(p, base)
  <2>1. CASE /\ Exists(p) /\ ~Exists(Append(p, base))
             /\ Begin("put", Append(p, base), Stat(p).handle, base)
    BY <1>2, <2>1
  <2>2. CASE /\ ~Exists(p) /\ Len(p) > 1 /\ Exists(Dirname(p))
             /\ Begin("put", p, Stat(Dirname(p)).handle, Basename(p))
    BY <1>2, <1>3, <2>2
  <2>3. QED BY <1>5, <2>1, <2>2 DEF Put
<1>6. QED BY <1>4, <1>5

\* While they wait for the server, nothing in the list moves.
LEMMA CreateStep ==
  ASSUME FsInv, CreateInv, [Next]_vars
  PROVE  CreateInv'
<1>1. ASSUME UNCHANGED local, call'.kind = call.kind, call'.path = call.path,
             call'.target = call.target, call'.name = call.name
      PROVE  CreateInv'
  BY <1>1 DEF CreateInv
<1>2. ASSUME call'.kind \notin {"mkdir", "put"} PROVE CreateInv'
  BY <1>2 DEF CreateInv
<1>3. CASE UNCHANGED vars
  BY <1>1, <1>3 DEF vars
<1>4. CASE Refresh
  BY <1>2, <1>4 DEF Refresh
<1>5. ASSUME NEW p \in UserPaths, Mkdir(p) \/ \E base \in Names : Put(p, base)
      PROVE  CreateInv'
  <2>1. CASE \E base \in Names : Put(p, base)
    BY <2>1, CreateBegins
  <2>2. CASE Mkdir(p)
    <3>1. CASE Names = {}
      <4>1. Begin("add_user", p, Stat(Dirname(p)).handle, Basename(p))
        BY <2>2, <3>1 DEF Mkdir
      <4>2. QED BY <1>2, <4>1 DEF Begin
    <3>2. CASE Names # {}
      BY <2>2, <3>2, CreateBegins
    <3>3. QED BY <3>1, <3>2
  <2>3. QED BY <1>5, <2>1, <2>2
<1>6. ASSUME NEW p \in UserPaths, Rm(p) PROVE CreateInv'
  BY <1>2, <1>6 DEF Rm, Begin
<1>7. CASE Run
  <2>1. \/ \E h \in Handles : call' = [call EXCEPT !.runs = @ + 1, !.made = h]
        \/ call' = [call EXCEPT !.runs = @ + 1]
    BY <1>7 DEF Run
  <2>2. call = [kind |-> call.kind, path |-> call.path, target |-> call.target,
                name |-> call.name, runs |-> call.runs, made |-> call.made]
    BY DEF FsInv, CallOK
  <2>3. /\ call'.kind = call.kind /\ call'.path = call.path /\ call'.target = call.target
        /\ call'.name = call.name
    <3>1. CASE \E h \in Handles : call' = [call EXCEPT !.runs = @ + 1, !.made = h]
      <4>1. PICK h \in Handles :
              call' = [kind |-> call.kind, path |-> call.path, target |-> call.target,
                       name |-> call.name, runs |-> call.runs + 1, made |-> h]
        BY <2>2, <3>1
      <4>2. QED BY <4>1
    <3>2. CASE call' = [call EXCEPT !.runs = @ + 1]
      <4>1. call' = [kind |-> call.kind, path |-> call.path, target |-> call.target,
                     name |-> call.name, runs |-> call.runs + 1, made |-> call.made]
        BY <2>2, <3>2
      <4>2. QED BY <4>1
    <3>3. QED BY <2>1, <3>1, <3>2
  <2>4. UNCHANGED local
    BY <1>7 DEF Run
  <2>5. QED BY <1>1, <2>3, <2>4
<1>8. CASE Succeed \/ Fail
  BY <1>2, <1>8 DEF Succeed, Fail, NoCall
<1>9. CASE OtherClient
  BY <1>1, <1>9 DEF OtherClient
<1>10. QED BY <1>3, <1>4, <1>5, <1>6, <1>7, <1>8, <1>9 DEF Next

\* The new node has the path that was asked for, and no other node's path
\* changes with it: none hangs below the new node.
LEMMA CreatedPath ==
  ASSUME FsInv, FsInv', TreeInv, TreeInv', CreateInv, Succeed, call.kind \in {"mkdir", "put"}
  PROVE  LET k == StatIndex(local', call.path) IN k # 0 /\ local'[k].handle = call.made
<1> DEFINE n == Len(local) + 1
<1> DEFINE D == DOMAIN local
<1> DEFINE P == Paths(local)
<1> DEFINE Q == Paths(local')
<1>1. /\ local \in Seq(GoodNode) /\ Current(local) /\ Unique(local)
      /\ local' \in Seq(GoodNode) /\ Current(local') /\ Unique(local')
      /\ call.runs > 0
  BY DEF FsInv, ListOK, Succeed
<1>2. /\ DOMAIN local' = D \cup {n} /\ n \notin D
      /\ \A i \in D : Same(local'[i], local[i])
      /\ Same(local'[n], Added)
      /\ HandlesOf(local') = HandlesOf(local) \cup {Added.handle}
  BY SucceedNodes
<1>3. /\ Added.handle = call.made /\ Added.parentHandle = call.target
      /\ Added.name = call.name /\ Added.type \in {"FILE", "FOLDER"}
  BY <1>1, AddedNode
<1>4. /\ call.target \in HandlesOf(local) /\ call.target \in Handles \cup {Root}
      /\ \A i \in D : local[i].parentHandle # call.made
  BY <1>1 DEF FsInv, CallOK
<1>5. PICK B \in Nat : \E r \in [AnyHandle -> 0 .. B] : Ranks(r)
  BY DEF TreeInv
<1>6. PICK r \in [AnyHandle -> 0 .. B] : Ranks(r)
  BY <1>5
<1>7. Ranked(local, B, r)
  BY <1>1, <1>6 DEF Ranked, Ranks
<1>8. PICK C \in Nat : \E s \in [AnyHandle -> 0 .. C] : Ranks(s)'
  BY DEF TreeInv
<1>9. PICK s \in [AnyHandle -> 0 .. C] : Ranks(s)'
  BY <1>8
<1>10. Ranked(local', C, s)
  BY <1>1, <1>9 DEF Ranked, Ranks
<1>11. \A i \in D : P[i] = IF local[i].parent = None THEN <<local[i].name>>
                           ELSE Append(P[IndexOf(local, local[i].parent)], local[i].name)
  BY <1>7, PathsDef
<1>12. \A i \in D \cup {n} :
         Q[i] = IF local'[i].parent = None THEN <<local'[i].name>>
                ELSE Append(Q[IndexOf(local', local'[i].parent)], local'[i].name)
  BY <1>2, <1>10, PathsDef
<1> HIDE DEF P, Q, n
<1>13. ASSUME NEW i \in D
       PROVE  /\ local'[i].parent = local[i].parent /\ local'[i].name = local[i].name
              /\ local[i].parent # None =>
                   /\ IndexOf(local', local[i].parent) = IndexOf(local, local[i].parent)
                   /\ IndexOf(local, local[i].parent) = Up(local)[i]
                   /\ Up(local)[i] \in D /\ i \notin Rooted(local)
  <2>1. /\ local[i] \in GoodNode /\ local'[i] \in GoodNode
        /\ local[i].parent = NewParent(local, local[i])
        /\ local'[i].parent = NewParent(local', local'[i])
        /\ Same(local'[i], local[i])
    BY <1>1, <1>2, ListType DEF Current
  <2>2. local'[i].parent = local[i].parent
    <3>1. CASE local[i].type \in SystemTypes \cup {"CONTACT"}
      BY <2>1, <3>1 DEF Same, GoodNode
    <3>2. CASE local[i].type \notin SystemTypes \cup {"CONTACT"}
      <4>1. local[i].type \in {"FILE", "FOLDER"} /\ local[i].parentHandle # None
        BY <2>1, <3>2, FsAssumption, SystemHandles
        DEF GoodNode, Node, NodeTypes, SystemTypes, AnyHandle
      <4>2. local[i].parentHandle \in HandlesOf(local')
              <=> local[i].parentHandle \in HandlesOf(local)
        BY <1>2, <1>3, <1>4
      <4>3. QED BY <2>1, <4>1, <4>2 DEF NewParent, Same
    <3>3. QED BY <3>1, <3>2
  <2>3. ASSUME local[i].parent # None
        PROVE  /\ IndexOf(local', local[i].parent) = IndexOf(local, local[i].parent)
               /\ IndexOf(local, local[i].parent) = Up(local)[i]
               /\ Up(local)[i] \in D /\ i \notin Rooted(local)
    <3> DEFINE j == IndexOf(local, local[i].parent)
    <3>1. /\ j \in D /\ local[j].handle = local[i].parent
          /\ local[i].parent \in Handles \cup {Root}
      BY <1>1, <2>3, ParentIndex
    <3> HIDE DEF j
    <3>2. local'[j].handle = local[i].parent /\ j \in DOMAIN local'
      BY <1>2, <3>1 DEF Same
    <3>3. local'[j].handle \notin Users
      BY <3>1, <3>2, FsAssumption
    <3>4. IndexOf(local', local'[j].handle) = j
      BY <1>1, <3>2, <3>3, IndexIsUnique
    <3>5. Up(local)[i] = j /\ i \notin Rooted(local)
      BY <2>3 DEF Up, Rooted, j
    <3>6. QED BY <3>1, <3>2, <3>4, <3>5 DEF j
  <2>4. QED BY <2>1, <2>2, <2>3 DEF Same
<1>14. \A i \in D : Q[i] = P[i]
  <2> DEFINE rank == [i \in D |-> r[local[i].handle]]
  <2>1. /\ rank \in [D -> 0 .. B] /\ B \in Nat
        /\ \A i \in D \ Rooted(local) : rank[Up(local)[i]] < rank[i]
    BY <1>7, Climb
  <2> HIDE DEF rank
  <2>2. PICK T : T = {i \in D : Q[i] = P[i]}
    OBVIOUS
  <2>3. ASSUME NEW i \in D, \A j \in D : rank[j] < rank[i] => j \in T
        PROVE  i \in T
    <3>1. CASE local[i].parent = None
      BY <1>11, <1>12, <1>13, <2>2, <3>1, ZenonT(60)
    <3>2. CASE local[i].parent # None
      <4>1. Q[Up(local)[i]] = P[Up(local)[i]]
        BY <1>13, <2>1, <2>2, <2>3, <3>2
      <4>2. /\ local'[i].parent # None /\ local'[i].name = local[i].name
            /\ IndexOf(local', local'[i].parent) = Up(local)[i]
            /\ IndexOf(local, local[i].parent) = Up(local)[i]
        BY <1>13, <3>2
      <4>3. /\ P[i] = Append(P[Up(local)[i]], local[i].name)
            /\ Q[i] = Append(Q[Up(local)[i]], local[i].name)
        BY <1>11, <1>12, <3>2, <4>2
      <4>4. QED BY <2>2, <4>1, <4>3
    <3>3. QED BY <3>1, <3>2
  <2>4. T \in SUBSET D
    BY <2>2
  <2> HIDE DEF D
  <2>5. T = D
    BY <2>1, <2>3, <2>4, RankInduction
  <2>6. QED BY <2>2, <2>5
<1>15. PICK k \in D : local[k].handle = call.target /\ call.path = Append(P[k], call.name)
  BY DEF CreateInv, P
<1>16. Q[n] = call.path
  <2>1. local'[n].parent = call.target /\ call.target # None /\ local'[n].name = call.name
    <3>1. local'[n].parent = NewParent(local', local'[n])
      BY <1>1, <1>2 DEF Current
    <3>2. call.target # None
      BY <1>4, FsAssumption, SystemHandles DEF AnyHandle
    <3>3. QED BY <1>2, <1>3, <1>4, <3>1, <3>2 DEF Same, NewParent
  <2>2. local'[k].handle = call.target /\ k \in DOMAIN local' /\ call.target \notin Users
    BY <1>2, <1>4, <1>15, FsAssumption DEF Same
  <2>3. IndexOf(local', call.target) = k
    BY <1>1, <2>2, IndexIsUnique
  <2>4. QED BY <1>12, <1>14, <1>15, <2>1, <2>3
<1>17. \A i \in D : Q[i] # call.path
  <2>1. StatIndex(local, call.path) = 0
    BY DEF CreateInv
  <2>2. QED BY <1>1, <1>14, <2>1, StatNone DEF P
<1> DEFINE m == StatIndex(local', call.path)
<1>18. m # 0
  BY <1>1, <1>2, <1>16, StatNone DEF Q
<1>19. m \in DOMAIN local' /\ Q[m] = call.path
  BY <1>1, <1>18, StatType DEF Q
<1> HIDE DEF m
<1>20. m = n
  BY <1>2, <1>17, <1>19
<1>21. local'[n].handle = call.made
  BY <1>2, <1>3 DEF Same
<1>22. QED BY <1>18, <1>20, <1>21 DEF m

-----------------------------------------------------------------------------
(* Everything together.                                                      *)

\* What is true of the list, of the server and of the command between them.
SessionInv == FsInv /\ TreeInv /\ MirrorInv /\ CreateInv

\* A session that has just logged in.
LEMMA SessionInit == Init => SessionInv
<1> SUFFICES ASSUME Init PROVE SessionInv
  OBVIOUS
<1>1. FsInv /\ HandlesOf(local) = {Root, Inbox, Network}
  BY FsInit, InitList
<1>2. /\ DOMAIN server = {} /\ contacts = {} /\ call.kind = "none"
  BY DEF Init, NoFiles, NoCall
<1>3. \A i \in DOMAIN local : local[i].handle \notin Handles
  BY <1>1, FsAssumption DEF HandlesOf
<1>4. TreeInv
  <2> DEFINE r == [h \in AnyHandle |-> 0]
  <2>1. r \in [AnyHandle -> 0 .. 0] /\ 0 \in Nat
    OBVIOUS
  <2>2. Ranks(r)
    BY <1>2, <1>3 DEF Ranks
  <2> HIDE DEF r
  <2>3. QED BY <1>2, <2>1, <2>2 DEF TreeInv
<1>5. Making = {} /\ Removing = {} /\ Adding = {} /\ Leaving = {}
  BY <1>2, NothingPending
<1>6. MirrorInv
  BY <1>2, <1>3, <1>5 DEF MirrorInv, FilesMirror, ContactsMirror, Mirrored
<1>7. CreateInv
  BY <1>2 DEF CreateInv
<1>8. QED BY <1>1, <1>4, <1>6, <1>7 DEF SessionInv

\* A command that begins only changes call.
LEMMA BeginsQuietly ==
  ASSUME NEW p, Mkdir(p) \/ Rm(p) \/ \E base \in Names : Put(p, base)
  PROVE  UNCHANGED <<server, contacts, local, drift>> /\ call.kind = "none" /\ call'.runs = 0
<1>1. PICK kind, path, target, name : Begin(kind, path, target, name)
  <2>1. CASE Mkdir(p)
    BY <2>1 DEF Mkdir
  <2>2. CASE Rm(p)
    BY <2>2 DEF Rm
  <2>3. CASE \E base \in Names : Put(p, base)
    BY <2>3 DEF Put
  <2>4. QED BY <2>1, <2>2, <2>3
<1>2. QED BY <1>1 DEF Begin

\* Every step keeps all four parts.
LEMMA SessionStep ==
  ASSUME SessionInv, [Next]_vars
  PROVE  SessionInv'
<1>1. FsInv /\ TreeInv /\ MirrorInv /\ CreateInv /\ FsInv' /\ CreateInv'
  BY FsStep, CreateStep DEF SessionInv
<1>2. CASE UNCHANGED vars
  <2>1. TreeInv'
    BY <1>1, <1>2, IdleTree DEF vars
  <2>2. MirrorInv'
    BY <1>1, <1>2 DEF vars, MirrorInv, FilesMirror, ContactsMirror, Mirrored, SameNode,
                      Making, Removing, Adding, Leaving
  <2>3. QED BY <1>1, <2>1, <2>2 DEF SessionInv
<1>3. CASE Refresh
  BY <1>1, <1>3, RefreshTree, QuietMirror DEF SessionInv
<1>4. ASSUME NEW p \in UserPaths, Mkdir(p) \/ Rm(p) \/ \E base \in Names : Put(p, base)
      PROVE  SessionInv'
  <2>1. UNCHANGED <<server, contacts, local, drift>> /\ call.kind = "none" /\ call'.runs = 0
    BY <1>4, BeginsQuietly
  <2>2. QED BY <1>1, <2>1, IdleTree, QuietMirror DEF SessionInv
<1>5. CASE Run
  BY <1>1, <1>5, RunTree, RunMirror DEF SessionInv
<1>6. CASE Succeed
  BY <1>1, <1>6, SucceedTree, SucceedMirror DEF SessionInv
<1>7. CASE Fail
  <2>1. UNCHANGED <<server, local>> /\ call'.runs = 0
    BY <1>7 DEF Fail, NoCall
  <2>2. QED BY <1>1, <1>7, <2>1, IdleTree, QuietMirror DEF SessionInv
<1>8. CASE OtherClient
  BY <1>1, <1>8, OtherTree, QuietMirror DEF SessionInv
<1>9. QED BY <1>2, <1>3, <1>4, <1>5, <1>6, <1>7, <1>8 DEF Next

\* Unless the server changed behind the session's back, every file and folder
\* of the server is in the list, with its name, type and parent, and those in
\* the list below a system folder are the server's and no others: what rm leaves
\* in the list of a directory's contents hangs below none.  Of contacts only
\* that none is missing: one may be listed twice, or be listed still.  After any
\* commands and refreshes; a command the server carried out twice, or carried
\* out and did not answer, counts as a change behind the session's back.
THEOREM ListFollowsServer == Spec => []Coherent
<1>1. SessionInv => Coherent
  BY MirrorIsCoherent DEF SessionInv
<1>2. SessionInv /\ [Next]_vars => SessionInv'
  BY SessionStep
<1>3. QED BY SessionInit, <1>1, <1>2, PTL DEF Spec

\* mkdir and put put the node they made where mega_session_stat finds it under
\* the path they were given, whatever else is in the list, orphans included.
THEOREM CreatedNodeIsFound == Spec => CreatedIsFound
<1>1. SessionInv /\ [Next]_vars => SessionInv'
  BY SessionStep
<1>2. SessionInv /\ SessionInv' /\ [Next]_vars =>
        [call.kind \in {"mkdir", "put"} /\ call'.kind = "none" /\ local' # local
           => LET k == StatIndex(local', call.path)
              IN k # 0 /\ local'[k].handle = call.made]_vars
  <2>1. SUFFICES ASSUME SessionInv, SessionInv', Next, call.kind \in {"mkdir", "put"},
                        call'.kind = "none", local' # local
                 PROVE  LET k == StatIndex(local', call.path)
                        IN k # 0 /\ local'[k].handle = call.made
    OBVIOUS
  <2>2. Succeed
    <3>1. ~Refresh
      BY <2>1 DEF Refresh
    <3>2. \A p : ~(Mkdir(p) \/ Rm(p) \/ \E base \in Names : Put(p, base))
      BY <2>1, BeginsQuietly
    <3>3. ~(Run \/ Fail \/ OtherClient)
      BY <2>1 DEF Run, Fail, OtherClient
    <3>4. QED BY <2>1, <3>1, <3>2, <3>3 DEF Next
  <2>3. QED BY <2>1, <2>2, CreatedPath DEF SessionInv
<1>3. QED BY SessionInit, <1>1, <1>2, PTL DEF Spec, CreatedIsFound
=============================================================================
