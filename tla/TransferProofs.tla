---------------------------- MODULE TransferProofs ----------------------------
(***************************************************************************)
(* Downloads and uploads, for files of any length, any number of downloads *)
(* to any paths, any cut of an upload into pieces, any number of changes   *)
(* of the local file and of repeated commands; and the MAC of their bytes, *)
(* for any sizes of blocks and chunks and any updates.                     *)
(***************************************************************************)
EXTENDS Download, Upload, ChunkedMac, SequenceTheorems, WellFoundedInduction, TLAPS

-----------------------------------------------------------------------------
(* Downloads: a file that is reported is the remote one, and no download    *)
(* touches or leaves a file but its own.  The invariant ties every file to  *)
(* the one download that created it: what it has written is what its MAC    *)
(* has seen.                                                                *)

Files == [data : Seq({0, 1}), done : BOOLEAN, by : Tools \cup {None, User}]

Pcs == {"idle", "create", "api", "perform", "data", "close", "check"}

Downloads == [pc : Pcs, kind : {"get", "dl"}, path : Paths \cup {None}, created : BOOLEAN,
              served : Seq({0, 1}), status : {200, 500}, mac : Seq({0, 1}), delay : Nat]

DownloadTypeOK ==
    /\ remote \in Seq({0, 1})
    /\ files \in [Paths -> {None} \cup Files]
    /\ tool \in [Tools -> Downloads]

\* Whether there is a file to remove, by where a download is.
InOrder(d) ==
    /\ d.pc = "idle" => ~d.created
    /\ d.pc = "create" => d.path # None /\ ~d.created
    /\ d.pc = "api" => (d.created <=> d.kind = "get" /\ d.path # None)
    /\ d.pc \in {"perform", "data", "close", "check"} => (d.created <=> d.path # None)
    /\ d.pc \in {"create", "api", "perform"} => d.mac = << >>

\* The file a download created is there, and holds what its MAC has seen.
Owns(t) ==
    /\ tool[t].path \in Paths
    /\ files[tool[t].path] \in Files
    /\ files[tool[t].path].by = t
    /\ ~files[tool[t].path].done
    /\ files[tool[t].path].data = tool[t].mac

OwnersKnown ==
    \A p \in Paths : files[p] \in Files /\ files[p].by \in Tools =>
                         tool[files[p].by].created /\ tool[files[p].by].path = p

\* The inductive invariant.
DownloadInv ==
    /\ DownloadTypeOK
    /\ \A t \in Tools : InOrder(tool[t]) /\ (tool[t].created => Owns(t))
    /\ OwnersKnown
    /\ DoneIsWhole

-----------------------------------------------------------------------------
LEMMA NoneIsNoFile ==
  None \notin Files /\ None \notin Paths /\ None \notin Tools /\ User \notin Tools
BY DownloadAssumption DEF Files

LEMMA IdleTyped == Idle \in Downloads /\ InOrder(Idle)
BY DownloadAssumption DEF Idle, Downloads, Pcs, InOrder

LEMMA ContentsAreSequences == Contents \subseteq Seq({0, 1})
BY DEF Contents

LEMMA PcTyped ==
  ASSUME NEW d \in Downloads, NEW pc \in Pcs
  PROVE  LET e == [d EXCEPT !.pc = pc]
         IN /\ e \in Downloads /\ e.pc = pc /\ (e.created <=> d.created)
            /\ e.path = d.path /\ e.mac = d.mac /\ e.kind = d.kind
<1> DEFINE e == [d EXCEPT !.pc = pc]
<1>1. e \in Downloads
  BY SMTT(30) DEF Downloads
<1>2. e.pc = pc /\ e.path = d.path /\ e.mac = d.mac /\ e.kind = d.kind
  BY DEF Downloads
<1>3. e.created <=> d.created
  BY DEF Downloads
<1> QED BY <1>1, <1>2, <1>3

\* What Start makes of a download.
Begun(kind, path, pc) == [Idle EXCEPT !.kind = kind, !.path = path, !.pc = pc]

LEMMA BegunTyped ==
  ASSUME NEW kind \in {"get", "dl"}, NEW path \in Paths \cup {None}, NEW pc \in Pcs
  PROVE  /\ Begun(kind, path, pc) \in Downloads /\ ~Begun(kind, path, pc).created
         /\ Begun(kind, path, pc).kind = kind /\ Begun(kind, path, pc).path = path
         /\ Begun(kind, path, pc).pc = pc /\ Begun(kind, path, pc).mac = << >>
<1>1. Idle \in Downloads /\ ~Idle.created /\ Idle.mac = << >>
  BY IdleTyped DEF Idle
<1>2. Begun(kind, path, pc) \in Downloads
  BY <1>1, ZenonT(60) DEF Downloads, Begun
<1>3. /\ Begun(kind, path, pc).kind = kind /\ Begun(kind, path, pc).path = path
      /\ Begun(kind, path, pc).pc = pc /\ Begun(kind, path, pc).mac = << >>
  BY <1>1 DEF Downloads, Begun
<1>4. ~Begun(kind, path, pc).created
  BY <1>1 DEF Downloads, Begun
<1> QED BY <1>2, <1>3, <1>4

LEMMA DownloadInvInit == ASSUME Init PROVE DownloadInv
<1>1. DownloadTypeOK
  <2>1. [data |-> <<1>>, done |-> FALSE, by |-> User] \in Files
    BY DEF Files
  <2>2. files \in [Paths -> {None} \cup Files]
    BY <2>1 DEF Init
  <2> QED BY <2>2, IdleTyped, ContentsAreSequences DEF Init, DownloadTypeOK
<1>2. \A t \in Tools : InOrder(tool[t]) /\ ~tool[t].created
  BY IdleTyped DEF Init, Idle
<1>3. OwnersKnown /\ DoneIsWhole
  BY NoneIsNoFile DEF Init, OwnersKnown, DoneIsWhole
<1> QED BY <1>1, <1>2, <1>3 DEF DownloadInv

\* A step that leaves the files alone, and what ties a download to its own.
LEMMA FilesKept ==
  ASSUME DownloadInv, NEW t \in Tools, NEW d \in Downloads,
         Set(t, d), UNCHANGED <<remote, files>>,
         InOrder(d), d.created <=> tool[t].created,
         d.created => d.path = tool[t].path /\ d.mac = tool[t].mac
  PROVE  DownloadInv'
<1>1. DownloadTypeOK'
  BY DEF DownloadInv, DownloadTypeOK, Set
<1>2. \A u \in Tools : InOrder(tool'[u]) /\ (tool'[u].created => Owns(u)')
  BY DEF DownloadInv, DownloadTypeOK, Set, Owns
<1>3. OwnersKnown'
  BY DEF DownloadInv, DownloadTypeOK, Set, OwnersKnown
<1>4. DoneIsWhole'
  BY DEF DownloadInv, DoneIsWhole
<1> QED BY <1>1, <1>2, <1>3, <1>4 DEF DownloadInv

\* err: removes the own file, and no other.
LEMMA AbortSafe == ASSUME DownloadInv, NEW t \in Tools, Abort(t) PROVE DownloadInv'
<1> DEFINE d == tool[t]
<1>1. CASE ~d.created
  <2>1. Set(t, Idle) /\ UNCHANGED <<remote, files>>
    BY <1>1 DEF Abort
  <2>2. ~Idle.created
    BY DEF Idle
  <2> QED BY <1>1, <2>1, <2>2, IdleTyped, FilesKept
<1>2. CASE d.created
  <2>1. d.path \in Paths /\ files[d.path].by = t /\ files' = [files EXCEPT ![d.path] = None]
    BY <1>2 DEF Abort, DownloadInv, Owns
  <2>2. tool' = [tool EXCEPT ![t] = Idle] /\ remote' = remote
    BY DEF Abort, Set
  <2>3. DownloadTypeOK'
    BY <2>1, <2>2, IdleTyped DEF DownloadInv, DownloadTypeOK
  <2>4. \A u \in Tools : InOrder(tool'[u]) /\ (tool'[u].created => Owns(u)')
    <3> TAKE u \in Tools
    <3>1. CASE u = t
      BY <3>1, <2>2, IdleTyped DEF DownloadInv, DownloadTypeOK, Idle
    <3>2. CASE u # t
      <4>1. tool'[u] = tool[u]
        BY <3>2, <2>2 DEF DownloadInv, DownloadTypeOK
      <4>2. tool[u].created => Owns(u) /\ tool[u].path # d.path
        BY <3>2, <2>1 DEF DownloadInv, Owns
      <4> QED BY <4>1, <4>2, <2>1 DEF DownloadInv, DownloadTypeOK, Owns
    <3> QED BY <3>1, <3>2
  <2>5. OwnersKnown'
    BY <2>1, <2>2, NoneIsNoFile DEF DownloadInv, DownloadTypeOK, OwnersKnown
  <2>6. DoneIsWhole'
    BY <2>1, <2>2 DEF DownloadInv, DownloadTypeOK, DoneIsWhole
  <2> QED BY <2>3, <2>4, <2>5, <2>6 DEF DownloadInv
<1> QED BY <1>1, <1>2

-----------------------------------------------------------------------------
(* What changes a file that is there: the download that created it.         *)


\* A download makes or changes its own file, and no other.
LEMMA OwnFileChanged ==
  ASSUME DownloadInv,
         NEW t \in Tools, NEW d \in Downloads, NEW path \in Paths, NEW file \in Files,
         Set(t, d), remote' = remote, files' = [files EXCEPT ![path] = file],
         files[path] = None \/ files[path].by = t,
         tool[t].created => tool[t].path = path,
         InOrder(d),
         d.created => d.path = path /\ file.by = t /\ ~file.done /\ file.data = d.mac,
         file.by \in Tools => file.by = t /\ d.created,
         file.done => Padded(file.data) = Padded(remote)
  PROVE  DownloadInv'
<1>1. tool' = [tool EXCEPT ![t] = d] /\ tool'[t] = d
  BY DEF Set, DownloadInv, DownloadTypeOK
<1>2. files'[path] = file /\ \A p \in Paths \ {path} : files'[p] = files[p]
  BY DEF DownloadInv, DownloadTypeOK
<1>3. DownloadTypeOK'
  BY <1>1 DEF DownloadInv, DownloadTypeOK
<1>4. \A u \in Tools : InOrder(tool'[u]) /\ (tool'[u].created => Owns(u)')
  <2> TAKE u \in Tools
  <2>1. CASE u = t
    BY <2>1, <1>1, <1>2 DEF Owns
  <2>2. CASE u # t
    <3>1. tool'[u] = tool[u]
      BY <2>2, <1>1 DEF DownloadInv, DownloadTypeOK
    <3>2. tool[u].created => tool[u].path # path
      BY <2>2, NoneIsNoFile DEF DownloadInv, Owns
    <3> QED BY <3>1, <3>2, <1>2 DEF DownloadInv, Owns
  <2> QED BY <2>1, <2>2
<1>5. OwnersKnown'
  <2> SUFFICES ASSUME NEW p \in Paths, files'[p] \in Files, files'[p].by \in Tools
               PROVE  tool'[files'[p].by].created /\ tool'[files'[p].by].path = p
    BY DEF OwnersKnown
  <2>1. CASE p = path
    BY <2>1, <1>1, <1>2
  <2>2. CASE p # path
    <3>1. files'[p] = files[p] /\ tool[files[p].by].created /\ tool[files[p].by].path = p
      BY <2>2, <1>2 DEF DownloadInv, OwnersKnown
    <3>2. files[p].by # t
      BY <3>1, <2>2
    <3> QED BY <3>1, <3>2, <1>1 DEF DownloadInv, DownloadTypeOK
  <2> QED BY <2>1, <2>2
<1>6. DoneIsWhole'
  BY <1>2 DEF DownloadInv, DoneIsWhole
<1> QED BY <1>3, <1>4, <1>5, <1>6 DEF DownloadInv

\* g_file_create succeeds where there is no file.
LEMMA CreateSafe == ASSUME DownloadInv, NEW t \in Tools, Create(t) PROVE DownloadInv'
<1> DEFINE d == tool[t]
           path == d.path
           pc == IF d.kind = "get" THEN "api" ELSE "perform"
           made == [d EXCEPT !.created = TRUE, !.pc = pc]
           file == [data |-> << >>, done |-> FALSE, by |-> t]
<1>1. d \in Downloads /\ d.pc = "create" /\ path \in Paths /\ ~d.created /\ d.mac = << >>
  BY DEF DownloadInv, DownloadTypeOK, InOrder, Create, Downloads
<1>2. CASE Set(t, Idle) /\ UNCHANGED <<remote, files>>
  <2>1. ~Idle.created
    BY DEF Idle
  <2> QED BY <1>1, <1>2, <2>1, IdleTyped, FilesKept
<1>3. CASE /\ files[path] = None /\ Set(t, made) /\ UNCHANGED remote
           /\ files' = [files EXCEPT ![path] = file]
  <2>1. made \in Downloads
    <3>1. pc \in Pcs
      BY DEF Pcs
    <3> HIDE DEF pc
    <3>2. d \in Downloads
      BY <1>1
    <3> HIDE DEF d
    <3> QED BY <3>1, <3>2, ZenonT(60) DEF Downloads
  <2>2. made.path = path /\ made.mac = << >> /\ made.created /\ path # None
        /\ made.kind = d.kind /\ made.pc = pc
    BY <1>1, NoneIsNoFile DEF Downloads
  <2>3. InOrder(made)
    BY <2>2 DEF InOrder
  <2>4. file \in Files /\ file.by = t /\ ~file.done /\ file.data = << >>
    BY DEF Files
  <2> HIDE DEF made, file
  <2> QED BY <1>1, <1>3, <2>1, <2>2, <2>3, <2>4, OwnFileChanged
<1> QED BY <1>2, <1>3 DEF Create

\* A byte reaches the MAC and the file in one step, or the download ends.
LEMMA ReceiveSafe == ASSUME DownloadInv, NEW t \in Tools, Receive(t) PROVE DownloadInv'
<1> DEFINE d == tool[t]
           path == d.path
           byte == d.served[Len(d.mac) + 1]
           seen == Append(d.mac, byte)
           more == [d EXCEPT !.mac = seen]
           file == [files[path] EXCEPT !.data = Append(@, byte)]
<1>1. CASE Abort(t)
  BY <1>1, AbortSafe
<1>2. CASE /\ Set(t, [d EXCEPT !.mac = Received(t)]) /\ UNCHANGED remote
           /\ files' = IF path = None THEN files
                       ELSE [files EXCEPT ![path].data = Append(@, Last(Received(t)))]
  <2>1. d \in Downloads /\ d.pc = "data" /\ (d.created <=> path # None)
        /\ (path # None => path \in Paths)
    BY DEF Receive, DownloadInv, DownloadTypeOK, InOrder, Downloads
  <2>2. byte \in {0, 1} /\ d.mac \in Seq({0, 1})
    <3>1. d.served \in Seq({0, 1}) /\ d.mac \in Seq({0, 1}) /\ Len(d.mac) < Len(d.served)
      BY <2>1 DEF Downloads, Receive
    <3>2. Len(d.mac) + 1 \in 1 .. Len(d.served)
      BY <3>1
    <3> QED BY <3>1, <3>2
  <2>3. Received(t) = seen
    BY DEF Received
  <2> HIDE DEF byte
  <2>4. seen \in Seq({0, 1}) /\ Last(seen) = byte
    BY <2>2 DEF Last
  <2>5. more \in Downloads /\ InOrder(more) /\ (more.created <=> d.created)
        /\ more.path = path /\ more.mac = seen
    <3>1. d \in Downloads /\ d.pc = "data" /\ seen \in Seq({0, 1})
      BY <2>1, <2>4
    <3> HIDE DEF d, seen
    <3>2. more \in Downloads
      BY <3>1, ZenonT(60) DEF Downloads
    <3>3. more.path = d.path /\ more.mac = seen /\ more.pc = "data" /\ more.kind = d.kind
      BY <3>1 DEF Downloads
    <3>4. more.created <=> d.created
      BY <3>1 DEF Downloads
    <3> HIDE DEF more
    <3>5. InOrder(more)
      BY <2>1, <3>3, <3>4 DEF InOrder
    <3> QED BY <3>2, <3>3, <3>4, <3>5
  <2>6. Set(t, more)
    BY <1>2, <2>3
  <2>7. CASE path = None
    BY <1>2, <2>1, <2>5, <2>6, <2>7, FilesKept
  <2>8. CASE path # None
    <3>1. path \in Paths /\ d.created /\ Owns(t)
      BY <2>1, <2>8 DEF DownloadInv
    <3>2. file \in Files /\ file.by = t /\ ~file.done /\ file.data = seen
      BY <3>1, <2>2, <2>4 DEF Owns, Files
    <3>3. files' = [files EXCEPT ![path] = file]
      BY <1>2, <2>3, <2>4, <2>8
    <3>4. files[path].by = t
      BY <3>1 DEF Owns
    <3>5. remote' = remote
      BY <1>2
    <3>6. more \in Downloads /\ InOrder(more) /\ (more.created <=> d.created)
          /\ more.path = path /\ more.mac = seen
      BY <2>5
    <3> HIDE DEF file, seen, more
    <3> QED BY <2>6, <3>1, <3>2, <3>3, <3>4, <3>5, <3>6, OwnFileChanged
  <2> QED BY <2>7, <2>8
<1> QED BY <1>1, <1>2 DEF Receive

\* Only what the MAC agrees with is kept and reported.
LEMMA CheckSafe == ASSUME DownloadInv, NEW t \in Tools, Check(t) PROVE DownloadInv'
<1> DEFINE d == tool[t]
           path == d.path
           file == [files[path] EXCEPT !.done = TRUE, !.by = User]
<1>1. d.pc = "check" /\ (d.created <=> path # None) /\ (path # None => path \in Paths)
  BY DEF Check, DownloadInv, DownloadTypeOK, InOrder, Downloads
<1>2. CASE Abort(t)
  BY <1>2, AbortSafe
<1>3. CASE /\ MacMatches(t) /\ Set(t, Idle) /\ UNCHANGED remote
           /\ files' = IF path = None THEN files
                       ELSE [files EXCEPT ![path].done = TRUE, ![path].by = User]
  <2>1. ~Idle.created
    BY DEF Idle
  <2>2. CASE path = None
    BY <1>1, <1>3, <2>1, <2>2, IdleTyped, FilesKept
  <2>3. CASE path # None
    <3>1. path \in Paths /\ Owns(t)
      BY <1>1, <2>3 DEF DownloadInv
    <3>2. file \in Files /\ file.by = User /\ file.data = d.mac
      BY <3>1 DEF Owns, Files
    <3>3. files' = [files EXCEPT ![path] = file]
      BY <1>3, <2>3, <3>1 DEF DownloadInv, DownloadTypeOK
    <3>4. files[path].by = t /\ Padded(file.data) = Padded(remote)
      BY <1>3, <3>1, <3>2 DEF Owns, MacMatches
    <3> HIDE DEF file
    <3> QED BY <1>3, <2>1, <3>1, <3>2, <3>3, <3>4, IdleTyped, NoneIsNoFile, OwnFileChanged
  <2> QED BY <2>2, <2>3
<1> QED BY <1>2, <1>3 DEF Check

\* What a killed download leaves is nobody's.
LEMMA CrashSafe == ASSUME DownloadInv, NEW t \in Tools, Crash(t) PROVE DownloadInv'
<1> DEFINE d == tool[t]
           file == [files[d.path] EXCEPT !.by = None]
<1>1. Set(t, Idle) /\ remote' = remote /\ ~Idle.created
  BY DEF Crash, Idle
<1>2. CASE ~d.created
  <2>1. UNCHANGED files
    BY <1>2 DEF Crash
  <2> QED BY <1>1, <1>2, <2>1, IdleTyped, FilesKept
<1>3. CASE d.created
  <2>1. Owns(t)
    BY <1>3 DEF DownloadInv
  <2>2. file \in Files /\ file.by = None /\ ~file.done
    BY <2>1 DEF Owns, Files
  <2>3. files' = [files EXCEPT ![d.path] = file] /\ files[d.path].by = t /\ d.path \in Paths
    BY <1>3, <2>1 DEF Crash, Owns
  <2> HIDE DEF file
  <2> QED BY <1>1, <2>2, <2>3, IdleTyped, NoneIsNoFile, OwnFileChanged
<1> QED BY <1>2, <1>3

-----------------------------------------------------------------------------
LEMMA DownloadStepSafe == ASSUME DownloadInv, [Next]_vars PROVE DownloadInv'
<1>1. CASE UNCHANGED vars
  BY <1>1 DEF vars, DownloadInv, DownloadTypeOK, Owns, OwnersKnown, DoneIsWhole
<1>2. ASSUME NEW t \in Tools, Start(t) PROVE DownloadInv'
  <2>1. tool[t].pc = "idle" /\ ~tool[t].created /\ ~Idle.created /\ Idle.mac = << >>
    BY <1>2 DEF Start, DownloadInv, InOrder, Idle
  <2>2. PICK path \in Paths \cup {None} :
           \/ Set(t, Begun("get", path, IF path = None THEN "api" ELSE "create"))
           \/ Set(t, Begun("dl", path, "api"))
    BY <1>2 DEF Start, Begun
  <2> DEFINE pc == IF path = None THEN "api" ELSE "create"
             get == Begun("get", path, pc)
             dl == Begun("dl", path, "api")
  <2>3. pc \in Pcs /\ (pc = "api" <=> path = None) /\ (pc = "create" <=> path # None)
        /\ "api" \in Pcs
    BY DEF Pcs
  <2>4. get \in Downloads /\ InOrder(get) /\ ~get.created
    <3> HIDE DEF pc
    <3> QED BY <2>3, BegunTyped DEF InOrder, Pcs
  <2>5. dl \in Downloads /\ InOrder(dl) /\ ~dl.created
    BY <2>3, BegunTyped DEF InOrder
  <2>6. UNCHANGED <<remote, files>>
    BY <1>2 DEF Start
  <2> QED BY <2>1, <2>2, <2>4, <2>5, <2>6, FilesKept
<1>3. ASSUME NEW t \in Tools, NEW pc \in Pcs, Go(t, pc), UNCHANGED <<remote, files>>,
             InOrder([tool[t] EXCEPT !.pc = pc])
      PROVE  DownloadInv'
  <2> DEFINE d == [tool[t] EXCEPT !.pc = pc]
  <2>1. d \in Downloads /\ (d.created <=> tool[t].created)
        /\ d.path = tool[t].path /\ d.mac = tool[t].mac
    BY PcTyped DEF DownloadInv, DownloadTypeOK
  <2>2. Set(t, d)
    BY <1>3 DEF Go
  <2> QED BY <1>3, <2>1, <2>2, FilesKept
<1>4. ASSUME NEW t \in Tools, Api(t) PROVE DownloadInv'
  <2> DEFINE pc == IF tool[t].kind = "dl" /\ tool[t].path # None THEN "create" ELSE "perform"
  <2>1. tool[t] \in Downloads /\ InOrder(tool[t]) /\ tool[t].pc = "api"
    BY <1>4 DEF Api, DownloadInv, DownloadTypeOK
  <2>2. pc \in Pcs /\ InOrder([tool[t] EXCEPT !.pc = pc])
    BY <2>1 DEF Pcs, InOrder, Downloads
  <2> QED BY <1>3, <1>4, <2>2, AbortSafe DEF Api
<1>5. ASSUME NEW t \in Tools, Empty(t) PROVE DownloadInv'
  <2> DEFINE d == [tool[t] EXCEPT !.delay = 2 * @]
  <2>1. tool[t] \in Downloads /\ 2 * tool[t].delay \in Nat
    BY DEF DownloadInv, DownloadTypeOK, Downloads
  <2>2. d \in Downloads /\ d.path = tool[t].path /\ d.mac = tool[t].mac /\ d.kind = tool[t].kind
        /\ d.pc = tool[t].pc
    <3>1. d \in Downloads
      BY <2>1, ZenonT(60) DEF Downloads
    <3>2. d.path = tool[t].path /\ d.mac = tool[t].mac /\ d.kind = tool[t].kind /\ d.pc = tool[t].pc
      BY <2>1 DEF Downloads
    <3> QED BY <3>1, <3>2
  <2>3. d.created <=> tool[t].created
    BY <2>1 DEF Downloads
  <2>4. InOrder(d)
    BY <2>2, <2>3 DEF DownloadInv, InOrder
  <2> QED BY <1>5, <2>2, <2>3, <2>4, FilesKept, AbortSafe DEF Empty
<1>6. ASSUME NEW t \in Tools, Answer(t) PROVE DownloadInv'
  <2>1. PICK served \in Contents, status \in {200, 500} :
           Set(t, [tool[t] EXCEPT !.pc = "data", !.served = served, !.status = status])
    BY <1>6 DEF Answer
  <2> DEFINE d == [tool[t] EXCEPT !.pc = "data", !.served = served, !.status = status]
  <2>2. tool[t].pc = "perform" /\ UNCHANGED <<remote, files>>
    BY <1>6 DEF Answer
  <2>3. tool[t] \in Downloads /\ served \in Seq({0, 1})
    BY ContentsAreSequences DEF DownloadInv, DownloadTypeOK
  <2>4. d \in Downloads /\ d.path = tool[t].path /\ d.mac = tool[t].mac /\ d.pc = "data"
    <3>1. d \in Downloads
      BY <2>3, ZenonT(90) DEF Downloads, Pcs
    <3>2. d.path = tool[t].path /\ d.mac = tool[t].mac /\ d.pc = "data"
      BY <2>3 DEF Downloads
    <3> QED BY <3>1, <3>2
  <2>5. d.created <=> tool[t].created
    BY <2>3 DEF Downloads
  <2>6. InOrder(d)
    BY <2>2, <2>4, <2>5 DEF DownloadInv, InOrder
  <2> QED BY <2>1, <2>2, <2>4, <2>5, <2>6, FilesKept, ZenonT(60)
<1>7. ASSUME NEW t \in Tools, EndOfData(t) PROVE DownloadInv'
  <2> DEFINE pc == IF tool[t].path = None THEN "check" ELSE "close"
  <2>1. tool[t] \in Downloads /\ InOrder(tool[t]) /\ tool[t].pc = "data"
    BY <1>7 DEF EndOfData, DownloadInv, DownloadTypeOK
  <2>2. pc \in Pcs /\ InOrder([tool[t] EXCEPT !.pc = pc])
    BY <2>1 DEF Pcs, InOrder, Downloads
  <2> QED BY <1>3, <1>7, <2>2, AbortSafe DEF EndOfData
<1>8. ASSUME NEW t \in Tools, Close(t) PROVE DownloadInv'
  <2>1. tool[t] \in Downloads /\ InOrder(tool[t]) /\ tool[t].pc = "close"
    BY <1>8 DEF Close, DownloadInv, DownloadTypeOK
  <2>2. "check" \in Pcs /\ InOrder([tool[t] EXCEPT !.pc = "check"])
    BY <2>1 DEF Pcs, InOrder, Downloads
  <2> QED BY <1>3, <1>8, <2>2, AbortSafe DEF Close
<1>9. ASSUME NEW t \in Tools, Broken(t) PROVE DownloadInv'
  BY <1>9, AbortSafe DEF Broken
<1> QED BY <1>1, <1>2, <1>4, <1>5, <1>6, <1>7, <1>8, <1>9,
           CreateSafe, ReceiveSafe, CheckSafe, CrashSafe DEF Next

\* The invariant, and with it the types.
THEOREM Invariance == Spec => []DownloadInv
<1>1. Init => DownloadInv
  BY DownloadInvInit
<1>2. DownloadInv /\ [Next]_vars => DownloadInv'
  BY DownloadStepSafe
<1> QED BY <1>1, <1>2, PTL DEF Spec

\* Whatever the server sends, the disk refuses or other downloads do, a file
\* that was reported holds the remote one (get_process_data to the MAC check).
THEOREM ReportedIsWhole == Spec => []DoneIsWhole
<1>1. DownloadInv => DoneIsWhole
  BY DEF DownloadInv
<1> QED BY <1>1, Invariance, PTL

\* A partial file belongs to a download that goes on, or that was killed.
THEOREM PartialIsRunning == Spec => []NoLeftovers
<1>1. DownloadInv => NoLeftovers
  <2> SUFFICES ASSUME DownloadInv, NEW p \in Paths, files[p] # None, files[p].by \in Tools
               PROVE  /\ tool[files[p].by].pc # "idle"
                      /\ tool[files[p].by].path = p
                      /\ tool[files[p].by].created
    BY DEF NoLeftovers
  <2>1. tool[files[p].by].created /\ tool[files[p].by].path = p
    BY DEF DownloadInv, DownloadTypeOK, OwnersKnown
  <2> QED BY <2>1 DEF DownloadInv, InOrder
<1> QED BY <1>1, Invariance, PTL

\* A download changes and removes no file but its own (err: in
\* mega_session_get and mega_session_dl).
THEOREM OnlyOwnTouched == Spec => OthersUntouched
<1> DEFINE Touch == \A path \in Paths :
               files[path] # None /\ files'[path] # files[path] =>
                   \E t \in Tools : files[path].by = t /\ tool[t] # tool'[t]
<1>1. DownloadInv /\ [Next]_vars => Touch
  <2> SUFFICES ASSUME DownloadInv, Next, NEW p \in Paths, files[p] # None, files'[p] # files[p]
               PROVE  \E t \in Tools : files[p].by = t /\ tool[t] # tool'[t]
    BY DEF vars
  <2>1. PICK t \in Tools :
           \/ Start(t) \/ Create(t) \/ Api(t)
           \/ Empty(t) \/ Answer(t) \/ Broken(t) \/ Receive(t) \/ EndOfData(t)
           \/ Close(t) \/ Check(t) \/ Crash(t)
    BY DEF Next
  <2>2. tool[t].pc # "idle" /\ tool[t] \in Downloads
    BY <2>1 DEF Start, Create, Api, Empty, Answer, Broken, Receive, EndOfData, Close, Check,
                Crash, DownloadInv, DownloadTypeOK
  <2>3. tool[t].created /\ tool[t].path = p
    <3>1. CASE Create(t)
      BY <3>1 DEF Create, DownloadInv, DownloadTypeOK
    <3>2. CASE Receive(t) \/ Check(t)
      BY <3>2 DEF Receive, Check, Abort, DownloadInv, DownloadTypeOK, InOrder
    <3>3. CASE Api(t) \/ Empty(t) \/ Answer(t) \/ Broken(t) \/ EndOfData(t) \/ Close(t) \/ Crash(t)
               \/ Start(t)
      BY <3>3 DEF Start, Api, Empty, Answer, Broken, EndOfData, Close, Crash, Abort,
             DownloadInv, DownloadTypeOK
    <3> QED BY <2>1, <3>1, <3>2, <3>3
  <2>4. tool'[t] # tool[t]
    <3>1. CASE tool' = [tool EXCEPT ![t] = Idle]
      BY <2>2, <3>1 DEF Idle, DownloadInv, DownloadTypeOK
    <3>2. CASE Receive(t) /\ tool' # [tool EXCEPT ![t] = Idle]
      <4>1. tool' = [tool EXCEPT ![t] = [tool[t] EXCEPT !.mac = Received(t)]]
        BY <3>2 DEF Receive, Abort, Set
      <4>2. Received(t) # tool[t].mac
        BY <2>2 DEF Received, Downloads
      <4> QED BY <2>2, <4>1, <4>2 DEF DownloadInv, DownloadTypeOK, Downloads
    <3>3. CASE ~Receive(t)
      <4>1. Create(t) \/ Check(t) \/ Crash(t) \/ Abort(t)
        BY <2>1, <3>3 DEF Start, Api, Empty, Answer, Broken, EndOfData, Close
      <4>2. ~Create(t)
        BY <2>3 DEF Create, DownloadInv, InOrder
      <4> QED BY <3>1, <4>1, <4>2 DEF Check, Crash, Abort, Set
    <3> QED BY <3>1, <3>2, <3>3
  <2>5. files[p].by = t
    BY <2>3 DEF DownloadInv, Owns
  <2> QED BY <2>4, <2>5
<1>2. Touch => [Touch]_vars
  OBVIOUS
<1> QED BY <1>1, Invariance, PTL DEF Spec, OthersUntouched

-----------------------------------------------------------------------------
(* Uploads: the nodes an upload makes describe what the server stored.  The *)
(* invariant follows the bytes: what was sent is what the MAC has seen, no  *)
(* more of it than was announced unless the file grew, and the file's own   *)
(* beginning unless somebody wrote to it.                                   *)

UploadPcs == {"idle", "url", "send", "answer", "preview", "node"}

ByteSeqs == Seq({0, 1})

Uploads == [pc : UploadPcs, size : Nat, sent : ByteSeqs, mac : ByteSeqs, stored : ByteSeqs,
            fa : BOOLEAN, runs : Nat, source : ByteSeqs, grown : BOOLEAN, touched : BOOLEAN]

NodesMade == [data : ByteSeqs, mac : ByteSeqs, fa : BOOLEAN, source : ByteSeqs,
              grown : BOOLEAN, touched : BOOLEAN]

UploadTypeOK ==
    /\ local \in ByteSeqs
    /\ up \in Uploads
    /\ nodes \in Seq(NodesMade)

\* One sequence begins as the other does.
Begins(s, t) == Len(s) <= Len(t) /\ \A i \in 1 .. Len(s) : s[i] = t[i]

\* An upload, by what happened to the file since it was opened.
UploadSound(u) ==
    /\ u.mac = u.sent
    /\ u.size = Len(u.source)
    /\ ~u.grown => Len(u.sent) <= u.size
    /\ ~u.touched => Begins(u.sent, u.source)
    /\ u.pc \in {"preview", "node"} => /\ ~u.grown => u.stored = u.sent
                                       /\ ~u.touched => u.stored = u.source

\* The file while it is being read.
FileSound ==
    up.pc \in {"url", "send"} => /\ ~up.grown => Len(local) <= up.size
                                 /\ ~up.touched => local = up.source

\* A node, as the upload that made it left it.
NodeSound(n) ==
    /\ ~n.grown => n.mac = n.data
    /\ ~n.touched => n.data = n.source

\* The inductive invariant.
UploadInv ==
    /\ UploadTypeOK
    /\ UploadSound(up)
    /\ FileSound
    /\ \A i \in DOMAIN nodes : NodeSound(nodes[i])

-----------------------------------------------------------------------------
LEMMA LocalAreSequences == LocalFiles \subseteq ByteSeqs
BY DEF LocalFiles, ByteSeqs

LEMMA NoUploadSound == NoUpload \in Uploads /\ UploadSound(NoUpload) /\ NoUpload.pc = "idle"
BY DEF NoUpload, Uploads, UploadPcs, ByteSeqs, UploadSound, Begins

LEMMA UploadInvInit == UploadInit => UploadInv
BY NoUploadSound, LocalAreSequences DEF UploadInit, UploadInv, UploadTypeOK, FileSound

\* A sequence continued with the rest of another, up to some place.
LEMMA Continued ==
  ASSUME NEW S, NEW s \in Seq(S), NEW t \in Seq(S), NEW e \in Nat, e <= Len(t)
  PROVE  LET piece == SubSeq(t, Len(s) + 1, e)
         IN /\ piece \in Seq(S) /\ s \o piece \in Seq(S)
            /\ Len(s \o piece) = IF Len(s) < e THEN e ELSE Len(s)
            /\ Begins(s, t) => Begins(s \o piece, t)
<1> DEFINE n == Len(s)
           piece == SubSeq(t, n + 1, e)
           both == s \o piece
<1>1. n \in Nat /\ Len(t) \in Nat /\ n + 1 \in Int /\ e \in Int
  OBVIOUS
<1>2. \A i \in n + 1 .. e : t[i] \in S
  <2>1. \A i \in n + 1 .. e : i \in 1 .. Len(t)
    BY <1>1
  <2> QED BY <2>1, ElementOfSeq
<1>3. /\ piece \in Seq(S)
      /\ Len(piece) = IF n + 1 <= e THEN e - (n + 1) + 1 ELSE 0
      /\ \A i \in 1 .. e - (n + 1) + 1 : piece[i] = t[n + 1 + i - 1]
  BY <1>1, <1>2, SubSeqProperties
<1> HIDE DEF piece
<1>4. /\ both \in Seq(S)
      /\ Len(both) = n + Len(piece)
      /\ \A i \in 1 .. n + Len(piece) : both[i] = IF i <= n THEN s[i] ELSE piece[i - n]
  BY <1>3, ConcatProperties
<1> HIDE DEF both
<1>5. Len(both) = IF n < e THEN e ELSE n
  BY <1>1, <1>3, <1>4
<1>6. ASSUME Begins(s, t) PROVE Begins(both, t)
  <2>1. n <= Len(t) /\ \A i \in 1 .. n : s[i] = t[i]
    BY <1>6 DEF Begins
  <2> SUFFICES ASSUME NEW i \in 1 .. Len(both) PROVE both[i] = t[i]
    BY <1>1, <1>5, <2>1 DEF Begins
  <2>2. CASE i <= n
    BY <1>1, <1>3, <1>4, <2>1, <2>2
  <2>3. CASE i > n
    <3>1. i - n \in 1 .. e - (n + 1) + 1 /\ n < e /\ both[i] = piece[i - n]
      BY <1>1, <1>3, <1>4, <1>5, <2>3
    <3>2. piece[i - n] = t[n + 1 + (i - n) - 1]
      BY <1>3, <3>1
    <3>3. n + 1 + (i - n) - 1 = i
      BY <1>1, <1>5
    <3> QED BY <3>1, <3>2, <3>3
  <2> QED BY <1>1, <1>5, <2>2, <2>3
<1> QED BY <1>3, <1>4, <1>5, <1>6 DEF both, piece

\* What one request of libcurl adds to what was sent.
LEMMA PieceAdds ==
  ASSUME UploadTypeOK
  PROVE  /\ Piece \in ByteSeqs /\ up.sent \o Piece \in ByteSeqs
         /\ Len(up.sent \o Piece) <= Len(up.sent) \/ Len(up.sent \o Piece) <= Len(local)
         /\ Begins(up.sent, local) => Begins(up.sent \o Piece, local)
<1> DEFINE n == Len(up.sent)
           e == IF n + Buffer < Len(local) THEN n + Buffer ELSE Len(local)
<1>1. up.sent \in Seq({0, 1}) /\ local \in Seq({0, 1}) /\ Buffer \in Nat
  BY UploadAssumption DEF UploadTypeOK, Uploads, ByteSeqs
<1>2. n \in Nat /\ Len(local) \in Nat
  BY <1>1
<1>3. e \in Nat /\ e <= Len(local)
  BY <1>1, <1>2
<1>4. Piece = SubSeq(local, n + 1, e)
  BY DEF Piece
<1> HIDE DEF e
<1> DEFINE piece == SubSeq(local, Len(up.sent) + 1, e)
<1>5. /\ piece \in Seq({0, 1}) /\ up.sent \o piece \in Seq({0, 1})
      /\ Len(up.sent \o piece) = IF Len(up.sent) < e THEN e ELSE Len(up.sent)
      /\ Begins(up.sent, local) => Begins(up.sent \o piece, local)
  BY <1>1, <1>3, Continued
<1>6. Piece = piece
  BY <1>4
<1> HIDE DEF piece
<1> QED BY <1>2, <1>3, <1>5, <1>6 DEF ByteSeqs

-----------------------------------------------------------------------------
\* A step of the upload that touches neither the file nor the nodes.
LEMMA UploadStep ==
  ASSUME UploadInv, UNCHANGED <<local, nodes>>,
         up' \in Uploads, UploadSound(up'), FileSound'
  PROVE  UploadInv'
BY DEF UploadInv, UploadTypeOK

LEMMA OpenSafe == ASSUME UploadInv, Open PROVE UploadInv'
<1>1. /\ up' \in Uploads /\ UNCHANGED <<local, nodes>>
      /\ up'.pc = "url" /\ up'.size = Len(local) /\ up'.source = local
      /\ up'.sent = << >> /\ up'.mac = << >> /\ Len(local) \in Nat
  <2>1. local \in ByteSeqs /\ Len(local) \in Nat
    BY DEF UploadInv, UploadTypeOK, ByteSeqs
  <2>2. up' = [NoUpload EXCEPT !.pc = "url", !.size = Len(local), !.source = local]
    BY DEF Open
  <2> QED BY <2>1, <2>2, NoUploadSound, ZenonT(60) DEF Open, NoUpload, Uploads, UploadPcs
<1>2. UploadSound(up')
  BY <1>1 DEF UploadSound, Begins
<1>3. FileSound'
  BY <1>1 DEF FileSound
<1> QED BY <1>1, <1>2, <1>3, UploadStep

LEMMA FailSafe == ASSUME UploadInv, Fail, UNCHANGED <<local, nodes>> PROVE UploadInv'
<1>1. up' = NoUpload
  BY DEF Fail
<1>2. FileSound'
  BY <1>1, NoUploadSound DEF FileSound
<1> QED BY <1>1, <1>2, NoUploadSound, UploadStep

\* A step to another place in the code, but not back to where the file is read.
LEMMA UploadGoSafe ==
  ASSUME UploadInv, NEW pc \in UploadPcs, UploadGo(pc), UNCHANGED <<local, nodes>>,
         pc \notin {"preview", "node"}, pc \in {"url", "send"} => up.pc \in {"url", "send"}
  PROVE  UploadInv'
<1>1. up \in Uploads /\ up' = [up EXCEPT !.pc = pc]
  BY DEF UploadInv, UploadTypeOK, UploadGo
<1>2. up' \in Uploads
  BY <1>1 DEF Uploads
<1>3. /\ up'.pc = pc /\ up'.size = up.size /\ up'.sent = up.sent /\ up'.mac = up.mac
      /\ up'.source = up.source /\ up'.grown = up.grown /\ up'.touched = up.touched
  BY <1>1 DEF Uploads
<1>4. UploadSound(up')
  BY <1>3 DEF UploadInv, UploadSound
<1>5. FileSound'
  BY <1>3 DEF UploadInv, FileSound
<1> QED BY <1>2, <1>4, <1>5, UploadStep

LEMMA SendSafe == ASSUME UploadInv, Send PROVE UploadInv'
<1>1. up \in Uploads /\ up.pc = "send" /\ UNCHANGED <<local, nodes>>
  BY DEF UploadInv, UploadTypeOK, Send
<1>2. CASE UploadGo("answer")
  BY <1>1, <1>2, UploadGoSafe DEF UploadPcs
<1>3. ASSUME NEW pc \in {"send", "answer"},
             up' = [up EXCEPT !.sent = up.sent \o Piece, !.mac = @ \o Piece, !.pc = pc]
      PROVE  UploadInv'
  <2> DEFINE sent == up.sent \o Piece
  <2>1. /\ Piece \in ByteSeqs /\ sent \in ByteSeqs
        /\ Len(sent) <= Len(up.sent) \/ Len(sent) <= Len(local)
        /\ Begins(up.sent, local) => Begins(sent, local)
    BY PieceAdds DEF UploadInv
  <2>2. up.mac = up.sent
    BY DEF UploadInv, UploadSound
  <2>3. up' = [up EXCEPT !.sent = sent, !.mac = sent, !.pc = pc]
    BY <1>3, <2>2
  <2> HIDE DEF sent
  <2>4. up' \in Uploads
    BY <1>1, <2>1, <2>3 DEF Uploads, UploadPcs
  <2>5. /\ up'.pc = pc /\ up'.size = up.size /\ up'.sent = sent /\ up'.mac = sent
        /\ up'.source = up.source /\ up'.grown = up.grown /\ up'.touched = up.touched
    BY <1>1, <2>3 DEF Uploads
  <2>6. ~up.grown => Len(sent) <= up.size
    <3>1. Len(sent) \in Nat /\ Len(up.sent) \in Nat /\ Len(local) \in Nat /\ up.size \in Nat
      BY <1>1, <2>1 DEF UploadInv, UploadTypeOK, Uploads, ByteSeqs
    <3> QED BY <1>1, <2>1, <3>1 DEF UploadInv, UploadSound, FileSound
  <2>7. ~up.touched => Begins(sent, up.source)
    BY <1>1, <2>1 DEF UploadInv, UploadSound, FileSound
  <2>8. UploadSound(up')
    BY <2>5, <2>6, <2>7 DEF UploadInv, UploadSound
  <2>9. FileSound'
    BY <1>1, <2>5 DEF UploadInv, FileSound
  <2> QED BY <1>1, <2>4, <2>8, <2>9, UploadStep
<1> QED BY <1>2, <1>3 DEF Send

\* The server keeps what was announced, which is all that was sent unless the
\* file grew, and all of the file unless somebody wrote to it.
LEMMA AnswerSafe == ASSUME UploadInv, UploadAnswer PROVE UploadInv'
<1>1. up \in Uploads /\ UNCHANGED <<local, nodes>>
  BY DEF UploadInv, UploadTypeOK, UploadAnswer
<1>2. CASE Fail
  BY <1>1, <1>2, FailSafe
<1>3. CASE /\ Len(up.sent) >= up.size
           /\ up' = [up EXCEPT !.pc = "preview", !.stored = SubSeq(up.sent, 1, up.size)]
  <2> DEFINE stored == SubSeq(up.sent, 1, up.size)
  <2>1. /\ up.sent \in Seq({0, 1}) /\ up.source \in Seq({0, 1}) /\ up.size \in Nat
        /\ Len(up.sent) \in Nat /\ up.size = Len(up.source)
    BY <1>1 DEF Uploads, ByteSeqs, UploadInv, UploadSound
  <2>2. /\ stored \in Seq({0, 1}) /\ Len(stored) = up.size
        /\ \A i \in 1 .. up.size : stored[i] = up.sent[i]
    <3>1. \A i \in 1 .. up.size : up.sent[i] \in {0, 1}
      BY <1>3, <2>1, ElementOfSeq
    <3>2. /\ stored \in Seq({0, 1})
          /\ Len(stored) = IF 1 <= up.size THEN up.size - 1 + 1 ELSE 0
          /\ \A i \in 1 .. up.size - 1 + 1 : stored[i] = up.sent[1 + i - 1]
      BY <2>1, <3>1, SubSeqProperties
    <3> HIDE DEF stored
    <3>3. Len(stored) = up.size /\ up.size - 1 + 1 = up.size
      BY <2>1, <3>2
    <3>4. ASSUME NEW i \in 1 .. up.size PROVE stored[i] = up.sent[i]
      <4>1. 1 + i - 1 = i
        BY <2>1
      <4> QED BY <3>2, <3>3, <4>1
    <3> QED BY <3>2, <3>3, <3>4
  <2> HIDE DEF stored
  <2>3. ASSUME ~up.grown PROVE stored = up.sent
    <3>1. Len(stored) = Len(up.sent)
      BY <1>3, <2>1, <2>2, <2>3 DEF UploadInv, UploadSound
    <3> QED BY <2>1, <2>2, <3>1, SeqEqual
  <2>4. ASSUME ~up.touched PROVE stored = up.source
    <3>1. \A i \in 1 .. Len(stored) : stored[i] = up.source[i]
      BY <1>3, <2>1, <2>2, <2>4 DEF UploadInv, UploadSound, Begins
    <3> QED BY <2>1, <2>2, <3>1, SeqEqual
  <2>5. up' = [up EXCEPT !.pc = "preview", !.stored = stored]
    BY <1>3 DEF stored
  <2>6. up' \in Uploads
    BY <1>1, <2>2, <2>5 DEF Uploads, UploadPcs, ByteSeqs
  <2>7. /\ up'.pc = "preview" /\ up'.size = up.size /\ up'.sent = up.sent /\ up'.mac = up.mac
        /\ up'.source = up.source /\ up'.grown = up.grown /\ up'.touched = up.touched
        /\ up'.stored = stored
    BY <1>1, <2>5 DEF Uploads
  <2>8. UploadSound(up')
    BY <2>3, <2>4, <2>7 DEF UploadInv, UploadSound
  <2>9. FileSound'
    BY <2>7 DEF FileSound
  <2> QED BY <1>1, <2>6, <2>8, <2>9, UploadStep
<1> QED BY <1>2, <1>3 DEF UploadAnswer

LEMMA AskUrlSafe == ASSUME UploadInv, AskUrl PROVE UploadInv'
<1> DEFINE pc == IF up.size = 0 THEN "answer" ELSE "send"
<1>1. up.pc = "url" /\ UNCHANGED <<local, nodes>>
  BY DEF AskUrl
<1>2. pc \in UploadPcs /\ pc \notin {"preview", "node"}
  BY DEF UploadPcs
<1> HIDE DEF pc
<1> QED BY <1>1, <1>2, UploadGoSafe, FailSafe DEF AskUrl, pc

LEMMA PreviewSafe == ASSUME UploadInv, Preview PROVE UploadInv'
<1>1. up \in Uploads /\ up.pc = "preview" /\ UNCHANGED <<local, nodes>>
  BY DEF UploadInv, UploadTypeOK, Preview
<1>2. PICK fa \in BOOLEAN : up' = [up EXCEPT !.pc = "node", !.fa = fa]
  BY DEF Preview
<1>3. up' \in Uploads
  BY <1>1, <1>2 DEF Uploads, UploadPcs
<1>4. /\ up'.pc = "node" /\ up'.size = up.size /\ up'.sent = up.sent /\ up'.mac = up.mac
      /\ up'.source = up.source /\ up'.grown = up.grown /\ up'.touched = up.touched
      /\ up'.stored = up.stored
  BY <1>1, <1>2 DEF Uploads
<1>5. UploadSound(up')
  BY <1>1, <1>4 DEF UploadInv, UploadSound
<1>6. FileSound'
  BY <1>4 DEF FileSound
<1> QED BY <1>1, <1>3, <1>5, <1>6, UploadStep

\* Every node a repeated command makes is as sound as the first.
LEMMA RunSafe == ASSUME UploadInv, Run PROVE UploadInv'
<1> DEFINE node == [data |-> up.stored, mac |-> up.mac, fa |-> up.fa, source |-> up.source,
                    grown |-> up.grown, touched |-> up.touched]
<1>1. /\ up \in Uploads /\ up.pc = "node" /\ local' = local
      /\ nodes' = Append(nodes, node) /\ up' = [up EXCEPT !.runs = @ + 1]
  BY DEF UploadInv, UploadTypeOK, Run
<1>2. node \in NodesMade
  BY <1>1 DEF Uploads, NodesMade
<1>3. NodeSound(node)
  BY <1>1 DEF UploadInv, UploadSound, NodeSound
<1> HIDE DEF node
<1>4. up' \in Uploads
  <2>1. up.runs + 1 \in Nat
    BY <1>1 DEF Uploads
  <2> QED BY <1>1, <2>1 DEF Uploads
<1>5. /\ up'.pc = "node" /\ up'.size = up.size /\ up'.sent = up.sent /\ up'.mac = up.mac
      /\ up'.source = up.source /\ up'.grown = up.grown /\ up'.touched = up.touched
      /\ up'.stored = up.stored
  BY <1>1 DEF Uploads
<1>6. UploadTypeOK'
  BY <1>1, <1>2, <1>4 DEF UploadInv, UploadTypeOK
<1>7. UploadSound(up') /\ FileSound'
  BY <1>1, <1>5 DEF UploadInv, UploadSound, FileSound
<1>8. \A i \in DOMAIN nodes' : NodeSound(nodes'[i])
  <2> SUFFICES ASSUME NEW i \in DOMAIN nodes' PROVE NodeSound(nodes'[i])
    OBVIOUS
  <2>1. nodes \in Seq(NodesMade) /\ DOMAIN nodes = 1 .. Len(nodes) /\ Len(nodes) \in Nat
    BY DEF UploadInv, UploadTypeOK
  <2>2. DOMAIN nodes' = 1 .. Len(nodes) + 1
    BY <1>1, <1>2, <2>1
  <2>3. CASE i = Len(nodes) + 1
    BY <1>1, <1>2, <1>3, <2>1, <2>3
  <2>4. CASE i \in 1 .. Len(nodes)
    BY <1>1, <1>2, <2>1, <2>4 DEF UploadInv
  <2> QED BY <2>1, <2>2, <2>3, <2>4
<1> QED BY <1>6, <1>7, <1>8 DEF UploadInv

LEMMA PutNodeSafe == ASSUME UploadInv, PutNode PROVE UploadInv'
BY FailSafe DEF PutNode

\* What is written to the file is remembered while the file is being read.
LEMMA ChangeSafe == ASSUME UploadInv, Change PROVE UploadInv'
<1>1. PICK c \in LocalFiles :
         /\ local' = c
         /\ up' = IF up.pc \in {"url", "send"}
                  THEN [up EXCEPT !.touched = TRUE, !.grown = @ \/ Len(c) > up.size]
                  ELSE up
  BY DEF Change
<1>2. up \in Uploads /\ c \in ByteSeqs /\ nodes' = nodes
  BY LocalAreSequences DEF UploadInv, UploadTypeOK, Change
<1>3. CASE up.pc \notin {"url", "send"}
  BY <1>1, <1>2, <1>3 DEF UploadInv, UploadTypeOK, FileSound
<1>4. CASE up.pc \in {"url", "send"}
  <2> DEFINE grown == up.grown \/ Len(c) > up.size
  <2>1. up' = [up EXCEPT !.touched = TRUE, !.grown = grown]
    BY <1>1, <1>4
  <2>2. grown \in BOOLEAN /\ (~grown => ~up.grown /\ Len(c) <= up.size)
    BY <1>2 DEF Uploads, ByteSeqs
  <2> HIDE DEF grown
  <2>3. up' \in Uploads
    BY <1>2, <2>1, <2>2 DEF Uploads
  <2>4. /\ up'.pc = up.pc /\ up'.size = up.size /\ up'.sent = up.sent /\ up'.mac = up.mac
        /\ up'.source = up.source
    BY <1>2, <2>1 DEF Uploads
  <2>5. up'.touched /\ (up'.grown <=> grown)
    BY <1>2, <2>1 DEF Uploads
  <2>6. UploadSound(up')
    BY <1>4, <2>2, <2>4, <2>5 DEF UploadInv, UploadSound
  <2>7. FileSound'
    BY <1>1, <2>2, <2>4, <2>5 DEF FileSound
  <2> QED BY <1>1, <1>2, <2>3, <2>6, <2>7 DEF UploadInv, UploadTypeOK
<1> QED BY <1>3, <1>4

LEMMA UploadStepSafe == ASSUME UploadInv, [UploadNext]_uploadVars PROVE UploadInv'
<1>1. CASE UNCHANGED uploadVars
  BY <1>1 DEF uploadVars, UploadInv, UploadTypeOK, FileSound
<1> QED BY <1>1, OpenSafe, AskUrlSafe, SendSafe, AnswerSafe, PreviewSafe, RunSafe, PutNodeSafe,
           ChangeSafe DEF UploadNext

-----------------------------------------------------------------------------
\* The invariant, and with it the types.
THEOREM UploadInvariance == UploadSpec => []UploadInv
<1>1. UploadInit => UploadInv
  BY UploadInvInit
<1>2. UploadInv /\ [UploadNext]_uploadVars => UploadInv'
  BY UploadStepSafe
<1> QED BY <1>1, <1>2, PTL DEF UploadSpec

\* The node of an upload carries the MAC of what is stored, and is the file,
\* with the exceptions NodeReadable and NodeIsFile name (mega_session_put).
THEOREM NodesAreSound == UploadSpec => []NodeIsSound
<1>1. UploadInv => NodeIsSound
  BY DEF UploadInv, NodeSound, NodeIsSound, NodeReadable, NodeIsFile
<1> QED BY <1>1, UploadInvariance, PTL

-----------------------------------------------------------------------------
(* The MAC: that get_chunk_off, which the code does not use, describes what *)
(* the boundaries it moves along come to, and that padded bytes can be told *)
(* from the chunks they are cut into.                                       *)

Less == OpToRel(<, Nat)

\* Induction over the natural numbers, about a set.
LEMMA Induct ==
  ASSUME NEW T \in SUBSET Nat, 0 \in T, \A n \in T : n + 1 \in T
  PROVE  T = Nat
<1> DEFINE M == {n \in Nat : n \notin T}
<1> SUFFICES ASSUME M # {} PROVE FALSE
  OBVIOUS
<1>1. PICK m \in M : \A k \in M : <<k, m>> \notin Less
  <2>1. M \subseteq Nat
    OBVIOUS
  <2> HIDE DEF M
  <2> QED BY <2>1, NatLessThanWellFounded, WFMin DEF Less
<1>2. m # 0 /\ m - 1 \in Nat
  BY <1>1
<1>3. <<m - 1, m>> \in Less
  BY <1>1, <1>2 DEF Less, OpToRel
<1> QED BY <1>1, <1>2, <1>3

\* A multiple of c below the next one of b is at most b's.
LEMMA MultiplesOrdered ==
  ASSUME NEW a \in Nat, NEW b \in Nat, NEW c \in Nat \ {0}, a * c < b * c + c
  PROVE  a * c <= b * c
<1>1. CASE a <= b
  <2>1. (b - a) \in Nat
    BY <1>1
  <2>2. (b - a) * c >= 0
    BY <2>1
  <2>3. (b - a) * c = b * c - a * c
    OBVIOUS
  <2> QED BY <2>2, <2>3
<1>2. CASE a > b
  <2>1. (a - b - 1) \in Nat
    BY <1>2
  <2>2. (a - b - 1) * c >= 0
    BY <2>1
  <2>3. (a - b - 1) * c = a * c - b * c - c
    OBVIOUS
  <2> QED BY <2>2, <2>3
<1> QED BY <1>1, <1>2

\* The end of a block is the least multiple of its size.
LEMMA BlockEndIs ==
  ASSUME NEW n \in Nat
  PROVE  /\ BlockEnd(n) \in Nat /\ n <= BlockEnd(n)
         /\ \A b \in Nat : n <= b * Block => BlockEnd(n) <= b * Block
<1> DEFINE q == (n + Block - 1) \div Block
<1>1. Block \in Nat \ {0} /\ BlockEnd(n) = q * Block
  BY BlockAssumption DEF BlockEnd
<1>2. /\ q \in Nat
      /\ q * Block <= n + Block - 1 /\ n + Block - 1 < q * Block + Block
  BY <1>1
<1> HIDE DEF q
<1>3. q * Block \in Nat
  BY <1>1, <1>2
<1>4. ASSUME NEW b \in Nat, n <= b * Block PROVE q * Block <= b * Block
  <2>1. b * Block \in Nat
    BY <1>1
  <2>2. q * Block < b * Block + Block
    BY <1>1, <1>2, <1>3, <1>4, <2>1
  <2> QED BY <1>1, <1>2, <2>2, MultiplesOrdered
<1> QED BY <1>1, <1>2, <1>3, <1>4

-----------------------------------------------------------------------------
(* The offsets of chunks.                                                   *)

\* A chunk is some blocks.
LEMMA ChunkSizeIs ==
  ASSUME NEW i \in Nat
  PROVE  /\ ChunkSize(i) \in Nat \ {0}
         /\ \E b \in Nat : ChunkSize(i) = b * Block
<1> DEFINE g == IF i < Growth THEN i + 1 ELSE Growth
<1>1. g \in Nat \ {0} /\ Unit \in Nat \ {0} /\ Block \in Nat \ {0}
  BY MacAssumption, BlockAssumption
<1>2. ChunkSize(i) = g * Unit * Block
  BY DEF ChunkSize
<1> HIDE DEF g
<1>3. g * Unit \in Nat /\ g * Unit > 0
  BY <1>1
<1>4. g * Unit * Block \in Nat /\ g * Unit * Block > 0
  <2> DEFINE h == g * Unit
  <2> HIDE DEF h
  <2>1. h \in Nat /\ h > 0
    BY <1>3 DEF h
  <2>2. h * Block \in Nat /\ h * Block > 0
    BY <1>1, <2>1
  <2> QED BY <2>2 DEF h
<1> QED BY <1>2, <1>3, <1>4

\* The offsets are what get_chunk_off adds up: there is such a function, for it
\* has a closed form.
LEMMA ChunkOffIs ==
  /\ ChunkOff[0] = 0
  /\ \A i \in Nat : ChunkOff[i + 1] = ChunkOff[i] + ChunkSize(i)
<1> DEFINE body(fn) == [i \in Nat |-> IF i = 0 THEN 0 ELSE fn[i - 1] + ChunkSize(i - 1)]
           first(i) == (i * (i + 1)) \div 2
           count(i) == IF i <= Growth THEN first(i) ELSE first(Growth) + (i - Growth) * Growth
           closed == [i \in Nat |-> count(i) * (Unit * Block)]
<1>1. Growth \in Nat \ {0} /\ Unit \in Nat \ {0} /\ Block \in Nat \ {0}
  BY MacAssumption, BlockAssumption
<1>2. ASSUME NEW i \in Nat
      PROVE  /\ first(i) \in Nat /\ first(0) = 0
             /\ first(i + 1) = first(i) + i + 1
  <2> DEFINE x == i * (i + 1)
  <2>1. x \in Nat /\ (i + 1) * (i + 1 + 1) = x + 2 * (i + 1)
    OBVIOUS
  <2>2. first(i) = x \div 2 /\ first(i + 1) = (x + 2 * (i + 1)) \div 2
    BY <2>1
  <2> HIDE DEF x
  <2>3. (x + 2 * (i + 1)) \div 2 = x \div 2 + (i + 1) /\ x \div 2 \in Nat
    BY <2>1
  <2>4. first(0) = 0
    OBVIOUS
  <2> HIDE DEF first
  <2> QED BY <2>2, <2>3, <2>4
<1> HIDE DEF first
<1>3. ASSUME NEW i \in Nat
      PROVE  /\ count(i) \in Nat /\ count(0) = 0
             /\ count(i + 1) = count(i) + IF i < Growth THEN i + 1 ELSE Growth
  <2>1. CASE i < Growth
    BY <1>1, <1>2, <2>1
  <2>2. CASE i = Growth
    BY <1>1, <1>2, <2>2
  <2>3. CASE i > Growth
    <3>1. /\ (i - Growth) * Growth \in Nat
          /\ (i + 1 - Growth) * Growth = (i - Growth) * Growth + Growth
      BY <1>1, <2>3
    <3>2. /\ count(i) = first(Growth) + (i - Growth) * Growth
          /\ count(i + 1) = first(Growth) + (i + 1 - Growth) * Growth
      BY <1>1, <2>3
    <3>3. first(Growth) \in Nat /\ count(0) = 0
      BY <1>1, <1>2
    <3> DEFINE y == (i - Growth) * Growth
    <3> HIDE DEF count, y
    <3>4. /\ y \in Nat /\ count(i) = first(Growth) + y
          /\ count(i + 1) = first(Growth) + (y + Growth)
      BY <3>1, <3>2 DEF y
    <3> QED BY <1>1, <2>3, <3>3, <3>4
  <2> QED BY <1>1, <2>1, <2>2, <2>3
<1> HIDE DEF count
<1>4. ASSUME NEW i \in Nat PROVE closed[i + 1] = closed[i] + ChunkSize(i)
  <2> DEFINE g == IF i < Growth THEN i + 1 ELSE Growth
             w == Unit * Block
  <2>1. g \in Nat /\ w \in Nat /\ count(i) \in Nat
    BY <1>1, <1>3
  <2>2. closed[i + 1] = (count(i) + g) * w /\ closed[i] = count(i) * w
    BY <1>3
  <2>3. ChunkSize(i) = g * w
    BY <1>1, <2>1 DEF ChunkSize
  <2> HIDE DEF g, w
  <2>4. (count(i) + g) * w = count(i) * w + g * w
    BY <2>1
  <2> QED BY <2>2, <2>3, <2>4
<1>5. closed[0] = 0
  BY <1>1, <1>3
<1> HIDE DEF closed
<1>6. closed = body(closed)
  <2>1. ASSUME NEW i \in Nat PROVE closed[i] = body(closed)[i]
    <3>1. CASE i = 0
      BY <1>5, <3>1
    <3>2. CASE i # 0
      <4>1. i - 1 \in Nat /\ i - 1 + 1 = i
        BY <3>2
      <4> QED BY <1>4, <3>2, <4>1
    <3> QED BY <3>1, <3>2
  <2>2. closed = [i \in Nat |-> closed[i]]
    BY DEF closed
  <2> QED BY <2>1, <2>2
<1>7. ChunkOff = body(ChunkOff)
  <2>1. ChunkOff = CHOOSE fn : fn = body(fn)
    BY DEF ChunkOff
  <2> HIDE DEF body
  <2> QED BY <1>6, <2>1
<1>8. ASSUME NEW i \in Nat PROVE ChunkOff[i + 1] = ChunkOff[i] + ChunkSize(i)
  <2>1. i + 1 \in Nat /\ i + 1 # 0 /\ i + 1 - 1 = i
    OBVIOUS
  <2> QED BY <1>7, <2>1
<1>9. ChunkOff[0] = 0
  BY <1>7
<1> QED BY <1>8, <1>9

\* A chunk ends where a block ends, and none is empty.
LEMMA OffsetsGrow ==
  ASSUME NEW i \in Nat
  PROVE  /\ ChunkOff[i] \in Nat /\ i <= ChunkOff[i] /\ ChunkOff[i] < ChunkOff[i + 1]
         /\ \E b \in Nat : ChunkOff[i] = b * Block
<1> DEFINE T == {n \in Nat : /\ ChunkOff[n] \in Nat /\ n <= ChunkOff[n]
                             /\ \E b \in Nat : ChunkOff[n] = b * Block}
<1>1. Block \in Nat \ {0}
  BY BlockAssumption
<1>2. 0 \in T
  <2>1. 0 = 0 * Block
    BY <1>1
  <2> QED BY <2>1, ChunkOffIs
<1>3. ASSUME NEW n \in T PROVE n + 1 \in T
  <2>1. n \in Nat /\ ChunkOff[n + 1] = ChunkOff[n] + ChunkSize(n)
    BY ChunkOffIs
  <2>2. PICK a \in Nat : ChunkOff[n] = a * Block
    OBVIOUS
  <2>3. PICK b \in Nat : ChunkSize(n) = b * Block
    BY <2>1, ChunkSizeIs
  <2>4. a + b \in Nat /\ (a + b) * Block = a * Block + b * Block
    BY <1>1
  <2>5. ChunkSize(n) \in Nat \ {0}
    BY <2>1, ChunkSizeIs
  <2> QED BY <2>1, <2>2, <2>3, <2>4, <2>5
<1>4. T = Nat
  <2>1. T \in SUBSET Nat
    OBVIOUS
  <2> HIDE DEF T
  <2> QED BY <1>2, <1>3, <2>1, Induct
<1>5. i \in T
  BY <1>4
<1>6. ChunkOff[i + 1] = ChunkOff[i] + ChunkSize(i) /\ ChunkSize(i) \in Nat \ {0}
  BY ChunkOffIs, ChunkSizeIs
<1> QED BY <1>5, <1>6

\* So that they are in order.
LEMMA OffsetsOrdered ==
  ASSUME NEW i \in Nat, NEW j \in Nat, i < j
  PROVE  ChunkOff[i] < ChunkOff[j]
<1> DEFINE T == {n \in Nat : i < n => ChunkOff[i] < ChunkOff[n]}
<1>1. 0 \in T
  OBVIOUS
<1>2. ASSUME NEW n \in T PROVE n + 1 \in T
  <2>1. /\ ChunkOff[i] \in Nat /\ ChunkOff[n] \in Nat /\ ChunkOff[n + 1] \in Nat
        /\ ChunkOff[n] < ChunkOff[n + 1]
    BY OffsetsGrow
  <2> QED BY <2>1
<1>3. T = Nat
  <2>1. T \in SUBSET Nat
    OBVIOUS
  <2> HIDE DEF T
  <2> QED BY <1>1, <1>2, <2>1, Induct
<1>4. j \in T
  BY <1>3
<1> QED BY <1>4

\* Every position is in a chunk.
LEMMA ChunkFound ==
  ASSUME NEW n \in Nat, NEW e \in Nat \ {0}, e <= ChunkOff[n]
  PROVE  \E i \in 1 .. n : ChunkOff[i - 1] < e /\ e <= ChunkOff[i]
<1> DEFINE T == {k \in Nat : e <= ChunkOff[k] =>
                     \E i \in 1 .. k : ChunkOff[i - 1] < e /\ e <= ChunkOff[i]}
<1>1. 0 \in T
  BY ChunkOffIs
<1>2. ASSUME NEW k \in T PROVE k + 1 \in T
  <2>1. CASE e <= ChunkOff[k]
    BY <2>1
  <2>2. CASE ~(e <= ChunkOff[k])
    <3>1. ChunkOff[k] \in Nat /\ k + 1 \in 1 .. k + 1 /\ k + 1 - 1 = k
      BY OffsetsGrow
    <3> QED BY <2>2, <3>1
  <2> QED BY <2>1, <2>2
<1>3. T = Nat
  <2>1. T \in SUBSET Nat
    OBVIOUS
  <2> HIDE DEF T
  <2> QED BY <1>1, <1>2, <2>1, Induct
<1>4. n \in T
  BY <1>3
<1> QED BY <1>4

-----------------------------------------------------------------------------
(* Parts of sequences.                                                      *)

\* Where a part of a sequence is its whole end, it grows with it; where it ends
\* before, it stays.
LEMMA PartsOfLonger ==
  ASSUME NEW S, NEW s \in Seq(S), NEW t \in Seq(S), NEW low \in Nat \ {0}
  PROVE  /\ low <= Len(s) + 1 =>
                SubSeq(s \o t, low, Len(s) + Len(t)) = SubSeq(s, low, Len(s)) \o t
         /\ \A high \in 0 .. Len(s) : SubSeq(s \o t, low, high) = SubSeq(s, low, high)
<1> DEFINE all == s \o t
<1>1. Len(s) \in Nat /\ Len(t) \in Nat
  OBVIOUS
<1>2. /\ all \in Seq(S) /\ Len(all) = Len(s) + Len(t)
      /\ \A i \in 1 .. Len(s) + Len(t) : all[i] = IF i <= Len(s) THEN s[i] ELSE t[i - Len(s)]
  BY ConcatProperties
<1> HIDE DEF all
<1>3. /\ \A i \in 1 .. Len(s) : s[i] \in S
      /\ \A i \in 1 .. Len(t) : t[i] \in S
      /\ \A i \in 1 .. Len(all) : all[i] \in S
  BY <1>2, ElementOfSeq
<1>4. ASSUME NEW high \in 0 .. Len(s) PROVE SubSeq(all, low, high) = SubSeq(s, low, high)
  <2> DEFINE a == SubSeq(all, low, high)
             b == SubSeq(s, low, high)
  <2>1. \A i \in low .. high : all[i] \in S /\ s[i] \in S /\ all[i] = s[i]
    BY <1>1, <1>2, <1>3
  <2>2. /\ a \in Seq(S) /\ Len(a) = IF low <= high THEN high - low + 1 ELSE 0
        /\ \A i \in 1 .. high - low + 1 : a[i] = all[low + i - 1]
    BY <2>1, SubSeqProperties
  <2>3. /\ b \in Seq(S) /\ Len(b) = IF low <= high THEN high - low + 1 ELSE 0
        /\ \A i \in 1 .. high - low + 1 : b[i] = s[low + i - 1]
    BY <2>1, SubSeqProperties
  <2> HIDE DEF a, b
  <2>4. \A i \in 1 .. Len(a) : a[i] = b[i]
    <3> SUFFICES ASSUME NEW i \in 1 .. Len(a) PROVE a[i] = b[i]
      OBVIOUS
    <3>1. i \in 1 .. high - low + 1 /\ low + i - 1 \in low .. high
      BY <1>1, <2>2
    <3> QED BY <2>1, <2>2, <2>3, <3>1
  <2>5. a = b
    BY <2>2, <2>3, <2>4, SeqEqual
  <2> QED BY <2>5 DEF a, b
<1>5. ASSUME low <= Len(s) + 1
      PROVE  SubSeq(all, low, Len(s) + Len(t)) = SubSeq(s, low, Len(s)) \o t
  <2> DEFINE end == Len(s) + Len(t)
             a == SubSeq(all, low, end)
             b == SubSeq(s, low, Len(s))
             c == b \o t
  <2>1. end \in Nat /\ \A i \in low .. end : all[i] \in S
    BY <1>1, <1>2, <1>3
  <2>2. /\ a \in Seq(S) /\ Len(a) = IF low <= end THEN end - low + 1 ELSE 0
        /\ \A i \in 1 .. end - low + 1 : a[i] = all[low + i - 1]
    BY <2>1, SubSeqProperties
  <2>3. /\ b \in Seq(S) /\ Len(b) = IF low <= Len(s) THEN Len(s) - low + 1 ELSE 0
        /\ \A i \in 1 .. Len(s) - low + 1 : b[i] = s[low + i - 1]
    BY <1>1, <1>3, SubSeqProperties
  <2> HIDE DEF a, b
  <2>4. /\ c \in Seq(S) /\ Len(c) = Len(b) + Len(t)
        /\ \A i \in 1 .. Len(b) + Len(t) : c[i] = IF i <= Len(b) THEN b[i] ELSE t[i - Len(b)]
    <3>1. b \in Seq(S) /\ t \in Seq(S)
      BY <2>3
    <3> QED BY <3>1, ConcatProperties
  <2> HIDE DEF c
  <2>5. Len(b) = Len(s) - low + 1 /\ Len(a) = end - low + 1
    BY <1>1, <1>5, <2>2, <2>3
  <2>6. Len(a) = Len(c)
    BY <1>1, <2>4, <2>5
  <2>7. \A i \in 1 .. Len(a) : a[i] = c[i]
    <3> SUFFICES ASSUME NEW i \in 1 .. Len(a) PROVE a[i] = c[i]
      OBVIOUS
    <3>1. CASE i <= Len(b)
      <4>1. low + i - 1 \in 1 .. Len(s) /\ i \in 1 .. Len(s) - low + 1
        BY <1>1, <2>5, <3>1
      <4>2. a[i] = s[low + i - 1]
        <5>1. a[i] = all[low + i - 1]
          BY <2>2, <2>5
        <5>2. low + i - 1 \in 1 .. Len(s) + Len(t) /\ low + i - 1 <= Len(s)
          BY <1>1, <4>1
        <5> QED BY <1>2, <5>1, <5>2
      <4> QED BY <2>3, <2>4, <2>5, <3>1, <4>1, <4>2
    <3>2. CASE i > Len(b)
      <4>1. low + i - 1 - Len(s) = i - Len(b)
        BY <1>1, <2>5
      <4>2. low + i - 1 \in Len(s) + 1 .. end
        BY <1>1, <1>5, <2>5, <3>2
      <4>3. a[i] = t[low + i - 1 - Len(s)]
        <5>1. a[i] = all[low + i - 1]
          BY <2>2, <2>5
        <5>2. low + i - 1 \in 1 .. Len(s) + Len(t) /\ ~(low + i - 1 <= Len(s))
          BY <1>1, <4>2
        <5> QED BY <1>2, <5>1, <5>2, SMTT(30)
      <4>4. c[i] = t[i - Len(b)]
        <5>1. i \in 1 .. Len(b) + Len(t) /\ ~(i <= Len(b))
          BY <1>1, <2>4, <2>5, <2>6, <3>2
        <5> QED BY <2>4, <5>1
      <4> QED BY <4>1, <4>3, <4>4
    <3> QED BY <2>5, <3>1, <3>2
  <2>8. a = c
    BY <2>2, <2>4, <2>6, <2>7, SeqEqual
  <2> QED BY <2>8 DEF a, b, c
<1> QED BY <1>4, <1>5 DEF all

-----------------------------------------------------------------------------
(* What the MAC should be.                                                  *)

\* The bytes of chunk i of a padded file.
Chunk(all, i) ==
    SubSeq(all, ChunkOff[i - 1] + 1, IF ChunkOff[i] < Len(all) THEN ChunkOff[i] ELSE Len(all))

\* n chunks are just enough for so many bytes.
Enough(n, length) == ChunkOff[n] >= length /\ (n = 0 \/ ChunkOff[n - 1] < length)

\* Both, of the chunk after n.
LEMMA NextChunk ==
  ASSUME NEW n \in Nat, NEW all, NEW low, low = ChunkOff[n], NEW high, high = ChunkOff[n + 1]
  PROVE  /\ Chunk(all, n + 1) = SubSeq(all, low + 1, IF high < Len(all) THEN high ELSE Len(all))
         /\ \A length \in Nat : high >= length /\ low < length => Enough(n + 1, length)
<1> DEFINE i == n + 1
<1>1. i - 1 = n
  OBVIOUS
<1> HIDE DEF i
<1>2. Chunk(all, i) = SubSeq(all, ChunkOff[n] + 1,
                             IF ChunkOff[i] < Len(all) THEN ChunkOff[i] ELSE Len(all))
  BY <1>1 DEF Chunk
<1>3. ASSUME NEW length \in Nat, ChunkOff[i] >= length, ChunkOff[n] < length
      PROVE  Enough(i, length)
  BY <1>1, <1>3 DEF Enough
<1> QED BY <1>2, <1>3 DEF i

\* Padding appends zeros.
LEMMA PaddedIs ==
  ASSUME NEW bytes \in Seq(Bytes)
  PROVE  LET zeros == [i \in 1 .. BlockEnd(Len(bytes)) - Len(bytes) |-> 0]
         IN /\ zeros \in Seq(Bytes) /\ Len(zeros) = BlockEnd(Len(bytes)) - Len(bytes)
            /\ Padded(bytes) \in Seq(Bytes) /\ Len(Padded(bytes)) = BlockEnd(Len(bytes))
            /\ Padded(bytes) = bytes \o zeros
<1> DEFINE n == Len(bytes)
           e == BlockEnd(n)
           zeros == [i \in 1 .. e - n |-> 0]
           all == Padded(bytes)
           both == bytes \o zeros
<1>1. n \in Nat /\ e \in Nat /\ n <= e
  BY BlockEndIs
<1> HIDE DEF e
<1>2. zeros \in Seq(Bytes) /\ Len(zeros) = e - n /\ \A i \in 1 .. e - n : zeros[i] = 0
  BY <1>1 DEF Bytes
<1>3. all = [i \in 1 .. e |-> IF i <= n THEN bytes[i] ELSE 0]
  BY DEF Padded, e
<1>4. \A i \in 1 .. n : bytes[i] \in Bytes
  BY ElementOfSeq
<1>5. all \in Seq(Bytes) /\ Len(all) = e
      /\ \A i \in 1 .. e : all[i] = IF i <= n THEN bytes[i] ELSE 0
  BY <1>1, <1>3, <1>4 DEF Bytes
<1> HIDE DEF zeros, all
<1>6. /\ both \in Seq(Bytes) /\ Len(both) = n + Len(zeros)
      /\ \A i \in 1 .. n + Len(zeros) : both[i] = IF i <= n THEN bytes[i] ELSE zeros[i - n]
  BY <1>2, ConcatProperties
<1> HIDE DEF both
<1>7. ASSUME NEW i \in 1 .. e PROVE all[i] = both[i]
  <2>1. CASE i <= n
    <3>1. i \in 1 .. n + Len(zeros)
      BY <1>1, <1>2
    <3> QED BY <1>5, <1>6, <2>1, <3>1
  <2>2. CASE i > n
    <3>1. i - n \in 1 .. e - n /\ i \in 1 .. n + Len(zeros)
      BY <1>1, <1>2, <2>2
    <3> QED BY <1>1, <1>2, <1>5, <1>6, <2>2, <3>1
  <2> QED BY <1>1, <2>1, <2>2
<1>8. all = both
  BY <1>1, <1>2, <1>5, <1>6, <1>7, SeqEqual
<1> QED BY <1>2, <1>5, <1>8 DEF all, both, zeros, e

\* Reference's CHOOSE has one number to choose, and there is one.
LEMMA EnoughUnique ==
  ASSUME NEW length \in Nat, NEW n \in Nat, NEW m \in Nat, Enough(n, length), Enough(m, length)
  PROVE  n = m
<1>1. ASSUME NEW i \in Nat, NEW j \in Nat, Enough(i, length), Enough(j, length), i < j
      PROVE  FALSE
  <2>1. j - 1 \in Nat /\ ChunkOff[j - 1] < length /\ ChunkOff[i] >= length
    BY <1>1 DEF Enough
  <2>2. i = j - 1 \/ ChunkOff[i] < ChunkOff[j - 1]
    BY <1>1, <2>1, OffsetsOrdered
  <2>3. ChunkOff[i] \in Nat /\ ChunkOff[j - 1] \in Nat
    BY <2>1, OffsetsGrow
  <2> QED BY <2>1, <2>2, <2>3
<1> QED BY <1>1

LEMMA EnoughExists ==
  ASSUME NEW length \in Nat
  PROVE  \E n \in 0 .. length : Enough(n, length)
<1>1. CASE length = 0
  BY <1>1, ChunkOffIs DEF Enough
<1>2. CASE length # 0
  <2>1. length <= ChunkOff[length]
    BY OffsetsGrow
  <2>2. PICK i \in 1 .. length : ChunkOff[i - 1] < length /\ length <= ChunkOff[i]
    BY <1>2, <2>1, ChunkFound
  <2>3. ChunkOff[i] \in Nat
    BY OffsetsGrow
  <2> QED BY <2>2, <2>3 DEF Enough
<1> QED BY <1>1, <1>2

\* The padded file cut at the offsets, as many chunks as it takes.
LEMMA ReferenceIs ==
  ASSUME NEW bytes \in Seq(Bytes), NEW n \in Nat, Enough(n, Len(Padded(bytes)))
  PROVE  Reference(bytes) = [i \in 1 .. n |-> Chunk(Padded(bytes), i)]
<1> DEFINE all == Padded(bytes)
           length == Len(all)
           chunks == CHOOSE k \in 0 .. length : Enough(k, length)
<1>1. length \in Nat
  BY PaddedIs, BlockEndIs
<1>2. Reference(bytes) = [i \in 1 .. chunks |-> Chunk(all, i)]
  BY DEF Reference, Chunk, Enough
<1> HIDE DEF all
<1>3. chunks \in 0 .. length /\ Enough(chunks, length)
  BY <1>1, EnoughExists
<1> HIDE DEF chunks
<1>4. chunks = n
  BY <1>1, <1>3, EnoughUnique DEF all
<1> QED BY <1>2, <1>4 DEF all

\* Where chunk i is in a padded file.
LEMMA ChunkIs ==
  ASSUME NEW all \in Seq(Bytes), NEW n \in Nat, Enough(n, Len(all)), NEW i \in 1 .. n
  PROVE  LET low == ChunkOff[i - 1]
             high == IF ChunkOff[i] < Len(all) THEN ChunkOff[i] ELSE Len(all)
         IN /\ low \in Nat /\ high \in Nat /\ low < high /\ high <= Len(all)
            /\ Chunk(all, i) \in Seq(Bytes) /\ Len(Chunk(all, i)) = high - low
            /\ \A j \in 1 .. high - low : Chunk(all, i)[j] = all[low + j]
<1> DEFINE low == ChunkOff[i - 1]
           high == IF ChunkOff[i] < Len(all) THEN ChunkOff[i] ELSE Len(all)
<1>1. Len(all) \in Nat /\ i - 1 \in Nat /\ i \in Nat /\ n - 1 \in Nat
  OBVIOUS
<1>2. low \in Nat /\ ChunkOff[i] \in Nat /\ low < ChunkOff[i] /\ ChunkOff[n - 1] \in Nat
  <2>1. low \in Nat /\ ChunkOff[i] \in Nat /\ ChunkOff[n - 1] \in Nat
    BY <1>1, OffsetsGrow
  <2>2. low < ChunkOff[i]
    BY <1>1, OffsetsOrdered
  <2> QED BY <2>1, <2>2
<1>3. low < Len(all)
  <2>1. ChunkOff[n - 1] < Len(all)
    BY <1>1 DEF Enough
  <2>2. i - 1 = n - 1 \/ low < ChunkOff[n - 1]
    BY <1>1, OffsetsOrdered
  <2> QED BY <1>1, <1>2, <2>1, <2>2
<1>4. high \in Nat /\ low < high /\ high <= Len(all)
  BY <1>1, <1>2, <1>3
<1>5. Chunk(all, i) = SubSeq(all, low + 1, high)
  BY DEF Chunk
<1> HIDE DEF low, high
<1>6. \A j \in low + 1 .. high : all[j] \in Bytes
  BY <1>1, <1>2, <1>4, ElementOfSeq
<1>7. /\ Chunk(all, i) \in Seq(Bytes)
      /\ Len(Chunk(all, i)) = IF low + 1 <= high THEN high - (low + 1) + 1 ELSE 0
      /\ \A j \in 1 .. high - (low + 1) + 1 : Chunk(all, i)[j] = all[low + 1 + j - 1]
  BY <1>2, <1>4, <1>5, <1>6, SubSeqProperties
<1>8. high - (low + 1) + 1 = high - low
  BY <1>2, <1>4
<1>9. ASSUME NEW j \in 1 .. high - low PROVE Chunk(all, i)[j] = all[low + j]
  <2>1. low + 1 + j - 1 = low + j
    BY <1>2, <1>4
  <2> QED BY <1>7, <1>8, <2>1
<1> QED BY <1>2, <1>4, <1>7, <1>8, <1>9 DEF low, high

\* The chunks of a padded file determine it.
LEMMA ReferenceInjective ==
  ASSUME NEW a \in Seq(Bytes), NEW b \in Seq(Bytes), Reference(a) = Reference(b)
  PROVE  Padded(a) = Padded(b)
<1> DEFINE all == Padded(a)
           other == Padded(b)
<1>1. all \in Seq(Bytes) /\ other \in Seq(Bytes) /\ Len(all) \in Nat /\ Len(other) \in Nat
  <2>1. all \in Seq(Bytes) /\ other \in Seq(Bytes)
    BY PaddedIs
  <2> HIDE DEF all, other
  <2> QED BY <2>1
<1>2. PICK n \in Nat : Enough(n, Len(all))
  BY <1>1, EnoughExists
<1>3. PICK m \in Nat : Enough(m, Len(other))
  BY <1>1, EnoughExists
<1>4. [i \in 1 .. n |-> Chunk(all, i)] = [i \in 1 .. m |-> Chunk(other, i)]
  <2>1. Reference(a) = [i \in 1 .. n |-> Chunk(all, i)]
    BY <1>2, ReferenceIs
  <2>2. Reference(b) = [i \in 1 .. m |-> Chunk(other, i)]
    BY <1>3, ReferenceIs
  <2> QED BY <2>1, <2>2
<1> HIDE DEF all, other
<1>5. 1 .. n = 1 .. m
  <2>1. DOMAIN [i \in 1 .. n |-> Chunk(all, i)] = DOMAIN [i \in 1 .. m |-> Chunk(other, i)]
    BY <1>4
  <2> QED BY <2>1
<1>6. n = m
  BY <1>5
<1>7. \A i \in 1 .. n : Chunk(all, i) = Chunk(other, i)
  <2> SUFFICES ASSUME NEW i \in 1 .. n PROVE Chunk(all, i) = Chunk(other, i)
    OBVIOUS
  <2>1. /\ [k \in 1 .. n |-> Chunk(all, k)][i] = Chunk(all, i)
        /\ [k \in 1 .. m |-> Chunk(other, k)][i] = Chunk(other, i)
    BY <1>6
  <2> QED BY <1>4, <2>1
<1>8. Len(all) = Len(other)
  <2>1. CASE n = 0
    <3>1. Len(all) <= 0 /\ Len(other) <= 0
      BY <1>1, <1>2, <1>3, <1>6, <2>1, ChunkOffIs DEF Enough
    <3> QED BY <1>1, <3>1
  <2>2. CASE n # 0
    <3> DEFINE low == ChunkOff[n - 1]
    <3>1. n \in 1 .. n /\ ChunkOff[n] \in Nat /\ low \in Nat
      <4>1. n \in 1 .. n /\ n - 1 \in Nat
        BY <2>2
      <4> QED BY <4>1, OffsetsGrow
    <3>2. ~(ChunkOff[n] < Len(all)) /\ ~(ChunkOff[n] < Len(other))
      BY <1>1, <1>2, <1>3, <1>6, <3>1 DEF Enough
    <3>3. Len(Chunk(all, n)) = Len(all) - low
      BY <1>1, <1>2, <3>1, <3>2, ChunkIs
    <3>4. Len(Chunk(other, n)) = Len(other) - low
      BY <1>1, <1>3, <1>6, <3>1, <3>2, ChunkIs
    <3>5. Chunk(all, n) = Chunk(other, n)
      BY <1>7, <3>1
    <3> HIDE DEF low
    <3> QED BY <1>1, <3>1, <3>3, <3>4, <3>5
  <2> QED BY <2>1, <2>2
<1>9. ASSUME NEW j \in 1 .. Len(all) PROVE all[j] = other[j]
  <2>1. j \in Nat \ {0} /\ j <= ChunkOff[n] /\ ChunkOff[n] \in Nat
    <3>1. ChunkOff[n] \in Nat
      BY OffsetsGrow
    <3> QED BY <1>1, <1>2, <3>1 DEF Enough
  <2>2. PICK i \in 1 .. n : ChunkOff[i - 1] < j /\ j <= ChunkOff[i]
    BY <2>1, ChunkFound
  <2> DEFINE low == ChunkOff[i - 1]
             high == IF ChunkOff[i] < Len(all) THEN ChunkOff[i] ELSE Len(all)
  <2>3. /\ low \in Nat /\ high \in Nat
        /\ \A k \in 1 .. high - low : Chunk(all, i)[k] = all[low + k]
    BY <1>1, <1>2, ChunkIs
  <2>4. \A k \in 1 .. high - low : Chunk(other, i)[k] = other[low + k]
    <3>1. /\ Enough(n, Len(other))
          /\ high = IF ChunkOff[i] < Len(other) THEN ChunkOff[i] ELSE Len(other)
      BY <1>3, <1>6, <1>8
    <3> DEFINE top == IF ChunkOff[i] < Len(other) THEN ChunkOff[i] ELSE Len(other)
    <3>2. \A k \in 1 .. top - low : Chunk(other, i)[k] = other[low + k]
      BY <1>1, <3>1, ChunkIs
    <3> QED BY <3>1, <3>2
  <2>5. ChunkOff[i] \in Nat
    <3>1. i \in Nat
      OBVIOUS
    <3> QED BY <3>1, OffsetsGrow
  <2>6. j <= high /\ low < j
    BY <1>1, <2>2, <2>5
  <2> HIDE DEF low, high
  <2>7. j - low \in 1 .. high - low /\ low + (j - low) = j
    BY <2>1, <2>3, <2>6
  <2>8. Chunk(all, i)[j - low] = all[j] /\ Chunk(other, i)[j - low] = other[j]
    BY <2>3, <2>4, <2>7
  <2> QED BY <1>7, <2>8
<1>10. all = other
  BY <1>1, <1>8, <1>9, SeqEqual
<1> QED BY <1>10 DEF all, other

-----------------------------------------------------------------------------
(* The state of a MAC.                                                      *)

Macs == [chunkIdx : Nat, nextBoundary : Nat, position : Nat, chunkMac : Seq(Bytes),
         metaMac : Seq(Seq(Bytes)), finished : BOOLEAN, sealed : BOOLEAN]

\* The MAC has taken these bytes: its chunk is the one they have reached, the
\* chunks before it are closed, and it holds what they have of it.
Holds(m, bytes) ==
    /\ m.position = Len(bytes) /\ m.nextBoundary = ChunkOff[m.chunkIdx + 1]
    /\ ChunkOff[m.chunkIdx] <= Len(bytes) /\ Len(bytes) <= m.nextBoundary
    /\ Len(m.metaMac) = m.chunkIdx
    /\ \A i \in 1 .. m.chunkIdx :
           m.metaMac[i] = SubSeq(bytes, ChunkOff[i - 1] + 1, ChunkOff[i])
    /\ m.chunkMac = SubSeq(bytes, ChunkOff[m.chunkIdx] + 1, Len(bytes))

\* A MAC after its setup holds no bytes.
LEMMA FreshHolds ==
  ASSUME NEW sealed \in BOOLEAN, NEW finished \in BOOLEAN
  PROVE  LET m == Fresh(sealed, finished)
         IN /\ m \in Macs /\ Holds(m, << >>) /\ m.position < m.nextBoundary
            /\ (m.finished <=> finished) /\ (m.sealed <=> sealed) /\ m.metaMac = << >>
<1> DEFINE m == Fresh(sealed, finished)
<1>1. ChunkSize(0) \in Nat \ {0} /\ ChunkOff[0] = 0 /\ ChunkOff[0 + 1] = ChunkSize(0)
  BY ChunkSizeIs, ChunkOffIs, SMTT(30)
<1>2. m \in Macs
  BY <1>1 DEF Fresh, Macs
<1>3. /\ m.chunkIdx = 0 /\ m.nextBoundary = ChunkSize(0) /\ m.position = 0
      /\ m.chunkMac = << >> /\ m.metaMac = << >>
  BY DEF Fresh
<1>4. (m.finished <=> finished) /\ (m.sealed <=> sealed)
  BY DEF Fresh
<1> HIDE DEF m
<1>5. SubSeq(<< >>, 0 + 1, 0) = << >>
  BY SubSeqEmpty
<1>6. Holds(m, << >>)
  BY <1>1, <1>3, <1>5 DEF Holds
<1> QED BY <1>1, <1>2, <1>3, <1>4, <1>6 DEF m

\* Bytes that fit into the chunk.
LEMMA GrowHolds ==
  ASSUME NEW m \in Macs, NEW bytes \in Seq(Bytes), Holds(m, bytes),
         NEW more \in Seq(Bytes), Len(bytes) + Len(more) <= m.nextBoundary,
         NEW fed \in Macs, fed.chunkIdx = m.chunkIdx, fed.nextBoundary = m.nextBoundary,
         fed.metaMac = m.metaMac, fed.position = Len(bytes) + Len(more),
         fed.chunkMac = m.chunkMac \o more
  PROVE  Holds(fed, bytes \o more)
<1> DEFINE k == m.chunkIdx
           all == bytes \o more
<1>1. k \in Nat /\ Len(bytes) \in Nat /\ Len(more) \in Nat
  BY DEF Macs
<1>2. /\ all \in Seq(Bytes) /\ Len(all) = Len(bytes) + Len(more)
  BY ConcatProperties
<1>3. ChunkOff[k] \in Nat /\ ChunkOff[k] + 1 \in Nat \ {0} /\ ChunkOff[k] <= Len(bytes)
  <2>1. ChunkOff[k] \in Nat
    BY <1>1, OffsetsGrow
  <2>2. ChunkOff[k] + 1 \in Nat \ {0}
    BY <2>1
  <2>3. ChunkOff[k] <= Len(bytes)
    BY DEF Holds
  <2> QED BY <2>1, <2>2, <2>3
<1>4. fed.chunkMac = SubSeq(all, ChunkOff[k] + 1, Len(all))
  <2>1. SubSeq(all, ChunkOff[k] + 1, Len(bytes) + Len(more))
          = SubSeq(bytes, ChunkOff[k] + 1, Len(bytes)) \o more
    <3> DEFINE low == ChunkOff[k] + 1
    <3>1. low \in Nat \ {0} /\ low <= Len(bytes) + 1
      BY <1>1, <1>3
    <3> HIDE DEF low
    <3>2. SubSeq(bytes \o more, low, Len(bytes) + Len(more))
            = SubSeq(bytes, low, Len(bytes)) \o more
      BY <3>1, PartsOfLonger
    <3> QED BY <3>2 DEF low
  <2> QED BY <1>2, <2>1 DEF Holds
<1>5. ASSUME NEW i \in 1 .. k
      PROVE  fed.metaMac[i] = SubSeq(all, ChunkOff[i - 1] + 1, ChunkOff[i])
  <2>1. i \in Nat /\ i - 1 \in Nat
    OBVIOUS
  <2>2. ChunkOff[i] \in Nat /\ ChunkOff[i - 1] + 1 \in Nat \ {0}
    <3>1. ChunkOff[i] \in Nat /\ ChunkOff[i - 1] \in Nat
      BY <2>1, OffsetsGrow
    <3> QED BY <3>1
  <2>3. i = k \/ ChunkOff[i] < ChunkOff[k]
    BY <1>1, <2>1, OffsetsOrdered
  <2>4. ChunkOff[i] \in 0 .. Len(bytes)
    BY <1>1, <1>3, <2>2, <2>3
  <2>5. SubSeq(all, ChunkOff[i - 1] + 1, ChunkOff[i])
          = SubSeq(bytes, ChunkOff[i - 1] + 1, ChunkOff[i])
    BY <2>2, <2>4, PartsOfLonger
  <2> QED BY <2>5 DEF Holds
<1> HIDE DEF all
<1>6. /\ fed.position = Len(all) /\ fed.nextBoundary = ChunkOff[fed.chunkIdx + 1]
      /\ ChunkOff[fed.chunkIdx] <= Len(all) /\ Len(all) <= fed.nextBoundary
      /\ Len(fed.metaMac) = fed.chunkIdx
  BY <1>1, <1>2, <1>3 DEF Holds
<1>7. Holds(fed, all)
  BY <1>4, <1>5, <1>6 DEF Holds
<1> QED BY <1>7 DEF all

\* What close_chunk sets.
LEMMA CloseIs ==
  ASSUME NEW m \in Macs, m.nextBoundary = ChunkOff[m.chunkIdx + 1]
  PROVE  LET closed == CloseChunk(m)
         IN /\ closed \in Macs
            /\ closed.metaMac = Append(m.metaMac, m.chunkMac)
            /\ closed.chunkMac = << >> /\ closed.chunkIdx = m.chunkIdx + 1
            /\ closed.nextBoundary = ChunkOff[m.chunkIdx + 1 + 1]
            /\ closed.position = m.position
            /\ (closed.finished <=> m.finished) /\ (closed.sealed <=> m.sealed)
<1> DEFINE closed == CloseChunk(m)
           size == ChunkSize(m.chunkIdx + 1)
           metas == Append(m.metaMac, m.chunkMac)
           index == m.chunkIdx + 1
           next == m.nextBoundary + size
<1>1. /\ m.chunkIdx \in Nat /\ m.nextBoundary \in Nat /\ m.metaMac \in Seq(Seq(Bytes))
      /\ m.chunkMac \in Seq(Bytes)
  BY DEF Macs
<1>2. size \in Nat /\ ChunkOff[m.chunkIdx + 1 + 1] = ChunkOff[m.chunkIdx + 1] + size
  <2>1. m.chunkIdx + 1 \in Nat
    BY <1>1
  <2> QED BY <2>1, ChunkSizeIs, ChunkOffIs
<1> HIDE DEF size
<1>3. index \in Nat /\ next \in Nat /\ metas \in Seq(Seq(Bytes))
  BY <1>1, <1>2
<1>4. closed = [m EXCEPT !.metaMac = metas, !.chunkMac = << >>, !.chunkIdx = index,
                         !.nextBoundary = next]
  BY DEF CloseChunk, size
<1> HIDE DEF closed, metas, index, next
<1>5. closed \in Macs
  <2> DEFINE none == << >>
  <2>1. none \in Seq(Bytes)
    OBVIOUS
  <2>2. closed = [m EXCEPT !.metaMac = metas, !.chunkMac = none, !.chunkIdx = index,
                           !.nextBoundary = next]
    BY <1>4
  <2> HIDE DEF none
  <2> QED BY <1>3, <2>1, <2>2 DEF Macs
<1>6. /\ closed.metaMac = metas /\ closed.chunkMac = << >> /\ closed.chunkIdx = index
      /\ closed.nextBoundary = next /\ closed.position = m.position
  BY <1>4 DEF Macs
<1>7. (closed.finished <=> m.finished) /\ (closed.sealed <=> m.sealed)
  BY <1>4 DEF Macs
<1> QED BY <1>2, <1>5, <1>6, <1>7 DEF closed, metas, index, next

\* A chunk that is full is closed.
LEMMA CloseHolds ==
  ASSUME NEW m \in Macs, NEW bytes \in Seq(Bytes), Holds(m, bytes), m.position = m.nextBoundary
  PROVE  Holds(CloseChunk(m), bytes) /\ CloseChunk(m).position < CloseChunk(m).nextBoundary
<1> DEFINE closed == CloseChunk(m)
           k == m.chunkIdx
<1>1. /\ closed.metaMac = Append(m.metaMac, m.chunkMac)
      /\ closed.chunkMac = << >> /\ closed.chunkIdx = k + 1
      /\ closed.nextBoundary = ChunkOff[k + 1 + 1] /\ closed.position = m.position
  BY CloseIs DEF Holds
<1> HIDE DEF closed
<1>2. k \in Nat /\ m.metaMac \in Seq(Seq(Bytes)) /\ m.chunkMac \in Seq(Bytes) /\ Len(bytes) \in Nat
  BY DEF Macs
<1>3. /\ m.position = Len(bytes) /\ m.nextBoundary = ChunkOff[k + 1] /\ Len(m.metaMac) = k
      /\ m.chunkMac = SubSeq(bytes, ChunkOff[k] + 1, Len(bytes))
      /\ \A i \in 1 .. k : m.metaMac[i] = SubSeq(bytes, ChunkOff[i - 1] + 1, ChunkOff[i])
  BY DEF Holds
<1>4. Len(bytes) = ChunkOff[k + 1] /\ ChunkOff[k + 1] < ChunkOff[k + 1 + 1]
      /\ ChunkOff[k + 1] \in Nat /\ ChunkOff[k + 1 + 1] \in Nat
  <2>1. k + 1 \in Nat /\ k + 1 + 1 \in Nat
    BY <1>2
  <2>2. /\ ChunkOff[k + 1] < ChunkOff[k + 1 + 1]
        /\ ChunkOff[k + 1] \in Nat /\ ChunkOff[k + 1 + 1] \in Nat
    BY <2>1, OffsetsGrow
  <2> QED BY <1>3, <2>2
<1>5. SubSeq(bytes, ChunkOff[k + 1] + 1, Len(bytes)) = << >>
  BY <1>4, SubSeqEmpty
<1>6. Len(closed.metaMac) = k + 1
  BY <1>1, <1>2, <1>3
<1>7. ASSUME NEW i \in 1 .. k + 1
      PROVE  closed.metaMac[i] = SubSeq(bytes, ChunkOff[i - 1] + 1, ChunkOff[i])
  <2>1. CASE i = k + 1
    <3>1. closed.metaMac[Len(m.metaMac) + 1] = m.chunkMac
      BY <1>1, <1>2
    <3>2. i - 1 = k /\ ChunkOff[i] = Len(bytes) /\ closed.metaMac[i] = m.chunkMac
      <4>1. Len(m.metaMac) + 1 = i
        BY <1>3, <2>1
      <4>2. closed.metaMac[i] = m.chunkMac
        BY <3>1, <4>1
      <4> QED BY <1>2, <1>4, <2>1, <4>2
    <3> QED BY <1>3, <3>2
  <2>2. CASE i # k + 1
    <3>1. i \in 1 .. k
      BY <1>2, <2>2
    <3>2. closed.metaMac[i] = m.metaMac[i]
      BY <1>1, <1>2, <1>3, <3>1
    <3> QED BY <1>3, <3>1, <3>2
  <2> QED BY <2>1, <2>2
<1>8. Holds(closed, bytes)
  <2>1. /\ closed.position = Len(bytes) /\ closed.nextBoundary = ChunkOff[closed.chunkIdx + 1]
        /\ ChunkOff[closed.chunkIdx] <= Len(bytes) /\ Len(bytes) <= closed.nextBoundary
    BY <1>1, <1>3, <1>4
  <2>2. closed.chunkMac = SubSeq(bytes, ChunkOff[closed.chunkIdx] + 1, Len(bytes))
    BY <1>1, <1>5
  <2>3. Len(closed.metaMac) = closed.chunkIdx
    BY <1>1, <1>6
  <2>4. \A i \in 1 .. closed.chunkIdx :
           closed.metaMac[i] = SubSeq(bytes, ChunkOff[i - 1] + 1, ChunkOff[i])
    BY <1>1, <1>7
  <2> QED BY <2>1, <2>2, <2>3, <2>4 DEF Holds
<1> QED BY <1>1, <1>3, <1>4, <1>8 DEF closed

\* One turn of update's loop.
LEMMA TakenHolds ==
  ASSUME NEW m \in Macs, NEW bytes \in Seq(Bytes), Holds(m, bytes),
         m.position < m.nextBoundary, NEW byte \in Bytes
  PROVE  LET taken == Taken(m, byte)
         IN /\ taken \in Macs /\ Holds(taken, bytes \o <<byte>>)
            /\ taken.position < taken.nextBoundary
            /\ (taken.finished <=> m.finished) /\ (taken.sealed <=> m.sealed)
<1> DEFINE more == <<byte>>
           fed == [m EXCEPT !.chunkMac = Append(@, byte), !.position = @ + 1]
           chunk == m.chunkMac \o more
           position == m.position + 1
<1>1. more \in Seq(Bytes) /\ Len(more) = 1 /\ bytes \o more \in Seq(Bytes)
  BY ConcatProperties
<1>2. m.chunkMac \in Seq(Bytes) /\ m.position \in Nat /\ m.nextBoundary \in Nat
      /\ m.position = Len(bytes)
  BY DEF Macs, Holds
<1>3. Append(m.chunkMac, byte) = chunk /\ chunk \in Seq(Bytes) /\ position \in Nat
  BY <1>1, <1>2, AppendIsConcat, ConcatProperties
<1>4. fed = [m EXCEPT !.chunkMac = chunk, !.position = position]
  BY <1>3
<1> HIDE DEF more, fed, chunk
<1>5. fed \in Macs
  BY <1>3, <1>4 DEF Macs
<1>6. /\ fed.chunkIdx = m.chunkIdx /\ fed.nextBoundary = m.nextBoundary
      /\ fed.metaMac = m.metaMac /\ fed.position = Len(bytes) + Len(more)
      /\ fed.chunkMac = m.chunkMac \o more
  BY <1>1, <1>2, <1>4 DEF Macs, chunk
<1>7. (fed.finished <=> m.finished) /\ (fed.sealed <=> m.sealed)
  BY <1>4 DEF Macs
<1>8. Len(bytes) + Len(more) <= m.nextBoundary
  BY <1>1, <1>2
<1>9. Holds(fed, bytes \o more)
  BY <1>1, <1>5, <1>6, <1>8, GrowHolds
<1>10. CASE fed.position = fed.nextBoundary
  <2>1. Taken(m, byte) = CloseChunk(fed)
    BY <1>10 DEF Taken, fed
  <2>2. /\ Holds(CloseChunk(fed), bytes \o more)
        /\ CloseChunk(fed).position < CloseChunk(fed).nextBoundary
    BY <1>1, <1>5, <1>9, <1>10, CloseHolds
  <2>3. /\ CloseChunk(fed) \in Macs
        /\ (CloseChunk(fed).finished <=> fed.finished) /\ (CloseChunk(fed).sealed <=> fed.sealed)
    <3>1. fed.nextBoundary = ChunkOff[fed.chunkIdx + 1]
      BY <1>9 DEF Holds
    <3> QED BY <1>5, <3>1, CloseIs
  <2> QED BY <1>7, <2>1, <2>2, <2>3 DEF more
<1>11. CASE fed.position # fed.nextBoundary
  <2>1. Taken(m, byte) = fed
    BY <1>11 DEF Taken, fed
  <2>2. fed.position < fed.nextBoundary
    BY <1>1, <1>2, <1>6, <1>8, <1>11
  <2> QED BY <1>5, <1>7, <1>9, <2>1, <2>2 DEF more
<1> QED BY <1>10, <1>11

\* finish gives the chunks of the padded file.
LEMMA FinishedIs ==
  ASSUME NEW m \in Macs, NEW bytes \in Seq(Bytes), Holds(m, bytes)
  PROVE  /\ Finished(m) \in Macs /\ Finished(m).finished
         /\ (Finished(m).sealed <=> m.sealed)
         /\ Finished(m).metaMac = Reference(bytes)
<1> DEFINE e == BlockEnd(Len(bytes))
           zeros == [i \in 1 .. e - Len(bytes) |-> 0]
           all == Padded(bytes)
           k == m.chunkIdx
           p == PaddedMac(m)
           end == p.position
<1>1. /\ k \in Nat /\ m.chunkMac \in Seq(Bytes) /\ m.position \in Nat /\ m.nextBoundary \in Nat
      /\ m.position = Len(bytes) /\ Len(bytes) <= m.nextBoundary
      /\ m.nextBoundary = ChunkOff[k + 1]
  BY DEF Macs, Holds
<1>2. Len(bytes) \in Nat /\ e \in Nat /\ Len(bytes) <= e /\ e <= m.nextBoundary
  <2>1. Len(bytes) \in Nat /\ k + 1 \in Nat
    BY <1>1
  <2>2. PICK b \in Nat : ChunkOff[k + 1] = b * Block
    BY <2>1, OffsetsGrow
  <2> QED BY <1>1, <2>1, <2>2, BlockEndIs
<1>3. /\ zeros \in Seq(Bytes) /\ Len(zeros) = e - Len(bytes)
      /\ all \in Seq(Bytes) /\ Len(all) = e /\ all = bytes \o zeros
  BY PaddedIs
<1> DEFINE chunk == m.chunkMac \o zeros
           position == m.position + (e - Len(bytes))
<1>4. chunk \in Seq(Bytes) /\ position = e /\ Len(bytes) + Len(zeros) = e
  <2> HIDE DEF zeros, e
  <2> QED BY <1>1, <1>2, <1>3, ConcatProperties
<1>5. p = [m EXCEPT !.chunkMac = chunk, !.position = position]
  BY <1>1 DEF PaddedMac
<1> HIDE DEF e, zeros, all, p, chunk, position
<1>6. p \in Macs
  BY <1>2, <1>4, <1>5 DEF Macs
<1>7. /\ p.chunkIdx = k /\ p.nextBoundary = m.nextBoundary /\ p.metaMac = m.metaMac
      /\ p.position = e /\ p.chunkMac = m.chunkMac \o zeros
  BY <1>4, <1>5 DEF Macs, chunk
<1>8. p.sealed <=> m.sealed
  BY <1>5 DEF Macs
<1>9. Holds(p, all)
  <2>1. Len(bytes) + Len(zeros) <= m.nextBoundary /\ p.position = Len(bytes) + Len(zeros)
    BY <1>2, <1>4, <1>7
  <2>2. Holds(p, bytes \o zeros)
    BY <1>3, <1>6, <1>7, <2>1, GrowHolds
  <2> QED BY <1>3, <2>2
<1>10. /\ ChunkOff[k] \in Nat /\ ChunkOff[k] <= e /\ e <= ChunkOff[k + 1]
       /\ m.nextBoundary - ChunkSize(k) = ChunkOff[k]
  <2>1. ChunkOff[k + 1] = ChunkOff[k] + ChunkSize(k) /\ ChunkSize(k) \in Nat /\ ChunkOff[k] \in Nat
    BY <1>1, ChunkOffIs, ChunkSizeIs, OffsetsGrow
  <2>2. ChunkOff[k] <= e
    BY <1>3, <1>7, <1>9 DEF Holds
  <2> QED BY <1>1, <1>2, <2>1, <2>2
<1> DEFINE last == IF p.position > p.nextBoundary - ChunkSize(p.chunkIdx)
                   THEN CloseChunk(p) ELSE p
<1>11. Finished(m) = [last EXCEPT !.finished = TRUE]
  BY DEF Finished, p
<1>12. \A i \in 1 .. k : p.metaMac[i] = Chunk(all, i)
  <2> SUFFICES ASSUME NEW i \in 1 .. k PROVE p.metaMac[i] = Chunk(all, i)
    OBVIOUS
  <2>1. p.metaMac[i] = SubSeq(all, ChunkOff[i - 1] + 1, ChunkOff[i])
    BY <1>7, <1>9 DEF Holds
  <2>2. i \in Nat /\ (i = k \/ i < k)
    BY <1>1
  <2>3. ChunkOff[i] \in Nat /\ ChunkOff[i] <= ChunkOff[k]
    <3>1. ChunkOff[i] \in Nat
      BY <2>2, OffsetsGrow
    <3>2. i = k \/ ChunkOff[i] < ChunkOff[k]
      BY <1>1, <2>2, OffsetsOrdered
    <3> QED BY <1>10, <3>1, <3>2
  <2>4. ChunkOff[i] = IF ChunkOff[i] < Len(all) THEN ChunkOff[i] ELSE Len(all)
    BY <1>2, <1>3, <1>10, <2>3
  <2> QED BY <2>1, <2>4 DEF Chunk
<1>13. /\ p.metaMac \in Seq(Seq(Bytes)) /\ p.chunkMac \in Seq(Bytes) /\ Len(p.metaMac) = k
       /\ p.chunkMac = SubSeq(all, ChunkOff[k] + 1, Len(all))
  <2>1. p.metaMac \in Seq(Seq(Bytes)) /\ p.chunkMac \in Seq(Bytes)
    BY <1>6 DEF Macs
  <2> QED BY <1>7, <1>9, <2>1 DEF Holds
<1>14. /\ last \in Macs /\ last.metaMac = Reference(bytes) /\ (last.sealed <=> m.sealed)
  <2>1. CASE e > ChunkOff[k]
    <3>1. last = CloseChunk(p)
      BY <1>7, <1>10, <2>1
    <3>2. p.nextBoundary = ChunkOff[p.chunkIdx + 1]
      BY <1>1, <1>7
    <3>3. /\ last \in Macs /\ last.metaMac = Append(p.metaMac, p.chunkMac)
          /\ (last.sealed <=> p.sealed)
      BY <1>6, <3>1, <3>2, CloseIs
    <3> HIDE DEF last
    <3> DEFINE metas == last.metaMac
    <3>4. /\ metas \in Seq(Seq(Bytes)) /\ Len(metas) = k + 1 /\ metas[k + 1] = p.chunkMac
          /\ \A i \in 1 .. k : metas[i] = p.metaMac[i]
      <4> DEFINE longer == Append(p.metaMac, p.chunkMac)
      <4>1. /\ longer \in Seq(Seq(Bytes)) /\ Len(longer) = Len(p.metaMac) + 1
            /\ \A i \in 1 .. Len(p.metaMac) : longer[i] = p.metaMac[i]
            /\ longer[Len(p.metaMac) + 1] = p.chunkMac
        <5> DEFINE ms == p.metaMac
                   part == p.chunkMac
        <5>1. ms \in Seq(Seq(Bytes)) /\ part \in Seq(Bytes)
          BY <1>13
        <5> HIDE DEF ms, part
        <5>2. /\ Append(ms, part) \in Seq(Seq(Bytes)) /\ Len(Append(ms, part)) = Len(ms) + 1
              /\ \A i \in 1 .. Len(ms) : Append(ms, part)[i] = ms[i]
              /\ Append(ms, part)[Len(ms) + 1] = part
          BY <5>1, AppendProperties
        <5> QED BY <5>2 DEF ms, part
      <4> HIDE DEF longer
      <4>2. metas = longer
        BY <3>3 DEF longer
      <4> QED BY <1>13, <4>1, <4>2
    <3>5. ASSUME NEW i \in 1 .. k + 1 PROVE metas[i] = Chunk(all, i)
      <4>1. CASE i = k + 1
        <5>1. e = IF ChunkOff[k + 1] < Len(all) THEN ChunkOff[k + 1] ELSE Len(all)
          BY <1>1, <1>2, <1>3, <1>10
        <5>2. Chunk(all, k + 1) = SubSeq(all, ChunkOff[k] + 1, e)
          BY <1>1, <5>1, NextChunk
        <5> QED BY <1>3, <1>13, <3>4, <4>1, <5>2
      <4>2. CASE i # k + 1
        <5>1. i \in 1 .. k
          BY <1>1, <4>2
        <5> QED BY <1>12, <3>4, <5>1
      <4> QED BY <4>1, <4>2
    <3>6. Enough(k + 1, Len(all)) /\ k + 1 \in Nat
      <4>1. k + 1 - 1 = k /\ k + 1 \in Nat
        BY <1>1
      <4>2. ChunkOff[k + 1] >= Len(all) /\ ChunkOff[k] < Len(all) /\ Len(all) \in Nat
        BY <1>2, <1>3, <1>10, <2>1
      <4> QED BY <1>1, <4>1, <4>2, NextChunk
    <3>7. Reference(bytes) = [i \in 1 .. k + 1 |-> Chunk(all, i)]
      BY <3>6, ReferenceIs DEF all
    <3>8. metas = [i \in 1 .. k + 1 |-> metas[i]]
      BY <3>4
    <3>9. metas = Reference(bytes)
      BY <3>5, <3>7, <3>8
    <3> QED BY <1>8, <3>3, <3>9
  <2>2. CASE ~(e > ChunkOff[k])
    <3>1. last = p /\ e = ChunkOff[k]
      BY <1>2, <1>7, <1>10, <2>2
    <3>2. Enough(k, Len(all))
      <4>1. k = 0 \/ ChunkOff[k - 1] < ChunkOff[k]
        <5>1. CASE k # 0
          <6>1. k - 1 \in Nat /\ k - 1 < k
            BY <1>1, <5>1
          <6> QED BY <1>1, <6>1, OffsetsOrdered
        <5> QED BY <5>1
      <4> QED BY <1>3, <1>10, <3>1, <4>1 DEF Enough
    <3>3. Reference(bytes) = [i \in 1 .. k |-> Chunk(all, i)]
      BY <1>1, <3>2, ReferenceIs DEF all
    <3>4. p.metaMac = [i \in 1 .. k |-> p.metaMac[i]]
      BY <1>13
    <3>5. p.metaMac = Reference(bytes)
      BY <1>12, <3>3, <3>4
    <3> QED BY <1>6, <1>8, <3>1, <3>5
  <2> QED BY <2>1, <2>2
<1> HIDE DEF last
<1> DEFINE yes == TRUE
<1>15. yes \in BOOLEAN /\ yes /\ Finished(m) = [last EXCEPT !.finished = yes]
  BY <1>11
<1> HIDE DEF yes
<1>16. Finished(m) \in Macs /\ Finished(m).metaMac = last.metaMac
  BY <1>14, <1>15 DEF Macs
<1>17. Finished(m).finished /\ (Finished(m).sealed <=> last.sealed)
  BY <1>14, <1>15 DEF Macs
<1> QED BY <1>14, <1>16, <1>17

-----------------------------------------------------------------------------
(* Setups, updates and finishes in any order and number.                    *)

\* The inductive invariant: until it is finished, a MAC holds the bytes that
\* were given and are not left over; afterwards it has given the reference, if
\* no object was set up a second time that stays finished.
MacInv ==
    /\ mac \in Macs /\ setups \in Nat \ {0}
    /\ pending \in Seq(Bytes) /\ data \in Seq(Bytes)
    /\ mac.finished => pending = << >>
    /\ ~mac.finished => /\ result = NoResult
                        /\ mac.position < mac.nextBoundary
                        /\ \E bytes \in Seq(Bytes) : data = bytes \o pending /\ Holds(mac, bytes)
    /\ mac.finished /\ (mac.sealed => setups = 1) => result = Reference(data)

LEMMA PiecesAreSequences == Pieces \subseteq Seq(Bytes)
BY DEF Pieces

LEMMA MacInvInit == MacInit => MacInv
<1> SUFFICES ASSUME MacInit PROVE MacInv
  OBVIOUS
<1>1. PICK sealed \in BOOLEAN : mac = Fresh(sealed, FALSE)
  BY DEF MacInit
<1>2. mac \in Macs /\ Holds(mac, << >>) /\ mac.position < mac.nextBoundary /\ ~mac.finished
  BY <1>1, FreshHolds
<1>3. pending = << >> /\ data = << >> /\ result = NoResult /\ setups = 1
  BY DEF MacInit
<1>4. \E bytes \in Seq(Bytes) : data = bytes \o pending /\ Holds(mac, bytes)
  <2>1. << >> \in Seq(Bytes) /\ data = << >> \o pending
    BY <1>3, ConcatEmptySeq
  <2> QED BY <1>2, <2>1
<1> QED BY <1>2, <1>3, <1>4 DEF MacInv

LEMMA SetupSafe == ASSUME MacInv, Setup PROVE MacInv'
<1> DEFINE finished == mac.sealed /\ mac.finished
<1>1. /\ mac' = Fresh(mac.sealed, finished) /\ pending = << >> /\ pending' = << >>
      /\ data' = << >> /\ result' = NoResult /\ setups' = setups + 1 /\ setups \in Nat \ {0}
  BY DEF Setup, MacInv
<1>2. mac.sealed \in BOOLEAN /\ finished \in BOOLEAN
  BY DEF MacInv, Macs
<1>3. /\ mac' \in Macs /\ Holds(mac', << >>) /\ mac'.position < mac'.nextBoundary
      /\ (mac'.finished <=> finished) /\ (mac'.sealed <=> mac.sealed)
  <2> HIDE DEF finished
  <2> QED BY <1>1, <1>2, FreshHolds
<1>4. \E bytes \in Seq(Bytes) : data' = bytes \o pending' /\ Holds(mac', bytes)
  <2>1. << >> \in Seq(Bytes) /\ data' = << >> \o pending'
    BY <1>1, ConcatEmptySeq
  <2> QED BY <1>3, <2>1
<1>5. mac'.finished => mac'.sealed /\ setups' # 1
  BY <1>1, <1>3
<1> QED BY <1>1, <1>3, <1>4, <1>5 DEF MacInv

LEMMA UpdateSafe == ASSUME MacInv, NEW bytes \in Pieces, Update(bytes) PROVE MacInv'
<1>1. /\ pending = << >> /\ ~mac.finished /\ pending' = bytes /\ data' = data \o bytes
      /\ mac' = mac /\ result' = result /\ setups' = setups
  BY DEF Update
<1>2. bytes \in Seq(Bytes) /\ data \in Seq(Bytes) /\ data' \in Seq(Bytes)
  BY <1>1, PiecesAreSequences, ConcatProperties DEF MacInv
<1>3. PICK fed \in Seq(Bytes) : data = fed \o pending /\ Holds(mac, fed)
  BY <1>1 DEF MacInv
<1>4. data = fed
  BY <1>1, <1>3, ConcatEmptySeq
<1> QED BY <1>1, <1>2, <1>3, <1>4 DEF MacInv

LEMMA FeedSafe == ASSUME MacInv, Feed PROVE MacInv'
<1> DEFINE byte == Head(pending)
           rest == Tail(pending)
<1>1. /\ pending # << >> /\ mac' = Taken(mac, byte) /\ pending' = rest
      /\ data' = data /\ result' = result /\ setups' = setups
  BY DEF Feed
<1>2. mac \in Macs /\ pending \in Seq(Bytes) /\ ~mac.finished /\ mac.position < mac.nextBoundary
  BY <1>1 DEF MacInv
<1>3. byte \in Bytes /\ rest \in Seq(Bytes) /\ pending = <<byte>> \o rest
  BY <1>1, <1>2
<1>4. PICK fed \in Seq(Bytes) : data = fed \o pending /\ Holds(mac, fed)
  BY <1>2 DEF MacInv
<1> HIDE DEF byte, rest
<1>5. /\ mac' \in Macs /\ Holds(mac', fed \o <<byte>>) /\ mac'.position < mac'.nextBoundary
      /\ (mac'.finished <=> mac.finished) /\ (mac'.sealed <=> mac.sealed)
  BY <1>1, <1>2, <1>3, <1>4, TakenHolds
<1>6. fed \o <<byte>> \in Seq(Bytes) /\ data = (fed \o <<byte>>) \o rest
  <2>1. <<byte>> \in Seq(Bytes)
    BY <1>3
  <2>2. fed \o <<byte>> \in Seq(Bytes)
    BY <2>1, ConcatProperties
  <2>3. fed \o (<<byte>> \o rest) = (fed \o <<byte>>) \o rest
    BY <1>3, <2>1, ConcatAssociative
  <2> QED BY <1>3, <1>4, <2>2, <2>3
<1> QED BY <1>1, <1>2, <1>3, <1>5, <1>6 DEF MacInv

LEMMA FinishSafe == ASSUME MacInv, Finish PROVE MacInv'
<1>1. /\ pending = << >> /\ result = NoResult /\ pending' = pending /\ data' = data
      /\ setups' = setups /\ mac \in Macs
  BY DEF Finish, MacInv
<1>2. CASE mac.finished
  <2>1. mac' = mac
    BY <1>2 DEF Finish
  <2>2. ~(mac.sealed => setups = 1)
    <3>1. Reference(data) \in Seq(Seq(Bytes))
      <4>1. PICK n \in Nat : Enough(n, Len(Padded(data)))
        BY EnoughExists, PaddedIs DEF MacInv
      <4>2. Padded(data) \in Seq(Bytes)
        BY PaddedIs DEF MacInv
      <4>3. \A i \in 1 .. n : Chunk(Padded(data), i) \in Seq(Bytes)
        BY <4>1, <4>2, ChunkIs
      <4>4. Reference(data) = [i \in 1 .. n |-> Chunk(Padded(data), i)]
        BY <4>1, ReferenceIs DEF MacInv
      <4> QED BY <4>3, <4>4
    <3> QED BY <1>1, <1>2, <3>1, MacAssumption DEF MacInv
  <2> QED BY <1>1, <1>2, <2>1, <2>2 DEF MacInv
<1>3. CASE ~mac.finished
  <2>1. mac' = Finished(mac) /\ result' = mac'.metaMac
    BY <1>3 DEF Finish
  <2>2. PICK fed \in Seq(Bytes) : data = fed \o pending /\ Holds(mac, fed)
    BY <1>3 DEF MacInv
  <2>3. data = fed
    BY <1>1, <2>2, ConcatEmptySeq
  <2>4. mac' \in Macs /\ mac'.finished /\ mac'.metaMac = Reference(data)
    BY <1>1, <2>1, <2>2, <2>3, FinishedIs
  <2> QED BY <1>1, <2>1, <2>4 DEF MacInv
<1> QED BY <1>2, <1>3

LEMMA MacStepSafe == ASSUME MacInv, [MacNext]_macVars PROVE MacInv'
<1>1. CASE UNCHANGED macVars
  BY <1>1 DEF macVars, MacInv
<1> QED BY <1>1, SetupSafe, UpdateSafe, FeedSafe, FinishSafe DEF MacNext

\* The invariant.
THEOREM MacInvariance == MacSpec => []MacInv
<1>1. MacInit => MacInv
  BY MacInvInit
<1>2. MacInv /\ [MacNext]_macVars => MacInv'
  BY MacStepSafe
<1> QED BY <1>1, <1>2, PTL DEF MacSpec

\* A MAC is that of its file's bytes, however they were cut into updates, and two
\* files have one only if they differ in nothing but the zeros of the padding.
THEOREM MacsIdentify == MacSpec => []MacIdentifies
<1>1. MacInv => MacIdentifies
  <2> SUFFICES ASSUME MacInv, result # NoResult, mac.sealed => setups = 1
               PROVE  /\ result = Reference(data)
                      /\ \A other \in Pieces :
                             result = Reference(other) <=> Padded(other) = Padded(data)
    BY DEF MacIdentifies, MacOfBytes, MacTellsApart
  <2>1. result = Reference(data) /\ data \in Seq(Bytes)
    BY DEF MacInv
  <2>2. ASSUME NEW other \in Pieces
        PROVE  result = Reference(other) <=> Padded(other) = Padded(data)
    <3>1. other \in Seq(Bytes)
      BY PiecesAreSequences
    <3>2. ASSUME result = Reference(other) PROVE Padded(other) = Padded(data)
      BY <2>1, <3>1, <3>2, ReferenceInjective
    <3>3. ASSUME Padded(other) = Padded(data) PROVE result = Reference(other)
      <4>1. Reference(other) = Reference(data)
        BY <3>3 DEF Reference
      <4> QED BY <2>1, <4>1
    <3> QED BY <3>2, <3>3
  <2> QED BY <2>1, <2>2
<1> QED BY <1>1, MacInvariance, PTL
=============================================================================
