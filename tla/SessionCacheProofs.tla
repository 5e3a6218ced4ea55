-------------------------- MODULE SessionCacheProofs --------------------------
(***************************************************************************)
(* For any number of tools, any timeout and any run of the clock: no tool  *)
(* works on a list, or with a session, older than the timeout allows.  The *)
(* invariant adds what the cache file and the session of a tool past its   *)
(* refresh have in common: last_refresh is the time the nodes were read,   *)
(* and they were read while the session was alive.  get_user breaks the    *)
(* first, so it matters that no save comes between it and the refresh.     *)
(***************************************************************************)
EXTENDS SessionCache, TLAPS

Records == [pc : Pcs, session : Lists, cached : BOOLEAN, reload : BOOLEAN,
            begun : 0 .. MaxTime]

\* A list as mega_session_refresh left it, in whatever session or file.
ListSound(list) ==
    /\ list.sid \in issued
    /\ list.lastRefresh = list.read
    /\ list.read <= now
    /\ ended[list.sid] # 0 => list.read <= ended[list.sid]

\* A tool that is past its refresh, or needed none.
Filled(r) == r.pc \in {"save", "ready", "finish"}

\* It was read recently enough for a tool begun at that time.
Recent(r) ==
    IF r.reload THEN r.session.read >= r.begun
    ELSE MaxAge > 0 => r.session.read + MaxAge >= r.begun

RunSound(r) ==
    /\ r.begun <= now
    /\ Filled(r) => ListSound(r.session) /\ Recent(r)

\* The inductive invariant.
Inv ==
    /\ TypeOK
    /\ file.readable => ListSound(file.session)
    /\ \A p \in Procs : RunSound(proc[p])

LEMMA ClosedTyped == Closed \in Lists /\ Idle \in Records
BY CacheAssumption DEF Closed, Idle, Lists, Records, Pcs

LEMMA InvInit == Init => Inv
<1> SUFFICES ASSUME Init PROVE Inv
  OBVIOUS
<1>1. TypeOK
  BY ClosedTyped, CacheAssumption DEF Init, TypeOK, NoFile, Records
<1>2. ~file.readable
  BY DEF Init, NoFile
<1>3. ASSUME NEW p \in Procs PROVE RunSound(proc[p])
  BY DEF Init, RunSound, Filled, Idle
<1> QED BY <1>1, <1>2, <1>3 DEF Inv

\* A step of one tool that only changes its own run, and perhaps replaces the
\* file by a sound list.
LEMMA OnlyProc ==
    ASSUME Inv, NEW p \in Procs, NEW r \in Records,
           SetProc(p, r), RunSound(r),
           file' \in [readable : BOOLEAN, session : Lists],
           file'.readable => ListSound(file'.session),
           account' \subseteq Items, runs' \in 0 .. MaxRuns,
           UNCHANGED <<now, ended, issued>>
    PROVE  Inv'
<1>1. TypeOK'
  BY DEF Inv, TypeOK, SetProc, Records
<1>2. proc' = [proc EXCEPT ![p] = r] /\ proc \in [Procs -> Records]
  BY DEF Inv, TypeOK, SetProc, Records
<1>3. ASSUME NEW q \in Procs PROVE RunSound(proc[q])'
  <2>1. CASE q = p
    BY <1>2, <2>1 DEF RunSound, ListSound, Filled, Recent
  <2>2. CASE q # p
    BY <1>2, <2>2 DEF Inv, RunSound, ListSound, Filled, Recent
  <2> QED BY <2>1, <2>2
<1>4. (file.readable => ListSound(file.session))'
  BY DEF ListSound
<1> QED BY <1>1, <1>3, <1>4 DEF Inv

LEMMA IdleSound == ASSUME Inv PROVE RunSound(Idle)
BY DEF Inv, TypeOK, RunSound, Filled, Idle

LEMMA EndKeeps ==
    ASSUME Inv, NEW p \in Procs, End(p), UNCHANGED <<now, account, ended, issued, file, runs>>
    PROVE  Inv'
<1>1. file' \in [readable : BOOLEAN, session : Lists] /\ (file'.readable => ListSound(file'.session))
  BY DEF Inv, TypeOK
<1>2. account' \subseteq Items /\ runs' \in 0 .. MaxRuns
  BY DEF Inv, TypeOK
<1> QED BY <1>1, <1>2, IdleSound, ClosedTyped, OnlyProc DEF End

\* The same for a step that leaves account and file alone.
LEMMA GoesOn ==
    ASSUME Inv, NEW p \in Procs, NEW r \in Records, SetProc(p, r), RunSound(r),
           runs' \in 0 .. MaxRuns, UNCHANGED <<now, account, ended, issued, file>>
    PROVE  Inv'
<1>1. file' \in [readable : BOOLEAN, session : Lists] /\ (file'.readable => ListSound(file'.session))
  BY DEF Inv, TypeOK
<1>2. account' \subseteq Items
  BY DEF Inv, TypeOK
<1> QED BY <1>1, <1>2, OnlyProc

\* The age test of mega_session_load is what the promise rests on for a tool
\* that does not refresh.
LEMMA LoadKeeps == ASSUME Inv, NEW p \in Procs, Load(p) PROVE Inv'
<1>1. runs' \in 0 .. MaxRuns
  BY CacheAssumption DEF Inv, TypeOK, Load
<1> DEFINE run(reload) == [Idle EXCEPT !.reload = reload, !.begun = now]
<1> PICK reload \in BOOLEAN :
        IF file.readable /\ ~TimedOut(file.session)
        THEN SetProc(p, [run(reload) EXCEPT !.pc = IF reload THEN "refresh" ELSE "ready",
                                            !.session = file.session])
        ELSE IF file.readable /\ file.session.sid # None
        THEN SetProc(p, [run(reload) EXCEPT !.pc = "user", !.cached = TRUE,
                                    !.session = [Closed EXCEPT !.sid = file.session.sid]])
        ELSE SetProc(p, [run(reload) EXCEPT !.pc = "login"])
  BY DEF Load
<1>2. run(reload) \in Records /\ now \in 0 .. MaxTime
  <2>1. now \in 0 .. MaxTime
    BY CacheAssumption DEF Inv, TypeOK
  <2> QED BY <2>1, ClosedTyped DEF Records
<1>3. CASE file.readable /\ ~TimedOut(file.session)
  <2> DEFINE r == [run(reload) EXCEPT !.pc = IF reload THEN "refresh" ELSE "ready",
                                      !.session = file.session]
  <2>1. SetProc(p, r)
    BY <1>3
  <2>2. ListSound(file.session) /\ file.session \in Lists
    BY <1>3 DEF Inv, TypeOK
  <2>3. r \in Records
    BY <1>2, <2>2 DEF Records, Pcs
  <2>4. RunSound(r)
    <3>1. r.begun = now /\ r.reload = reload /\ r.session = file.session
      BY <1>2, ClosedTyped DEF Records
    <3>2. r.pc = IF reload THEN "refresh" ELSE "ready"
      BY <1>2 DEF Records
    <3> HIDE DEF r, run
    <3> QED BY <1>2, <1>3, <2>2, <3>1, <3>2, CacheAssumption
            DEF RunSound, Filled, Recent, ListSound, TimedOut, Lists
  <2> HIDE DEF r
  <2> QED BY <1>1, <2>1, <2>3, <2>4, GoesOn DEF Load
<1>4. CASE ~(file.readable /\ ~TimedOut(file.session)) /\ file.readable /\ file.session.sid # None
  <2> DEFINE list == [Closed EXCEPT !.sid = file.session.sid]
             r == [run(reload) EXCEPT !.pc = "user", !.cached = TRUE, !.session = list]
  <2>1. SetProc(p, r)
    BY <1>4
  <2>2. list \in Lists
    BY ClosedTyped DEF Inv, TypeOK, Lists
  <2>3. r \in Records
    <3> HIDE DEF list
    <3> QED BY <1>2, <2>2 DEF Records, Pcs
  <2>4. RunSound(r)
    BY <1>2, ClosedTyped DEF RunSound, Filled, Records
  <2> HIDE DEF r
  <2> QED BY <1>1, <2>1, <2>3, <2>4, GoesOn DEF Load
<1>5. CASE ~(file.readable /\ ~TimedOut(file.session)) /\ ~(file.readable /\ file.session.sid # None)
  <2> DEFINE r == [run(reload) EXCEPT !.pc = "login"]
  <2>1. SetProc(p, r)
    BY <1>5
  <2>2. r \in Records
    BY <1>2 DEF Records, Pcs
  <2>3. RunSound(r)
    BY <1>2, ClosedTyped DEF RunSound, Filled, Records
  <2> HIDE DEF r
  <2> QED BY <1>1, <2>1, <2>2, <2>3, GoesOn DEF Load
<1> QED BY <1>3, <1>4, <1>5

LEMMA GetUserKeeps == ASSUME Inv, NEW p \in Procs, GetUser(p) PROVE Inv'
<1> DEFINE r == [proc[p] EXCEPT !.pc = "refresh", !.session.lastRefresh = now]
<1>1. r \in Records
  <2>1. proc[p] \in Records /\ now \in 0 .. MaxTime
    BY CacheAssumption DEF Inv, TypeOK, Records
  <2>2. [proc[p].session EXCEPT !.lastRefresh = now] \in Lists
    BY <2>1 DEF Records, Lists
  <2> QED BY <2>1, <2>2 DEF Records, Pcs
<1>2. RunSound(r)
  BY DEF Inv, TypeOK, RunSound, Filled
<1>3. SetProc(p, r) /\ runs' \in 0 .. MaxRuns
  BY DEF GetUser, Inv, TypeOK
<1> HIDE DEF r
<1> QED BY <1>1, <1>2, <1>3, GoesOn DEF GetUser

LEMMA GetUserFailsKeeps == ASSUME Inv, NEW p \in Procs, GetUserFails(p) PROVE Inv'
<1> DEFINE r == [proc[p] EXCEPT !.pc = "login", !.session.sid = None, !.cached = FALSE]
<1>1. CASE SetProc(p, r)
  <2>1. r \in Records
    <3>1. proc[p] \in Records
      BY DEF Inv, TypeOK, Records
    <3>2. [proc[p].session EXCEPT !.sid = None] \in Lists
      BY <3>1 DEF Records, Lists
    <3> QED BY <3>1, <3>2 DEF Records, Pcs
  <2>2. RunSound(r)
    BY DEF Inv, TypeOK, RunSound, Filled
  <2>3. runs' \in 0 .. MaxRuns
    BY DEF GetUserFails, Inv, TypeOK
  <2> HIDE DEF r
  <2> QED BY <1>1, <2>1, <2>2, <2>3, GoesOn DEF GetUserFails
<1>2. CASE End(p)
  BY <1>2, EndKeeps DEF GetUserFails
<1> QED BY <1>1, <1>2 DEF GetUserFails

\* A new session id was never ended, and no list has it yet.
LEMMA LoginKeeps == ASSUME Inv, NEW p \in Procs, Login(p) PROVE Inv'
<1>1. CASE End(p) /\ UNCHANGED issued
  BY <1>1, EndKeeps DEF Login
<1>2. ASSUME NEW sid \in Sids \ issued, issued' = issued \cup {sid},
             SetProc(p, [proc[p] EXCEPT !.pc = "user", !.session.sid = sid])
      PROVE  Inv'
  <2> DEFINE r == [proc[p] EXCEPT !.pc = "user", !.session.sid = sid]
  <2>1. r \in Records
    <3>1. proc[p] \in Records
      BY DEF Inv, TypeOK, Records
    <3>2. [proc[p].session EXCEPT !.sid = sid] \in Lists
      BY <3>1 DEF Records, Lists
    <3> QED BY <3>1, <3>2 DEF Records, Pcs
  <2>2. TypeOK'
    BY <1>2, <2>1 DEF Inv, TypeOK, Login, SetProc, Records
  <2>3. ASSUME NEW list, ListSound(list) PROVE ListSound(list)'
    BY <1>2, <2>3 DEF ListSound, Login
  <2>4. ASSUME NEW q \in Procs PROVE RunSound(proc[q])'
    <3>1. CASE q = p
      <4>1. proc'[p] = r
        BY <1>2 DEF Inv, TypeOK, SetProc
      <4>2. r.pc = "user" /\ r.begun = proc[p].begun
        BY DEF Inv, TypeOK
      <4>3. proc[p].begun <= now /\ now' = now
        BY DEF Inv, RunSound, Login
      <4> HIDE DEF r
      <4> QED BY <3>1, <4>1, <4>2, <4>3 DEF RunSound, Filled
    <3>2. CASE q # p
      BY <1>2, <2>3, <3>2 DEF Inv, TypeOK, RunSound, Filled, Recent, ListSound, SetProc, Login
    <3> QED BY <3>1, <3>2
  <2>5. (file.readable => ListSound(file.session))'
    BY <1>2 DEF Inv, ListSound, Login
  <2> QED BY <2>2, <2>4, <2>5 DEF Inv
<1> QED BY <1>1, <1>2 DEF Login

LEMMA RefreshKeeps == ASSUME Inv, NEW p \in Procs, Refresh(p) PROVE Inv'
<1> DEFINE list == [sid |-> proc[p].session.sid, lastRefresh |-> now, nodes |-> account,
                    read |-> now, drift |-> FALSE]
           r == [proc[p] EXCEPT !.pc = "save", !.session = list]
<1>1. CASE Live(proc[p].session.sid) /\ SetProc(p, r)
  <2>1. list \in Lists /\ ListSound(list)
    BY <1>1 DEF Inv, TypeOK, Lists, ListSound, Live
  <2>2. r \in Records
    <3> HIDE DEF list
    <3> QED BY <2>1 DEF Inv, TypeOK, Records, Pcs
  <2>3. RunSound(r)
    BY <2>1, CacheAssumption DEF Inv, TypeOK, RunSound, Filled, Recent
  <2>4. runs' \in 0 .. MaxRuns
    BY DEF Refresh, Inv, TypeOK
  <2> HIDE DEF r
  <2> QED BY <1>1, <2>2, <2>3, <2>4, GoesOn DEF Refresh
<1>2. CASE End(p)
  BY <1>2, EndKeeps DEF Refresh
<1> QED BY <1>1, <1>2 DEF Refresh

\* What a tool that is past its refresh writes is sound.
LEMMA WrittenSound ==
    ASSUME Inv, NEW p \in Procs, Filled(proc[p]), Written(p)
    PROVE  file' \in [readable : BOOLEAN, session : Lists] /\ ListSound(file'.session)
BY DEF Inv, TypeOK, RunSound, Written

LEMMA SaveStartedKeeps == ASSUME Inv, NEW p \in Procs, SaveStarted(p) PROVE Inv'
<1> DEFINE r == [proc[p] EXCEPT !.pc = "ready"]
<1>1. r \in Records
  BY DEF Inv, TypeOK, Records, Pcs
<1>2. RunSound(r)
  BY DEF Inv, TypeOK, RunSound, Filled, Recent, SaveStarted
<1>3. file' \in [readable : BOOLEAN, session : Lists] /\ (file'.readable => ListSound(file'.session))
  BY WrittenSound DEF SaveStarted, Filled, Inv, TypeOK
<1>4. SetProc(p, r) /\ account' \subseteq Items /\ runs' \in 0 .. MaxRuns
  BY DEF SaveStarted, Inv, TypeOK
<1> HIDE DEF r
<1> QED BY <1>1, <1>2, <1>3, <1>4, OnlyProc DEF SaveStarted

\* To miss a change of the account makes no list older.
LEMMA BehindSound ==
    ASSUME NEW r \in Records, RunSound(r)
    PROVE  Behind(r) \in Records /\ RunSound(Behind(r))
BY DEF Behind, Records, Lists, RunSound, Filled, Recent, ListSound

LEMMA FileBehindSound ==
    ASSUME Inv, file' = [file EXCEPT !.session.drift = TRUE]
    PROVE  /\ file' \in [readable : BOOLEAN, session : Lists]
           /\ file'.readable => ListSound(file'.session)
BY DEF Inv, TypeOK, Lists, ListSound

\* A step that changes the account: all lists but the one of the tool that
\* took it fall behind.
LEMMA AllBehind ==
    ASSUME Inv, file' = [file EXCEPT !.session.drift = TRUE], account' \subseteq Items,
           proc' \in [Procs -> Records],
           \A q \in Procs : proc'[q] = Behind(proc[q]) \/ RunSound(proc'[q]),
           UNCHANGED <<now, ended, issued, runs>>
    PROVE  Inv'
<1>1. TypeOK'
  BY FileBehindSound DEF Inv, TypeOK, Records
<1>2. (file.readable => ListSound(file.session))'
  BY FileBehindSound DEF ListSound
<1>3. ASSUME NEW q \in Procs PROVE RunSound(proc[q])'
  <2>1. proc[q] \in Records /\ RunSound(proc[q])
    BY DEF Inv, TypeOK, Records
  <2>2. CASE proc'[q] = Behind(proc[q])
    <3> DEFINE r == Behind(proc[q])
    <3>1. RunSound(r)
      BY <2>1, BehindSound
    <3> HIDE DEF r
    <3> QED BY <2>2, <3>1 DEF RunSound, Filled, Recent, ListSound, r
  <2>3. CASE RunSound(proc'[q])
    BY <2>3 DEF RunSound, Filled, Recent, ListSound
  <2> QED BY <2>2, <2>3
<1> QED BY <1>1, <1>2, <1>3 DEF Inv

LEMMA WorkKeeps == ASSUME Inv, NEW p \in Procs, Work(p) PROVE Inv'
<1> DEFINE list == proc[p].session
           failed == [proc[p] EXCEPT !.pc = "finish"]
           lost == [proc[p] EXCEPT !.pc = "finish", !.session.drift = TRUE]
           done(i) == [proc[p] EXCEPT !.pc = "finish", !.session.nodes = Applied(list.nodes, i)]
<1>1. PICK i \in Items :
        \/ /\ account' = IF i \in list.nodes THEN account \ {i} ELSE account \cup {i}
           /\ file' = [file EXCEPT !.session.drift = TRUE]
           /\ \E r \in {done(i), lost} :
                 proc' = [[q \in Procs |-> Behind(proc[q])] EXCEPT ![p] = r]
        \/ SetProc(p, failed) /\ UNCHANGED <<account, file>>
  BY DEF Work
<1>2. /\ proc[p] \in Records /\ RunSound(proc[p]) /\ Filled(proc[p])
      /\ \A q \in Procs : proc[q] \in Records /\ RunSound(proc[q])
      /\ runs \in 0 .. MaxRuns
  BY DEF Inv, TypeOK, Records, Work, Filled
<1>3. done(i) \in Records /\ lost \in Records /\ failed \in Records
  <2>1. Applied(list.nodes, i) \in SUBSET Items
    BY <1>2 DEF Records, Lists, Applied
  <2>2. /\ [list EXCEPT !.nodes = Applied(list.nodes, i)] \in Lists
        /\ [list EXCEPT !.drift = TRUE] \in Lists
    BY <1>2, <2>1 DEF Records, Lists
  <2> QED BY <1>2, <2>2 DEF Records, Pcs
<1>4. RunSound(done(i)) /\ RunSound(lost) /\ RunSound(failed)
  BY <1>2 DEF RunSound, Filled, Recent, ListSound, Records, Lists
<1>5. CASE SetProc(p, failed) /\ UNCHANGED <<account, file>>
  <2> HIDE DEF failed
  <2> QED BY <1>2, <1>3, <1>4, <1>5, GoesOn DEF Work
<1>6. ASSUME NEW r \in {done(i), lost},
             proc' = [[q \in Procs |-> Behind(proc[q])] EXCEPT ![p] = r],
             file' = [file EXCEPT !.session.drift = TRUE],
             account' = IF i \in list.nodes THEN account \ {i} ELSE account \cup {i}
      PROVE  Inv'
  <2> HIDE DEF done, lost
  <2>1. r \in Records /\ RunSound(r)
    BY <1>3, <1>4
  <2>2. \A q \in Procs : proc'[q] = IF q = p THEN r ELSE Behind(proc[q])
    BY <1>6
  <2>3. proc' \in [Procs -> Records]
    BY <1>2, <1>6, <2>1, BehindSound
  <2>4. account' \subseteq Items
    BY <1>6 DEF Inv, TypeOK
  <2> QED BY <1>6, <2>1, <2>2, <2>3, <2>4, AllBehind DEF Work
<1> QED BY <1>1, <1>5, <1>6

LEMMA FinishKeeps == ASSUME Inv, NEW p \in Procs, Finish(p) PROVE Inv'
<1>1. file' \in [readable : BOOLEAN, session : Lists] /\ ListSound(file'.session)
  BY WrittenSound DEF Finish, Filled
<1>2. SetProc(p, Idle) /\ account' \subseteq Items /\ runs' \in 0 .. MaxRuns
  BY DEF Finish, End, Inv, TypeOK
<1> QED BY <1>1, <1>2, IdleSound, ClosedTyped, OnlyProc DEF Finish

LEMMA TickKeeps == ASSUME Inv, Tick PROVE Inv'
<1>1. TypeOK'
  BY CacheAssumption DEF Inv, TypeOK, Tick
<1>2. (file.readable => ListSound(file.session))'
  BY CacheAssumption DEF Inv, TypeOK, Tick, ListSound, Lists
<1>3. ASSUME NEW p \in Procs PROVE RunSound(proc[p])'
  <2>1. proc[p] \in Records /\ RunSound(proc[p]) /\ now \in Nat
    BY DEF Inv, TypeOK, Records
  <2> QED BY <2>1, CacheAssumption DEF Tick, RunSound, Filled, Recent, ListSound, Records, Lists
<1> QED BY <1>1, <1>2, <1>3 DEF Inv

LEMMA EndSessionKeeps == ASSUME Inv, EndSession PROVE Inv'
<1> PICK sid \in issued : ended[sid] = 0 /\ ended' = [ended EXCEPT ![sid] = now]
  BY DEF EndSession
<1>1. TypeOK'
  BY CacheAssumption DEF Inv, TypeOK, EndSession
<1>2. ASSUME NEW list, ListSound(list) PROVE ListSound(list)'
  BY <1>2, CacheAssumption DEF Inv, TypeOK, ListSound, EndSession
<1>3. (file.readable => ListSound(file.session))'
  BY <1>2 DEF Inv, EndSession, ListSound
<1>4. ASSUME NEW p \in Procs PROVE RunSound(proc[p])'
  BY <1>2 DEF Inv, RunSound, Filled, Recent, EndSession, ListSound
<1> QED BY <1>1, <1>3, <1>4 DEF Inv

LEMMA OtherClientKeeps == ASSUME Inv, OtherClient PROVE Inv'
<1>1. account' \subseteq Items /\ proc' \in [Procs -> Records]
  BY BehindSound DEF Inv, TypeOK, OtherClient, Records
<1>2. \A q \in Procs : proc'[q] = Behind(proc[q])
  BY DEF OtherClient
<1> QED BY <1>1, <1>2, AllBehind DEF OtherClient

LEMMA FileLostKeeps == ASSUME Inv, FileLost PROVE Inv'
<1>1. TypeOK'
  BY ClosedTyped DEF Inv, TypeOK, FileLost, NoFile
<1>2. ~file'.readable
  BY DEF FileLost, NoFile
<1>3. ASSUME NEW p \in Procs PROVE RunSound(proc[p])'
  BY DEF Inv, FileLost, RunSound, Filled, Recent, ListSound
<1> QED BY <1>1, <1>2, <1>3 DEF Inv

LEMMA InvNext == Inv /\ [Next]_vars => Inv'
<1> SUFFICES ASSUME Inv, [Next]_vars PROVE Inv'
  OBVIOUS
<1>1. ASSUME NEW p \in Procs, Load(p) PROVE Inv'
  BY <1>1, LoadKeeps
<1>2. ASSUME NEW p \in Procs, GetUser(p) \/ GetUserFails(p) \/ Login(p) PROVE Inv'
  BY <1>2, GetUserKeeps, GetUserFailsKeeps, LoginKeeps
<1>3. ASSUME NEW p \in Procs, Refresh(p) \/ SaveStarted(p) PROVE Inv'
  BY <1>3, RefreshKeeps, SaveStartedKeeps
<1>4. ASSUME NEW p \in Procs, Work(p) \/ Finish(p) PROVE Inv'
  BY <1>4, WorkKeeps, FinishKeeps
<1>5. ASSUME NEW p \in Procs, FinishReading(p) \/ Crash(p) PROVE Inv'
  BY <1>5, EndKeeps DEF FinishReading, Crash
<1>6. CASE Tick \/ EndSession \/ OtherClient \/ FileLost
  BY <1>6, TickKeeps, EndSessionKeeps, OtherClientKeeps, FileLostKeeps
<1>7. CASE UNCHANGED vars
  BY <1>7 DEF vars, Inv, TypeOK, RunSound, Filled, Recent, ListSound
<1> QED BY <1>1, <1>2, <1>3, <1>4, <1>5, <1>6, <1>7 DEF Next

\* The strengthened invariant: the lists in the file and in the tools are what
\* a refresh on a live session left (mega_session_refresh, mega_session_save).
THEOREM Invariance == Spec => []Inv
<1>1. Init => Inv
  BY InvInit
<1>2. Inv /\ [Next]_vars => Inv'
  BY InvNext
<1> QED BY <1>1, <1>2, PTL DEF Spec

\* Types, for any number of tools, items and session ids.
THEOREM TypeCorrect == Spec => []TypeOK
<1>1. Inv => TypeOK
  BY DEF Inv
<1> QED BY <1>1, Invariance, PTL

\* The age test in mega_session_load and the order of get_user, refresh and
\* save in mega_session_open keep every tool on a list no older than the
\* timeout, however tools, crashes and the clock interleave.
THEOREM Fresh == Spec => []FreshWhenServed
<1>1. Inv => FreshWhenServed
  BY DEF Inv, FreshWhenServed, RunSound, Filled, Recent, Serving
<1> QED BY <1>1, Invariance, PTL

\* A dead session is used by tools that load it unseen, but only as long as
\* the list that was read with it is served: nothing renews it.
THEOREM DeadTimesOut == Spec => []DeadSessionTimesOut
<1>1. Inv => DeadSessionTimesOut
  <2> SUFFICES ASSUME Inv, NEW p \in Procs, Serving(p), MaxAge > 0,
                      ended[proc[p].session.sid] # 0
               PROVE  ended[proc[p].session.sid] + MaxAge >= proc[p].begun
    BY DEF DeadSessionTimesOut
  <2>1. proc[p] \in Records /\ RunSound(proc[p]) /\ Filled(proc[p])
    BY DEF Inv, TypeOK, Records, Serving, Filled
  <2>2. ended[proc[p].session.sid] \in 0 .. MaxTime
    BY <2>1 DEF RunSound, ListSound, Inv, TypeOK
  <2> QED BY <2>1, <2>2, CacheAssumption DEF RunSound, ListSound, Recent, Records, Lists
<1> QED BY <1>1, Invariance, PTL

-----------------------------------------------------------------------------
(* What the cache holds.                                                    *)

\* A list whose owner missed nothing is the account's.
UpToDate(list) == ~list.drift => list.nodes = account

Follows ==
    /\ file.readable => UpToDate(file.session)
    /\ \A p \in Procs : Filled(proc[p]) => UpToDate(proc[p].session)

\* A step that changes one run, perhaps the file, and not the account.
LEMMA FollowsStep ==
  ASSUME TypeOK, Follows, NEW p \in Procs, NEW r, SetProc(p, r), account' = account,
         Filled(r) => UpToDate(r.session),
         file'.readable => UpToDate(file'.session)
  PROVE  Follows'
<1>1. ASSUME NEW q \in Procs, Filled(proc'[q]) PROVE UpToDate(proc'[q].session)
  <2>1. CASE q = p
    BY <1>1, <2>1 DEF TypeOK, SetProc
  <2>2. CASE q # p
    BY <1>1, <2>2 DEF TypeOK, SetProc, Follows
  <2> QED BY <2>1, <2>2
<1> QED BY <1>1 DEF Follows, UpToDate

\* The account changes: every run but the one that did it is behind.
LEMMA Drifted ==
  ASSUME TypeOK, NEW q \in Procs PROVE Behind(proc[q]).session.drift
BY DEF TypeOK, Behind, Lists

\* A command that goes by an up to date list changes list and account alike.
LEMMA FollowsWork == ASSUME TypeOK, Follows, NEW p \in Procs, Work(p) PROVE Follows'
<1> DEFINE list == proc[p].session
<1>1. proc \in [Procs -> Records] /\ file \in [readable : BOOLEAN, session : Lists]
      /\ Filled(proc[p])
  BY DEF TypeOK, Records, Work, Filled
<1>2. UpToDate(list)
  BY <1>1 DEF Follows
<1>3. CASE SetProc(p, [proc[p] EXCEPT !.pc = "finish"]) /\ UNCHANGED <<account, file>>
  <2>1. [proc[p] EXCEPT !.pc = "finish"].session = list
    BY <1>1 DEF Records
  <2> QED BY <1>2, <1>3, <2>1, FollowsStep DEF Follows
<1>4. ASSUME NEW i \in Items,
             account' = IF i \in list.nodes THEN account \ {i} ELSE account \cup {i},
             file' = [file EXCEPT !.session.drift = TRUE],
             NEW r \in {[proc[p] EXCEPT !.pc = "finish", !.session.nodes = Applied(list.nodes, i)],
                        [proc[p] EXCEPT !.pc = "finish", !.session.drift = TRUE]},
             proc' = [[q \in Procs |-> Behind(proc[q])] EXCEPT ![p] = r]
      PROVE  Follows'
  <2>1. file'.session.drift
    BY <1>1, <1>4 DEF Lists
  <2>2. \A q \in Procs \ {p} : proc'[q].session.drift
    BY <1>4, Drifted
  <2>3. proc'[p] = r
    BY <1>4
  <2>4. CASE r = [proc[p] EXCEPT !.pc = "finish", !.session.drift = TRUE]
    <3>1. r.session.drift
      BY <1>1, <2>4 DEF Records, Lists
    <3> QED BY <2>1, <2>2, <2>3, <3>1 DEF Follows, UpToDate
  <2>5. CASE r = [proc[p] EXCEPT !.pc = "finish", !.session.nodes = Applied(list.nodes, i)]
    <3>1. r.session.drift = list.drift /\ r.session.nodes = Applied(list.nodes, i)
      BY <1>1, <2>5 DEF Records, Lists
    <3>2. ~list.drift => Applied(list.nodes, i) = account'
      BY <1>2, <1>4 DEF UpToDate, Applied
    <3> QED BY <2>1, <2>2, <2>3, <3>1, <3>2 DEF Follows, UpToDate
  <2> QED BY <1>4, <2>4, <2>5
<1> QED BY <1>3, <1>4 DEF Work

LEMMA FollowsNext == ASSUME TypeOK, Follows, Next PROVE Follows'
<1>1. proc \in [Procs -> Records] /\ file \in [readable : BOOLEAN, session : Lists]
  BY DEF TypeOK, Records
<1>2. Idle \in Records /\ ~Filled(Idle)
  BY ClosedTyped DEF Idle, Filled
<1>3. ASSUME NEW p \in Procs, End(p), UNCHANGED <<account, file>> PROVE Follows'
  BY <1>1, <1>2, <1>3, FollowsStep DEF End, Follows
<1>4. ASSUME NEW p \in Procs, FinishReading(p) \/ Crash(p) PROVE Follows'
  BY <1>3, <1>4 DEF FinishReading, Crash
<1>5. ASSUME NEW p \in Procs, Finish(p) PROVE Follows'
  <2>1. Filled(proc[p]) /\ file'.session = proc[p].session
    BY <1>5 DEF Finish, Written, Filled
  <2> QED BY <1>2, <1>5, <2>1, FollowsStep DEF Finish, End, Follows
<1>6. ASSUME Tick \/ EndSession PROVE Follows'
  BY <1>6 DEF Tick, EndSession, Follows, UpToDate
<1>7. ASSUME FileLost PROVE Follows'
  BY <1>7 DEF FileLost, NoFile, Follows, UpToDate
<1>8. ASSUME OtherClient PROVE Follows'
  <2>1. file'.session.drift
    BY <1>1, <1>8 DEF OtherClient, Lists
  <2>2. \A q \in Procs : proc'[q].session.drift
    BY <1>8, Drifted DEF OtherClient
  <2> QED BY <2>1, <2>2 DEF Follows, UpToDate
<1>9. ASSUME NEW p \in Procs, NEW r, SetProc(p, r), UNCHANGED <<account, file>>, ~Filled(r)
      PROVE  Follows'
  BY <1>9, FollowsStep DEF Follows
<1>10. ASSUME NEW p \in Procs, Load(p) PROVE Follows'
  <2>1. PICK reload \in BOOLEAN :
          LET run == [Idle EXCEPT !.reload = reload, !.begun = now]
          IN IF file.readable /\ ~TimedOut(file.session)
             THEN SetProc(p, [run EXCEPT !.pc = IF reload THEN "refresh" ELSE "ready",
                                         !.session = file.session])
             ELSE IF file.readable /\ file.session.sid # None
             THEN SetProc(p, [run EXCEPT !.pc = "user", !.cached = TRUE,
                                         !.session = [Closed EXCEPT !.sid = file.session.sid]])
             ELSE SetProc(p, [run EXCEPT !.pc = "login"])
    BY <1>10 DEF Load
  <2> DEFINE run == [Idle EXCEPT !.reload = reload, !.begun = now]
             pc == IF reload THEN "refresh" ELSE "ready"
             known == [run EXCEPT !.pc = pc, !.session = file.session]
             user == [run EXCEPT !.pc = "user", !.cached = TRUE,
                                 !.session = [Closed EXCEPT !.sid = file.session.sid]]
             login == [run EXCEPT !.pc = "login"]
  <2>2. known.session = file.session /\ user.pc = "user" /\ login.pc = "login"
    BY DEF Idle
  <2>3. UNCHANGED <<account, file>>
    BY <1>10 DEF Load
  <2>4. CASE file.readable /\ SetProc(p, known)
    <3> HIDE DEF known
    <3> QED BY <2>2, <2>3, <2>4, FollowsStep DEF Follows
  <2>5. CASE SetProc(p, user) \/ SetProc(p, login)
    <3>1. ~Filled(user) /\ ~Filled(login)
      BY <2>2 DEF Filled
    <3> HIDE DEF user, login
    <3> QED BY <1>9, <2>3, <2>5, <3>1
  <2> QED BY <2>1, <2>4, <2>5
<1>11. ASSUME NEW p \in Procs, GetUser(p) \/ GetUserFails(p) \/ Login(p) PROVE Follows'
  <2>1. UNCHANGED <<account, file>> /\ proc[p] \in Records
    BY <1>1, <1>11 DEF GetUser, GetUserFails, Login
  <2>2. CASE GetUser(p)
    <3>1. SetProc(p, [proc[p] EXCEPT !.pc = "refresh", !.session.lastRefresh = now])
      BY <2>2 DEF GetUser
    <3>2. ~Filled([proc[p] EXCEPT !.pc = "refresh", !.session.lastRefresh = now])
      BY <2>1 DEF Filled, Records
    <3> QED BY <1>9, <2>1, <3>1, <3>2
  <2>3. CASE GetUserFails(p)
    <3>1. \/ SetProc(p, [proc[p] EXCEPT !.pc = "login", !.session.sid = None, !.cached = FALSE])
          \/ End(p)
      BY <2>3 DEF GetUserFails
    <3>2. ~Filled([proc[p] EXCEPT !.pc = "login", !.session.sid = None, !.cached = FALSE])
      BY <2>1 DEF Filled, Records
    <3> QED BY <1>3, <1>9, <2>1, <3>1, <3>2
  <2>4. CASE Login(p)
    <3>1. \/ \E sid \in Sids : SetProc(p, [proc[p] EXCEPT !.pc = "user", !.session.sid = sid])
          \/ End(p)
      BY <2>4 DEF Login
    <3>2. \A sid \in Sids : ~Filled([proc[p] EXCEPT !.pc = "user", !.session.sid = sid])
      BY <2>1 DEF Filled, Records
    <3> QED BY <1>3, <1>9, <2>1, <3>1, <3>2
  <2> QED BY <1>11, <2>2, <2>3, <2>4
<1>12. ASSUME NEW p \in Procs, Refresh(p) PROVE Follows'
  <2> DEFINE list == [sid |-> proc[p].session.sid, lastRefresh |-> now,
                      nodes |-> account, read |-> now, drift |-> FALSE]
             r == [proc[p] EXCEPT !.pc = "save", !.session = list]
  <2>1. UNCHANGED <<account, file>> /\ (SetProc(p, r) \/ End(p))
    BY <1>12 DEF Refresh
  <2>2. r.session = list
    BY <1>1 DEF Records
  <2>3. UpToDate(r.session)
    BY <2>2 DEF UpToDate
  <2> HIDE DEF r
  <2> QED BY <1>3, <2>1, <2>3, FollowsStep DEF Follows
<1>13. ASSUME NEW p \in Procs, SaveStarted(p) PROVE Follows'
  <2> DEFINE r == [proc[p] EXCEPT !.pc = "ready"]
  <2>1. SetProc(p, r) /\ account' = account /\ (Written(p) \/ UNCHANGED file)
        /\ Filled(proc[p])
    BY <1>13 DEF SaveStarted, Filled
  <2>2. r.session = proc[p].session
    BY <1>1 DEF Records
  <2>3. UpToDate(proc[p].session)
    BY <2>1 DEF Follows
  <2>4. file'.readable => UpToDate(file'.session)
    BY <2>1, <2>3 DEF Written, Follows
  <2> HIDE DEF r
  <2> QED BY <2>1, <2>2, <2>3, <2>4, FollowsStep
<1>14. ASSUME NEW p \in Procs, Work(p) PROVE Follows'
  BY <1>14, FollowsWork
<1> QED BY <1>4, <1>5, <1>6, <1>7, <1>8, <1>10, <1>11, <1>12, <1>13, <1>14 DEF Next

\* The invariant of what the cache holds goes with the types.
LEMMA FollowsAlways == Spec => []Follows
<1>1. Init => Follows
  BY DEF Init, NoFile, Idle, Filled, Follows
<1>2. TypeOK /\ Follows /\ [Next]_vars => Follows'
  <2>1. ASSUME Follows, UNCHANGED vars PROVE Follows'
    BY <2>1 DEF vars, Follows, UpToDate
  <2> QED BY <2>1, FollowsNext
<1> QED BY <1>1, <1>2, TypeCorrect, PTL DEF Spec

\* When all tools have ended, the cache file holds the account, but for what
\* others did behind the back of the tool that wrote it (the save at the end of
\* each tool), for any number of tools that overlap in any way.
THEOREM CacheFollows == Spec => []CacheFollowsTools
<1>1. Follows => CacheFollowsTools
  BY DEF Follows, UpToDate, CacheFollowsTools
<1> QED BY <1>1, FollowsAlways, PTL
=============================================================================
