---------------------------- MODULE SessionCache -----------------------------
(***************************************************************************)
(* How a tool gets its session and what it leaves for the next one         *)
(* (libtools/tools.c: tool_start_session; libtools/oldmega.c:              *)
(* mega_session_load, open, close, get_user, refresh, save; the save at    *)
(* the end of megamkdir, megarm, megaput, megamv and megacopy).  All tools *)
(* of one user share one cache file, which they read whole and replace     *)
(* whole, without a lock.  The server may end a session at any time, and   *)
(* other clients change the account.                                       *)
(*                                                                         *)
(* The account is the set of items in it.  Keys and user data are left     *)
(* out: they come with the session id.                                     *)
(***************************************************************************)
EXTENDS Integers, FiniteSets

CONSTANTS
    Procs,      \* tools that may run at the same time
    Items,      \* files and folders
    Sids,       \* session ids the server may give
    None,       \* NULL
    MaxAge,     \* opt_cache_timout
    MaxTime,    \* bound: the clock
    MaxRuns     \* bound: tools started

ASSUME CacheAssumption ==
    /\ MaxAge \in Int /\ MaxTime \in Nat \ {0} /\ MaxRuns \in Nat
    /\ None \notin Sids

VARIABLES
    now,        \* time(NULL); 0 stands for "not set" in the code
    account,    \* what the server holds
    ended,      \* when the server ended a session, 0 for never
    issued,     \* the session ids given
    file,       \* the cache file
    proc,       \* a tool: where it is in its run, and its mega_session
    runs        \* tools started so far

vars == <<now, account, ended, issued, file, proc, runs>>

\* A list of nodes: the items in it, when it was read from the server, and
\* whether the account changed since in a way its owner could not see.
Lists == [sid : Sids \cup {None}, lastRefresh : 0 .. MaxTime, nodes : SUBSET Items,
          read : 0 .. MaxTime, drift : BOOLEAN]

\* What mega_session_close leaves.
Closed == [sid |-> None, lastRefresh |-> 0, nodes |-> {}, read |-> 0, drift |-> FALSE]

\* No cache file, or one that is cut, of another version or password.
NoFile == [readable |-> FALSE, session |-> Closed]

Idle == [pc |-> "idle", session |-> Closed, cached |-> FALSE, reload |-> FALSE, begun |-> 0]

Pcs == {"idle", "user", "login", "refresh", "save", "ready", "finish"}

TypeOK ==
    /\ now \in 1 .. MaxTime /\ account \subseteq Items
    /\ ended \in [Sids -> 0 .. MaxTime] /\ issued \subseteq Sids
    /\ file \in [readable : BOOLEAN, session : Lists]
    /\ proc \in [Procs -> [pc : Pcs, session : Lists, cached : BOOLEAN,
                           reload : BOOLEAN, begun : 0 .. MaxTime]]
    /\ runs \in 0 .. MaxRuns

Live(sid) == sid \in issued /\ ended[sid] = 0

SetProc(p, r) == proc' = [proc EXCEPT ![p] = r]

-----------------------------------------------------------------------------
(* tool_start_session.                                                      *)

\* Mutant of TimedOut: the age is never compared.
NeverTimedOut(list) == list.lastRefresh = 0

\* The test of max_age in mega_session_load.
TimedOut(list) ==
    MaxAge > 0 /\ (list.lastRefresh = 0 \/ list.lastRefresh + MaxAge < now)

\* mega_session_load, which closes the session first.  A cache that timed out
\* still gives its session id.
Load(p) ==
    /\ proc[p].pc = "idle" /\ runs < MaxRuns
    /\ runs' = runs + 1
    /\ \E reload \in BOOLEAN :
          LET run == [Idle EXCEPT !.reload = reload, !.begun = now]
          IN IF file.readable /\ ~TimedOut(file.session)
             THEN SetProc(p, [run EXCEPT !.pc = IF reload THEN "refresh" ELSE "ready",
                                         !.session = file.session])
             ELSE IF file.readable /\ file.session.sid # None
             THEN SetProc(p, [run EXCEPT !.pc = "user", !.cached = TRUE,
                                         !.session = [Closed EXCEPT !.sid = file.session.sid]])
             ELSE SetProc(p, [run EXCEPT !.pc = "login"])
    /\ UNCHANGED <<now, account, ended, issued, file>>

End(p) == SetProc(p, Idle)

\* Mutant of GetUser: the session is used as it is when get_user succeeded.
GetUserThenSave(p) ==
    /\ proc[p].pc = "user" /\ Live(proc[p].session.sid)
    /\ SetProc(p, [proc[p] EXCEPT !.pc = "save", !.session.lastRefresh = now])
    /\ UNCHANGED <<now, account, ended, issued, file, runs>>

\* mega_session_get_user: with the session id of the cache or a new one.
GetUser(p) ==
    /\ proc[p].pc = "user" /\ Live(proc[p].session.sid)
    /\ SetProc(p, [proc[p] EXCEPT !.pc = "refresh", !.session.lastRefresh = now])
    /\ UNCHANGED <<now, account, ended, issued, file, runs>>

\* It fails, and mega_session_open logs in if the id was the cache's.
GetUserFails(p) ==
    /\ proc[p].pc = "user"
    /\ IF proc[p].cached
       THEN SetProc(p, [proc[p] EXCEPT !.pc = "login", !.session.sid = None, !.cached = FALSE])
       ELSE End(p)
    /\ UNCHANGED <<now, account, ended, issued, file, runs>>

\* The rest of mega_session_open.
Login(p) ==
    /\ proc[p].pc = "login"
    /\ \/ /\ \E sid \in Sids \ issued :
                /\ issued' = issued \cup {sid}
                /\ SetProc(p, [proc[p] EXCEPT !.pc = "user", !.session.sid = sid])
       \/ End(p) /\ UNCHANGED issued
    /\ UNCHANGED <<now, account, ended, file, runs>>

\* mega_session_refresh after opening, or because of --reload.
Refresh(p) ==
    /\ proc[p].pc = "refresh"
    /\ \/ /\ Live(proc[p].session.sid)
          /\ SetProc(p, [proc[p] EXCEPT !.pc = "save",
                           !.session = [sid |-> proc[p].session.sid, lastRefresh |-> now,
                                        nodes |-> account, read |-> now, drift |-> FALSE]])
       \/ End(p)
    /\ UNCHANGED <<now, account, ended, issued, file, runs>>

\* mega_session_save: the file is replaced whole, or stays as it is.
Written(p) == file' = [readable |-> TRUE, session |-> proc[p].session]

SaveStarted(p) ==
    /\ proc[p].pc = "save"
    /\ SetProc(p, [proc[p] EXCEPT !.pc = "ready"])
    /\ Written(p) \/ UNCHANGED file
    /\ UNCHANGED <<now, account, ended, issued, runs>>

-----------------------------------------------------------------------------
(* The tool's own command, and its end.                                     *)

\* Mutant of Applied: mega_session_rm leaves the node in the list.
AppliedKeepingRemoved(nodes, i) == nodes \cup {i}

\* The session's list after its command on i: mkdir adds it, rm takes it out.
Applied(nodes, i) == IF i \in nodes THEN nodes \ {i} ELSE nodes \cup {i}

\* A tool whose list misses a change of the account.
Behind(r) == [r EXCEPT !.session.drift = TRUE]

\* A command goes by the list the session has: it succeeds on both sides, or
\* is carried out without the session's knowing (ApiCall), or fails.
Work(p) ==
    LET list == proc[p].session
    IN /\ proc[p].pc = "ready"
       /\ \E i \in Items :
             \/ /\ Live(list.sid)
                /\ account' = IF i \in list.nodes THEN account \ {i} ELSE account \cup {i}
                /\ file' = [file EXCEPT !.session.drift = TRUE]
                /\ \E r \in {[proc[p] EXCEPT !.pc = "finish",
                                             !.session.nodes = Applied(list.nodes, i)],
                              [proc[p] EXCEPT !.pc = "finish", !.session.drift = TRUE]} :
                      proc' = [[q \in Procs |-> Behind(proc[q])] EXCEPT ![p] = r]
             \/ SetProc(p, [proc[p] EXCEPT !.pc = "finish"]) /\ UNCHANGED <<account, file>>
       /\ UNCHANGED <<now, ended, issued, runs>>

\* The save at the end, errors or not.
Finish(p) ==
    /\ proc[p].pc = "finish" /\ End(p) /\ Written(p)
    /\ UNCHANGED <<now, account, ended, issued, runs>>

\* megals, megaget and megadf only read.
FinishReading(p) ==
    /\ proc[p].pc = "ready" /\ End(p)
    /\ UNCHANGED <<now, account, ended, issued, file, runs>>

\* A tool is killed, or cannot write: what it did is not in the file.
Crash(p) ==
    /\ proc[p].pc # "idle" /\ End(p)
    /\ UNCHANGED <<now, account, ended, issued, file, runs>>

-----------------------------------------------------------------------------
(* Everything else.                                                         *)

Tick ==
    /\ now < MaxTime /\ now' = now + 1
    /\ UNCHANGED <<account, ended, issued, file, proc, runs>>

\* The server ends a session (logout elsewhere, expiry).
EndSession ==
    /\ \E sid \in issued : ended[sid] = 0 /\ ended' = [ended EXCEPT ![sid] = now]
    /\ UNCHANGED <<now, account, issued, file, proc, runs>>

\* The web site, or another computer.
OtherClient ==
    /\ \E i \in Items : account' = IF i \in account THEN account \ {i} ELSE account \cup {i}
    /\ file' = [file EXCEPT !.session.drift = TRUE]
    /\ proc' = [p \in Procs |-> Behind(proc[p])]
    /\ UNCHANGED <<now, ended, issued, runs>>

\* The temporary directory is cleaned, or the file damaged.
FileLost ==
    /\ file' = NoFile
    /\ UNCHANGED <<now, account, ended, issued, proc, runs>>

Init ==
    /\ now = 1 /\ account \in SUBSET Items
    /\ ended = [s \in Sids |-> 0] /\ issued = {}
    /\ file = NoFile /\ proc = [p \in Procs |-> Idle] /\ runs = 0

Next ==
    \/ \E p \in Procs :
          \/ Load(p) \/ GetUser(p) \/ GetUserFails(p) \/ Login(p)
          \/ Refresh(p) \/ SaveStarted(p)
          \/ Work(p) \/ Finish(p) \/ FinishReading(p) \/ Crash(p)
    \/ Tick \/ EndSession \/ OtherClient \/ FileLost

Spec == Init /\ [][Next]_vars

-----------------------------------------------------------------------------
Serving(p) == proc[p].pc \in {"ready", "finish"}

\* A tool works on a list that was read from the server no longer than the
\* timeout before the tool was started, or with --reload not before it, although
\* get_user renews last_refresh without reading a node, and every tool that
\* ends puts the list it started from back into the file.
FreshWhenServed ==
    \A p \in Procs : Serving(p) =>
        IF proc[p].reload THEN proc[p].session.read >= proc[p].begun
        ELSE MaxAge > 0 => proc[p].session.read + MaxAge >= proc[p].begun

\* No tool starts on a session the server ended longer than the timeout before:
\* a cache with a dead session id is used by load unseen, but not renewed.
DeadSessionTimesOut ==
    \A p \in Procs :
        LET sid == proc[p].session.sid
        IN Serving(p) /\ MaxAge > 0 /\ ended[sid] # 0 => ended[sid] + MaxAge >= proc[p].begun

\* Once all tools have ended the cache holds what the account holds, unless
\* the account changed behind the back of the tool that wrote it: by another
\* client or another tool while it ran, or because an answer was lost or the
\* tool that made the change was killed.  "If you modify cloud filesystem from
\* the Mega.co.nz website or from another computer, you'll need to refresh your
\* session cache" (docs/megatools.txt:100-102) names the first of these only.
CacheFollowsTools ==
    (\A p \in Procs : proc[p].pc = "idle") /\ file.readable /\ ~file.session.drift
        => file.session.nodes = account
=============================================================================
