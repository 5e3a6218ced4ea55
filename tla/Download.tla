------------------------------ MODULE Download -------------------------------
(***************************************************************************)
(* Downloads to the local disk (libtools/oldmega.c: mega_session_get and   *)
(* mega_session_dl with their data callbacks; libtools/http.c:             *)
(* http_post_stream_download and its retries; tools/get.c).  Several tools *)
(* download the same remote file at once, perhaps to the same path.  The   *)
(* storage server and the network may send nothing, an error page, the     *)
(* file, less of it, or other bytes; the disk may be full; a tool may be   *)
(* killed.                                                                 *)
(*                                                                         *)
(* A byte is 0 or 1.  The chunked MAC (see ChunkedMac) takes the plaintext *)
(* padded with zeros to whole blocks, and is represented by what it tells  *)
(* apart.  Decryption is the identity on positions: a wrong byte stays     *)
(* wrong.                                                                  *)
(***************************************************************************)
EXTENDS MacBlocks

CONSTANTS
    Tools,      \* running downloads
    Paths,      \* local file names
    None,       \* no file, no name: NULL
    User,       \* who owns the files that were there before
    MaxLen,     \* bound: bytes of the remote file, and of an answer
    FirstDelay, MaxDelay  \* of curl_easy_perform_retry_empty

\* NULL is no name, no tool and no file.
ASSUME DownloadAssumption ==
    /\ MaxLen \in Nat
    /\ FirstDelay \in Nat \ {0} /\ MaxDelay \in Nat
    /\ None \notin Paths \cup Tools \cup {User} /\ User \notin Tools
    /\ None \notin [data : Seq({0, 1}), done : BOOLEAN, by : Tools \cup {None, User}]

Contents == UNION {[1 .. n -> {0, 1}] : n \in 0 .. MaxLen}

VARIABLES
    remote,     \* the remote file, whose MAC its node key carries
    files,      \* the local directory
    tool        \* the downloads

vars == <<remote, files, tool>>

Idle == [pc |-> "idle", kind |-> "get", path |-> None, created |-> FALSE,
         served |-> << >>, status |-> 200, mac |-> << >>, delay |-> FirstDelay]

Set(t, d) == tool' = [tool EXCEPT ![t] = d]
Go(t, pc) == Set(t, [tool[t] EXCEPT !.pc = pc])

-----------------------------------------------------------------------------
(* Before the first byte.                                                   *)

\* The checks at the beginning.  A directory stands for the file in it; with no
\* path megaget writes to its standard output.  The name of a dl may only be
\* known, and its file looked for, when it is created.
Start(t) ==
    /\ tool[t].pc = "idle"
    /\ \E path \in Paths \cup {None} :
          \/ /\ path # None => files[path] = None
             /\ Set(t, [Idle EXCEPT !.kind = "get", !.path = path,
                                    !.pc = IF path = None THEN "api" ELSE "create"])
          \/ Set(t, [Idle EXCEPT !.kind = "dl", !.path = path, !.pc = "api"])
    /\ UNCHANGED <<remote, files>>

\* g_file_create, which fails if there is a file by now, or for another reason.
Create(t) ==
    LET path == tool[t].path
    IN /\ tool[t].pc = "create"
       /\ \/ /\ files[path] = None
             /\ Set(t, [tool[t] EXCEPT !.created = TRUE,
                                       !.pc = IF tool[t].kind = "get" THEN "api" ELSE "perform"])
             /\ files' = [files EXCEPT ![path] = [data |-> << >>, done |-> FALSE, by |-> t]]
          \/ Set(t, Idle) /\ UNCHANGED files
       /\ UNCHANGED remote

\* Mutants of Abort: the file is left; the file is removed whoever made it.
AbortKeeping(t) == Set(t, Idle) /\ UNCHANGED <<remote, files>>

AbortAlways(t) ==
    /\ Set(t, Idle)
    /\ files' = IF tool[t].path # None THEN [files EXCEPT ![tool[t].path] = None] ELSE files
    /\ UNCHANGED remote

\* err: the file is removed only if this download created it.  What g_file_delete
\* returns is not looked at; the model takes it to succeed.
Abort(t) ==
    /\ Set(t, Idle)
    /\ files' = IF tool[t].created THEN [files EXCEPT ![tool[t].path] = None] ELSE files
    /\ UNCHANGED remote

\* The 'g' command and the checks of its answer; dl also needs a key, a name
\* and the callback's consent.
Api(t) ==
    /\ tool[t].pc = "api"
    /\ \/ /\ Go(t, IF tool[t].kind = "dl" /\ tool[t].path # None THEN "create" ELSE "perform")
          /\ UNCHANGED <<remote, files>>
       \/ Abort(t)

-----------------------------------------------------------------------------
(* The transfer.                                                            *)

\* curl_easy_perform_retry_empty: an answer without a byte is asked for again.
Empty(t) ==
    /\ tool[t].pc = "perform"
    /\ IF 2 * tool[t].delay > MaxDelay
       THEN Abort(t)
       ELSE /\ Set(t, [tool[t] EXCEPT !.delay = 2 * @])
            /\ UNCHANGED <<remote, files>>

\* An answer begins.
Answer(t) ==
    /\ tool[t].pc = "perform"
    /\ \E served \in Contents, status \in {200, 500} :
          Set(t, [tool[t] EXCEPT !.pc = "data", !.served = served, !.status = status])
    /\ UNCHANGED <<remote, files>>

\* The transfer fails otherwise, or is cancelled by the progress callback.
Broken(t) == tool[t].pc \in {"perform", "data"} /\ Abort(t)

Received(t) == Append(tool[t].mac, tool[t].served[Len(tool[t].mac) + 1])

\* Mutant of Receive: a failed write is reported and forgotten.
ReceiveUnchecked(t) ==
    LET d == tool[t]
        path == d.path
    IN /\ d.pc = "data" /\ Len(d.mac) < Len(d.served)
       /\ Set(t, [d EXCEPT !.mac = Received(t)])
       /\ \/ path # None /\ files' = [files EXCEPT ![path].data = Append(@, Last(Received(t)))]
          \/ UNCHANGED files
       /\ UNCHANGED remote

\* get_process_data, dl_process_data: decrypt, add to the MAC, hand to the
\* status callback, write to the file; the callback may cancel, the write fail.
Receive(t) ==
    LET d == tool[t]
        path == d.path
    IN /\ d.pc = "data" /\ Len(d.mac) < Len(d.served)
       /\ \/ /\ Set(t, [d EXCEPT !.mac = Received(t)])
             /\ files' = IF path = None THEN files
                         ELSE [files EXCEPT ![path].data = Append(@, Last(Received(t)))]
             /\ UNCHANGED remote
          \/ Abort(t)

\* The answer is complete; its status is looked at only now.
EndOfData(t) ==
    /\ tool[t].pc = "data" /\ Len(tool[t].mac) = Len(tool[t].served)
    /\ IF tool[t].status = 200
       THEN Go(t, IF tool[t].path = None THEN "check" ELSE "close") /\ UNCHANGED <<remote, files>>
       ELSE Abort(t)

\* g_output_stream_close.
Close(t) ==
    /\ tool[t].pc = "close"
    /\ \/ Go(t, "check") /\ UNCHANGED <<remote, files>>
       \/ Abort(t)

MacMatches(t) == Padded(tool[t].mac) = Padded(remote)

\* chunked_cbc_mac_finish8 and memcmp.
Check(t) ==
    LET path == tool[t].path
    IN /\ tool[t].pc = "check"
       /\ IF MacMatches(t)
          THEN /\ Set(t, Idle)
               /\ files' = IF path = None THEN files
                           ELSE [files EXCEPT ![path].done = TRUE, ![path].by = User]
               /\ UNCHANGED remote
          ELSE Abort(t)

\* The tool is killed: its file stays.
Crash(t) ==
    /\ tool[t].pc # "idle" /\ Set(t, Idle)
    /\ files' = IF tool[t].created THEN [files EXCEPT ![tool[t].path].by = None] ELSE files
    /\ UNCHANGED remote

Init ==
    /\ remote \in Contents
    /\ files \in [Paths -> {None, [data |-> <<1>>, done |-> FALSE, by |-> User]}]
    /\ tool = [t \in Tools |-> Idle]

Next ==
    \E t \in Tools :
        \/ Start(t) \/ Create(t) \/ Api(t)
        \/ Empty(t) \/ Answer(t) \/ Broken(t) \/ Receive(t) \/ EndOfData(t)
        \/ Close(t) \/ Check(t) \/ Crash(t)

Spec == Init /\ [][Next]_vars

-----------------------------------------------------------------------------
\* A file whose download was reported as done holds the remote file, up to the
\* zeros the MAC is padded with: whatever was retried, cut, or could not be
\* written, what is on the disk is what was checked.
DoneIsWhole ==
    \A path \in Paths :
        files[path] # None /\ files[path].done => Padded(files[path].data) = Padded(remote)

\* Only what a killed tool left is in the way of a later download: every other
\* partial file belongs to a download that is still going on.
NoLeftovers ==
    \A path \in Paths :
        files[path] # None /\ files[path].by \in Tools =>
            LET d == tool[files[path].by]
            IN d.pc # "idle" /\ d.path = path /\ d.created

\* Between the look at a path and the creation of the file, and while it fails,
\* a download never changes or removes a file that is not its own.
OthersUntouched ==
    [][\A path \in Paths :
           files[path] # None /\ files'[path] # files[path] =>
               \E t \in Tools : files[path].by = t /\ tool[t] # tool'[t]]_vars
=============================================================================
