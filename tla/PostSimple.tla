----------------------------- MODULE PostSimple -----------------------------
(***************************************************************************)
(* mega_http_client_post_simple: one request and its whole response over   *)
(* HttpClient, as a caller of post, write, get_response_length, read and   *)
(* close.  It is the only caller the Mega session has (oldmega.c:1209).    *)
(***************************************************************************)
EXTENDS HttpClient

CONSTANT MaxSimple     \* 256 MiB: the largest response it accepts

ASSUME MaxSimpleAssumption == MaxSimple \in Nat

VARIABLES
    pc,          \* where it is; "idle" between requests
    todo,        \* body bytes write_all has still to write
    expected,    \* response length it allocated for
    got,         \* response bytes read_all has
    owner,       \* whose response the last of them came from
    outcome      \* "none", "ok" or the class of the error it returns

simple == <<pc, todo, expected, got, owner, outcome>>

SInit ==
    /\ Init
    /\ pc = "idle" /\ todo = 0 /\ expected = 0 /\ got = 0 /\ owner = 0 /\ outcome = "none"

\* mega_http_client_post; without a stream there is nothing to release.
Start(h, n) ==
    /\ pc = "idle"
    /\ Post(h, n)
    /\ pc' = IF err' # "none" THEN "idle" ELSE IF n > 0 THEN "write" ELSE "length"
    /\ todo' = n /\ expected' = 0 /\ got' = 0 /\ owner' = 0
    /\ outcome' = IF err' # "none" THEN err' ELSE "none"

\* A call on the stream of the current request, with its return to w.
Invoke(o, n, w) == Begin(o, request, n) /\ pc' = w /\ UNCHANGED <<todo, expected, got, owner, outcome>>

\* Mutant of Finish: an error returns without g_object_unref(io).
FinishLeaks(e) ==
    /\ pc' = (IF e = "ok" THEN "unref" ELSE "idle") /\ outcome' = e
    /\ UNCHANGED <<vars, todo, expected, got, owner>>

\* Give up or finish with result e: what is left is g_object_unref(io).
Finish(e) == pc' = "unref" /\ outcome' = e /\ UNCHANGED <<vars, todo, expected, got, owner>>

\* g_output_stream_write_all: write what is left until nothing is.
WriteMore == pc = "write" /\ Invoke("write", todo, "written")

Written ==
    /\ pc = "written" /\ op = "idle"
    /\ \/ err # "none" /\ Finish(err)
       \/ /\ err = "none"
          /\ todo' = todo - value
          /\ pc' = IF todo = value THEN "length" ELSE "write"
          /\ UNCHANGED <<vars, expected, got, owner, outcome>>

\* goto_state(HEADERS_RECEIVED), which get_response_length does again.
AskLength == pc = "length" /\ Invoke("length", 0, "answered")

\* The checks on the response length.
Answered ==
    /\ pc = "answered" /\ op = "idle"
    /\ \/ err # "none" /\ Finish(err)
       \/ err = "none" /\ value > MaxSimple /\ Finish("OTHER")
       \/ err = "none" /\ value = 0 /\ Finish("ok")
       \/ /\ err = "none" /\ value \in 1 .. MaxSimple
          /\ pc' = "read" /\ expected' = value
          /\ UNCHANGED <<vars, todo, got, owner, outcome>>

\* g_input_stream_read_all: read until the expected bytes or the end of the stream.
ReadMore == pc = "read" /\ Invoke("read", expected - got, "reading")

\* Mutant of ReadDone: what read_all got is not compared with what was expected.
ReadDoneShortOk ==
    /\ pc = "reading" /\ op = "idle"
    /\ \/ err # "none" /\ Finish(err)
       \/ err = "none" /\ value = 0 /\ Finish("ok")
       \/ err = "none" /\ value > 0 /\ got + value = expected
          /\ pc' = "unref" /\ outcome' = "ok" /\ got' = expected
          /\ UNCHANGED <<vars, todo, expected, owner>>
       \/ err = "none" /\ value > 0 /\ got + value # expected
          /\ pc' = "read" /\ got' = got + value
          /\ UNCHANGED <<vars, todo, expected, owner, outcome>>

\* g_input_stream_read_all returns, and the bytes it got are compared with
\* what was expected.
ReadDone ==
    /\ pc = "reading" /\ op = "idle"
    /\ \/ err # "none" /\ Finish(err)
       \/ err = "none" /\ value = 0 /\ Finish("OTHER")
       \/ err = "none" /\ value > 0 /\ got + value = expected
          /\ pc' = "unref" /\ outcome' = "ok" /\ got' = expected
          /\ UNCHANGED <<vars, todo, expected, owner>>
       \/ err = "none" /\ value > 0 /\ got + value # expected
          /\ pc' = "read" /\ got' = got + value
          /\ UNCHANGED <<vars, todo, expected, owner, outcome>>

\* g_object_unref(io) disposes of the stream, which closes it.
Unref == pc = "unref" /\ Close(request) /\ pc' = "idle" /\ UNCHANGED <<todo, expected, got, owner, outcome>>

\* A step of the call in progress.
Step ==
    /\ InCall
    /\ owner' = IF op = "read" /\ rx # << >> /\ value' > 0 THEN Head(rx).req ELSE owner
    /\ UNCHANGED <<pc, todo, expected, got, outcome>>

Progress ==
    \/ Step
    \/ WriteMore \/ Written \/ AskLength \/ Answered \/ ReadMore \/ ReadDone \/ Unref

SNext ==
    \/ \E h \in Hosts, n \in RequestLengths : Start(h, n)
    \/ Progress
    \/ Network /\ UNCHANGED simple

\* One thread runs the call to its end.
SSpec == SInit /\ [][SNext]_<<vars, simple>> /\ WF_<<vars, simple>>(Progress)

-----------------------------------------------------------------------------
Done == pc = "idle" /\ request > 0

\* "Response length over 256 MiB not supported (for post_simple)"
\* (mega-http-client.c:740).
SizeLimit == Done /\ outcome = "ok" => headers.length <= MaxSimple

\* Between requests no stream is left open, and the connection is kept only
\* when the last request succeeded.
NothingLeftOpen ==
    pc = "idle" =>
        /\ streams = {} /\ op = "idle"
        /\ connState \in {NONE, NONE_CONNECTED, FAILED}
        /\ connState = NONE_CONNECTED => outcome = "ok" /\ headers.keep

\* The detailed call implements the promise of HttpExchange.
Answer ==
    [kind      |-> IF pc # "idle" \/ request = 0 THEN "pending"
                   ELSE IF outcome = "ok" THEN "body" ELSE "error",
     req       |-> IF ~Done \/ outcome # "ok" THEN 0 ELSE IF got > 0 THEN owner ELSE request,
     announced |-> IF Done /\ outcome = "ok" THEN headers.length ELSE 0,
     received  |-> IF Done /\ outcome = "ok" THEN got ELSE 0]

Promise == INSTANCE HttpExchange WITH
    number <- request, busy <- pc # "idle", answer <- Answer, Lengths <- ResponseLengths
=============================================================================
