----------------------------- MODULE HttpClient -----------------------------
(***************************************************************************)
(* The persistent-connection HTTP client of mega/mega-http-client.c, the   *)
(* TCP connection it keeps in priv->conn, and the server at the other end. *)
(*                                                                         *)
(* The client is single threaded: at most one public call runs at a time.  *)
(* A call that may block (goto_state sends and receives headers, write and *)
(* read touch the socket) is split at every socket operation, one action   *)
(* for each iteration of the loop in goto_state, so that the server and    *)
(* the network act in between.  Callers hold streams (MegaHttpIOStream)    *)
(* named by the number of the POST that created them, and may keep a       *)
(* stream after a later POST unless Exclusive says they do not.            *)
(***************************************************************************)
EXTENDS Integers, Sequences

CONSTANTS
    Hosts,            \* host/port/https triples the callers post to
    NoHost,           \* priv->host == NULL, priv->conn == NULL
    RequestLengths,   \* request body lengths
    ResponseLengths,  \* Content-Length values the server sends
    Counts,           \* buffer sizes given to read and write
    IntRange,         \* number of values of a C int (2^32 in the build)
    HeaderLength,     \* bytes of a response before its body
    MaxRequests,      \* bound: POSTs in a behaviour
    Exclusive         \* callers release a stream before the next POST

ASSUME ConstantsAssumption ==
    /\ NoHost \notin Hosts
    /\ RequestLengths \subseteq Nat
    /\ ResponseLengths \subseteq Nat
    /\ Counts \subseteq Nat \ {0}
    /\ IntRange \in Nat \ {0}
    /\ HeaderLength \in Nat \ {0}
    /\ MaxRequests \in Nat
    /\ Exclusive \in BOOLEAN

VARIABLES
    \* MegaHttpClientPrivate
    connState,       \* conn_state
    host,            \* host, port and https
    expectedWrite,   \* expected_write_count
    expectedRead,    \* expected_read_count
    responseLength,  \* response_length
    headers,         \* response_headers: the two entries the client reads
    \* the connection in priv->conn and the server behind it
    peer,            \* the host it goes to, or NoHost
    srvReq,          \* request the server is receiving, 0 when none
    srvLeft,         \* body bytes of it still to come
    rx,              \* responses on the connection not yet read
    broken,          \* the server or the network has ended the connection
    \* callers
    request,         \* number of POSTs so far, the number of the current one
    streams,         \* live streams
    op,              \* call in progress, "idle" when none
    by, count,       \* its stream and its buffer size
    err, value       \* error class and return value of the last call

client == <<connState, host, expectedWrite, expectedRead, responseLength, headers>>
conn   == <<peer, srvReq, srvLeft, rx, broken>>
result == <<err, value>>
vars   == <<client, conn, request, streams, op, by, count, result>>

\* CONN_STATE_*, in the order of the enum: goto_state compares them with <.
NONE             == 0
INIT_CONNECTED   == 1
HEADERS_SENT     == 2
BODY_SENT        == 3
HEADERS_RECEIVED == 4
NONE_CONNECTED   == 5
FAILED           == 6
ConnStates       == NONE .. FAILED

\* What the caller learns: connect failures are GIO errors, the others are
\* MEGA_HTTP_CLIENT_ERROR_*.
Errors == {"none", "CONNECT", "CONNECTION_BROKEN", "SERVER_BUSY", "OTHER"}

\* A status line is 200/201, "500 Server Too Busy" or anything else; an
\* accepted one may come without Content-Length.
Statuses  == {"ok", "no_length", "busy", "error"}
Responses == [req : Nat, head : BOOLEAN, status : Statuses,
              length : Nat, keep : BOOLEAN, left : Nat]
NoHeaders == [length |-> 0, keep |-> FALSE]

Smaller(a, b) == IF a <= b THEN a ELSE b

\* atoi: the value modulo the width of int, as a signed number.
Atoi(n) == ((n + (IntRange \div 2)) % IntRange) - (IntRange \div 2)

ClientTypeOK ==
    /\ connState \in ConnStates
    /\ host \in Hosts \cup {NoHost}
    /\ expectedWrite \in Nat
    /\ expectedRead \in Int
    /\ responseLength \in Int
    /\ headers \in [length : Nat, keep : BOOLEAN]

ConnTypeOK ==
    /\ peer \in Hosts \cup {NoHost}
    /\ srvReq \in Nat
    /\ srvLeft \in Nat
    /\ rx \in Seq(Responses)
    /\ broken \in BOOLEAN

CallTypeOK ==
    /\ request \in Nat
    /\ streams \in SUBSET Nat
    /\ op \in {"idle", "write", "read", "length"}
    /\ by \in Nat
    /\ count \in Nat
    /\ err \in Errors
    /\ value \in Int

\* Everything is of its type; in particular the counts of bytes still to be
\* sent never go below zero (expected_write_count, mega-http-client.c:804).
TypeOK == ClientTypeOK /\ ConnTypeOK /\ CallTypeOK

Init ==
    /\ connState = NONE /\ host = NoHost
    /\ expectedWrite = 0 /\ expectedRead = 0 /\ responseLength = 0
    /\ headers = NoHeaders
    /\ peer = NoHost /\ srvReq = 0 /\ srvLeft = 0 /\ rx = << >> /\ broken = FALSE
    /\ request = 0 /\ streams = {}
    /\ op = "idle" /\ by = 0 /\ count = 0
    /\ err = "none" /\ value = 0

-----------------------------------------------------------------------------
(* Pieces of the calls. *)

\* do_disconnect: what the connection still carried is gone with it.
Disconnect ==
    /\ peer' = NoHost /\ srvReq' = 0 /\ srvLeft' = 0
    /\ rx' = << >> /\ broken' = FALSE

\* do_connect succeeds: a new connection, nothing on it.
Connect(h) ==
    /\ peer' = h /\ srvReq' = 0 /\ srvLeft' = 0
    /\ rx' = << >> /\ broken' = FALSE

\* The call returns v with error class e.
Return(e, v) ==
    /\ op' = "idle" /\ by' = 0 /\ count' = 0
    /\ err' = e /\ value' = v

\* goto_state's err label, and goto_state(FAILED) after a socket error.  What
\* a failed call leaves of a response's headers is never read again.
Fail(e) ==
    /\ connState' = FAILED
    /\ Disconnect
    /\ Return(e, -1)
    /\ UNCHANGED <<host, expectedWrite, expectedRead, responseLength, headers,
                   request, streams>>

\* The end of a response: goto_state(end_state), where NONE disconnects.
EndOfResponse(left) ==
    IF headers.keep
    THEN /\ connState' = NONE_CONNECTED
         /\ rx' = left
         /\ UNCHANGED <<peer, srvReq, srvLeft, broken>>
    ELSE connState' = NONE /\ Disconnect

\* The state a call asks goto_state for.
Target(o) == IF o = "write" THEN HEADERS_SENT ELSE HEADERS_RECEIVED

-----------------------------------------------------------------------------
(* mega_http_client_post.                                                   *)

\* Mutants of StateFor: the URL is not compared with the last one; an error
\* leaves a connection to go on with.
StateForAnyHost(h) == connState

StateForFailedKept(h) ==
    IF h # host THEN NONE ELSE IF connState = FAILED THEN NONE_CONNECTED ELSE connState

\* A change of host drops the connection before anything else.
StateFor(h) == IF h = host THEN connState ELSE NONE

\* POST number request + 1 to h is accepted: a stream for it is returned.
PostAccepted(h, len) ==
    /\ connState' = INIT_CONNECTED
    /\ host' = h
    /\ expectedWrite' = len /\ expectedRead' = -1 /\ responseLength' = -1
    /\ streams' = streams \cup {request + 1}
    /\ Return("none", 0)
    /\ UNCHANGED headers

\* POST number request + 1 to h fails: no stream, nothing connected.
PostFailed(h, e) ==
    /\ connState' = FAILED
    /\ host' = h
    /\ Disconnect
    /\ Return(e, -1)
    /\ UNCHANGED <<expectedWrite, expectedRead, responseLength, headers, streams>>

Post(h, len) ==
    /\ op = "idle" /\ request < MaxRequests
    /\ Exclusive => streams = {}
    /\ request' = request + 1
    /\ \/ /\ StateFor(h) = NONE_CONNECTED
          /\ PostAccepted(h, len)
          /\ UNCHANGED conn
       \/ /\ StateFor(h) \in {NONE, FAILED}
          /\ \/ Connect(h) /\ PostAccepted(h, len)
             \/ PostFailed(h, "CONNECT")
       \/ /\ StateFor(h) \notin {NONE, FAILED, NONE_CONNECTED}
          /\ PostFailed(h, "OTHER")

-----------------------------------------------------------------------------
(* mega_http_client_write, _read and _get_response_length: the checks made   *)
(* before the loop of goto_state, one action per iteration of the loop, and  *)
(* what each call does once the target state is reached.                     *)

\* Entry of call o on stream s with a buffer of n bytes.
Begin(o, s, n) ==
    /\ op = "idle" /\ s \in streams
    /\ \/ /\ o = "read" /\ connState \in {NONE, NONE_CONNECTED}
          /\ Return("none", 0)
          /\ UNCHANGED <<client, conn, request, streams>>
       \/ /\ connState \in {FAILED, NONE, NONE_CONNECTED} \/ Target(o) < connState
          /\ ~(o = "read" /\ connState \in {NONE, NONE_CONNECTED})
          /\ Fail("OTHER")
       \/ /\ connState \in INIT_CONNECTED .. Target(o)
          /\ op' = o /\ by' = s /\ count' = n
          /\ err' = "none" /\ value' = 0
          /\ UNCHANGED <<client, conn, request, streams>>

\* do_send_headers.  On a connection the other side has ended the bytes are
\* lost, whether or not the socket reports it.
SendHeaders ==
    /\ op # "idle" /\ connState = INIT_CONNECTED
    /\ \/ /\ connState' = HEADERS_SENT
          /\ srvReq' = IF broken THEN srvReq ELSE request
          /\ srvLeft' = IF broken THEN srvLeft ELSE expectedWrite
          /\ UNCHANGED <<host, expectedWrite, expectedRead, responseLength, headers,
                         peer, rx, broken, request, streams, op, by, count, result>>
       \/ broken /\ Fail("CONNECTION_BROKEN")

\* From HEADERS_SENT to BODY_SENT, only with the whole body written.
FinishBody ==
    /\ op # "idle" /\ connState = HEADERS_SENT /\ Target(op) > HEADERS_SENT
    /\ \/ /\ expectedWrite = 0
          /\ connState' = BODY_SENT
          /\ UNCHANGED <<host, expectedWrite, expectedRead, responseLength, headers,
                         conn, request, streams, op, by, count, result>>
       \/ expectedWrite # 0 /\ Fail("OTHER")

\* The bytes of a response that are on the connection.
Size(r) == r.left + (IF r.head THEN HeaderLength ELSE 0)

\* The responses left once the headers of the first of them are read.
HeadersRead(responses) ==
    IF Head(responses).left = 0 THEN Tail(responses)
                                ELSE [responses EXCEPT ![1].head = FALSE]

\* The responses left once n bytes of the first are read; headers that are
\* read as a body are headers no more.
Consume(n) ==
    IF n = Size(Head(rx)) THEN Tail(rx)
    ELSE [rx EXCEPT ![1] = [@ EXCEPT !.head = FALSE, !.left = Size(Head(rx)) - n]]

\* The end of do_receive_headers: headers h are accepted, and rest is what
\* comes after them.
AcceptHeaders(h, rest) ==
    /\ connState' = HEADERS_RECEIVED
    /\ headers' = h
    /\ expectedRead' = Atoi(h.length)
    /\ responseLength' = Atoi(h.length)
    /\ rx' = rest
    /\ UNCHANGED <<host, expectedWrite, peer, srvReq, srvLeft, broken,
                   request, streams, op, by, count, result>>

\* do_receive_headers on a response that is there to read from its first byte.
ReadHeaders ==
    /\ rx # << >> /\ Head(rx).head
    /\ \/ /\ Head(rx).status = "ok"
          /\ AcceptHeaders([length |-> Head(rx).length, keep |-> Head(rx).keep],
                           HeadersRead(rx))
       \/ Head(rx).status \in {"no_length", "error"} /\ Fail("OTHER")
       \/ Head(rx).status = "busy" /\ Fail("SERVER_BUSY")

\* do_receive_headers where body bytes of an older response come first.  They
\* are text like any other: refused, waited on for the end of a line, or read
\* as a status line and headers, alone or with the lines of the next response
\* as the last of these.
ReadLeftover ==
    /\ rx # << >> /\ ~Head(rx).head
    /\ \/ \E e \in {"OTHER", "SERVER_BUSY", "CONNECTION_BROKEN"} : Fail(e)
       \/ \E length \in ResponseLengths, keep \in BOOLEAN :
             \E rest \in {Consume(n) : n \in 1 .. Size(Head(rx))}
                         \cup (IF Tail(rx) = << >> THEN {} ELSE {HeadersRead(Tail(rx))}) :
                AcceptHeaders([length |-> length, keep |-> keep], rest)

\* Mutant of ReceiveHeaders: the socket has no timeout.
ReceiveHeadersNoTimeout ==
    /\ op # "idle" /\ connState = BODY_SENT
    /\ \/ ReadHeaders
       \/ ReadLeftover
       \/ rx = << >> /\ broken /\ Fail("CONNECTION_BROKEN")

\* do_receive_headers: the end of the connection and the 60 s socket timeout
\* give CONNECTION_BROKEN.
ReceiveHeaders ==
    /\ op # "idle" /\ connState = BODY_SENT
    /\ \/ ReadHeaders
       \/ ReadLeftover
       \/ rx = << >> /\ Fail("CONNECTION_BROKEN")

\* Mutants of WriteBody: the write is not compared with what was announced; a
\* short write is taken for a whole one.
WriteBodyUnchecked ==
    /\ op = "write" /\ connState = HEADERS_SENT
    /\ \/ /\ \E n \in 1 .. count :
                /\ expectedWrite' = expectedWrite - n
                /\ srvLeft' = IF broken THEN srvLeft ELSE srvLeft - n
                /\ Return("none", n)
          /\ UNCHANGED <<connState, host, expectedRead, responseLength, headers,
                         peer, srvReq, rx, broken, request, streams>>
       \/ broken /\ Fail("CONNECTION_BROKEN")

\* The write itself: too many bytes are refused and leave the state alone, a
\* short write takes fewer.
WriteBody ==
    /\ op = "write" /\ connState = HEADERS_SENT
    /\ \/ /\ count > expectedWrite
          /\ Return("OTHER", -1)
          /\ UNCHANGED <<client, conn, request, streams>>
       \/ /\ count <= expectedWrite
          /\ \E n \in 1 .. count :
                /\ expectedWrite' = expectedWrite - n
                /\ srvLeft' = IF broken THEN srvLeft ELSE srvLeft - n
                /\ Return("none", n)
          /\ UNCHANGED <<connState, host, expectedRead, responseLength, headers,
                         peer, srvReq, rx, broken, request, streams>>
       \/ count <= expectedWrite /\ broken /\ Fail("CONNECTION_BROKEN")

\* Mutant of ReadLeft: the bytes asked for are subtracted, not the bytes read.
ReadLeftAsked(n) ==
    IF expectedRead > 0 THEN expectedRead - Smaller(count, expectedRead) ELSE expectedRead

\* expected_read_count after n bytes: only a positive one counts down.
ReadLeft(n) == IF expectedRead > 0 THEN expectedRead - n ELSE expectedRead

\* The read itself.  The end of the connection is returned as 0 bytes, with
\* no error and no change of state; a reset or a timeout as CONNECTION_BROKEN.
ReadBody ==
    /\ op = "read" /\ connState = HEADERS_RECEIVED
    /\ \/ /\ expectedRead = 0
          /\ EndOfResponse(rx)
          /\ Return("none", 0)
          /\ UNCHANGED <<host, expectedWrite, expectedRead, responseLength, headers,
                         request, streams>>
       \/ /\ expectedRead # 0 /\ rx # << >>
          /\ \E n \in 1 .. Smaller(Size(Head(rx)),
                                   IF expectedRead > 0 THEN Smaller(count, expectedRead)
                                                       ELSE count) :
                /\ expectedRead' = ReadLeft(n)
                /\ IF ReadLeft(n) = 0
                   THEN EndOfResponse(Consume(n))
                   ELSE /\ rx' = Consume(n)
                        /\ UNCHANGED <<connState, peer, srvReq, srvLeft, broken>>
                /\ Return("none", n)
          /\ UNCHANGED <<host, expectedWrite, responseLength, headers, request, streams>>
       \/ /\ expectedRead # 0 /\ rx = << >> /\ broken
          /\ Return("none", 0)
          /\ UNCHANGED <<client, conn, request, streams>>
       \/ expectedRead # 0 /\ rx = << >> /\ Fail("CONNECTION_BROKEN")

\* mega_http_client_get_response_length.
GetLength ==
    /\ op = "length" /\ connState = HEADERS_RECEIVED
    /\ IF responseLength < 0 THEN Return("OTHER", -1) ELSE Return("none", responseLength)
    /\ UNCHANGED <<client, conn, request, streams>>

\* Mutant of Close: the Connection header decides, not the state.
CloseKeeps(s) ==
    /\ op = "idle" /\ s \in streams
    /\ streams' = streams \ {s}
    /\ Return("none", 0)
    /\ IF connState \notin {NONE, FAILED} /\ headers.keep
       THEN connState' = NONE_CONNECTED /\ UNCHANGED conn
       ELSE connState' = NONE /\ Disconnect
    /\ UNCHANGED <<host, expectedWrite, expectedRead, responseLength, headers, request>>

\* mega_http_client_close, called when stream s is closed or disposed of.
Close(s) ==
    /\ op = "idle" /\ s \in streams
    /\ streams' = streams \ {s}
    /\ Return("none", 0)
    /\ IF connState = NONE_CONNECTED
       THEN UNCHANGED <<connState, conn>>
       ELSE connState' = NONE /\ Disconnect
    /\ UNCHANGED <<host, expectedWrite, expectedRead, responseLength, headers, request>>

-----------------------------------------------------------------------------
(* The server and the network.                                              *)

\* A response of which left of the length bytes are sent.
Deliver(st, length, keep, left) ==
    /\ rx' = Append(rx, [req |-> srvReq, head |-> TRUE, status |-> st,
                         length |-> length, keep |-> keep, left |-> left])
    /\ broken' = (left # length)

\* The server answers the request it has received, or refuses it before the
\* body is complete, with the response whole or cut short: then the connection
\* ends after the bytes it did send.
Respond ==
    /\ peer # NoHost /\ ~broken /\ srvReq # 0
    /\ \E st \in Statuses, len \in ResponseLengths, keep \in BOOLEAN :
          /\ srvLeft = 0 \/ st \in {"busy", "error"}
          /\ \E left \in 0 .. len : Deliver(st, len, keep, left)
    /\ srvReq' = 0
    /\ UNCHANGED <<client, peer, srvLeft, request, streams, op, by, count, result>>

\* The connection ends, with what is on the way delivered or lost.
Break ==
    /\ peer # NoHost /\ ~broken
    /\ broken' = TRUE
    /\ rx' \in {rx, << >>}
    /\ UNCHANGED <<client, peer, srvReq, srvLeft, request, streams, op, by, count, result>>

-----------------------------------------------------------------------------
InCall == SendHeaders \/ FinishBody \/ ReceiveHeaders \/ WriteBody \/ ReadBody \/ GetLength

Network == Respond \/ Break

Next ==
    \/ \E h \in Hosts, len \in RequestLengths : Post(h, len)
    \/ \E o \in {"write", "read", "length"}, s \in streams, n \in Counts : Begin(o, s, n)
    \/ \E s \in streams : Close(s)
    \/ InCall
    \/ Network

\* A call in progress runs on; nothing makes callers call, servers answer or
\* connections last.
Spec == Init /\ [][Next]_vars /\ WF_vars(InCall)

-----------------------------------------------------------------------------
(* Properties.                                                              *)

\* A connection exists exactly in the states that say so: do_disconnect and
\* do_connect are called on every path that needs them.
Linked == connState \in {NONE, FAILED} <=> peer = NoHost

\* A request never goes to a connection made for another host, port or
\* scheme, however hosts alternate over one client.
RightHost == peer # NoHost => peer = host

\* The client never believes in a connection it does not have, nor keeps one it
\* has given up or that leads elsewhere (do_connect, do_disconnect).
Connected == Linked /\ RightHost

\* When a request starts on a connection, new or kept from the one before,
\* the server has nothing of an earlier request to wait for and the
\* connection carries no bytes of an earlier response.
CleanConnection ==
    connState \in {INIT_CONNECTED, NONE_CONNECTED} => rx = << >> /\ srvReq = 0

\* While the body is sent, client and server agree on how much of it is to
\* come, however the writes are split and whatever the server has answered,
\* and a whole body has been sent once the client waits for the answer.
RequestFraming ==
    (connState \in {HEADERS_SENT, BODY_SENT} /\ ~broken) =>
        /\ srvLeft = expectedWrite
        /\ connState = BODY_SENT => expectedWrite = 0
        /\ IF rx = << >> THEN srvReq = request ELSE srvReq = 0

\* What is there to read belongs to the current request, is a whole response
\* before its headers are read and never more than is expected after.
ResponseFraming ==
    /\ Len(rx) <= 1
    /\ rx # << >> =>
        /\ rx[1].req = request
        /\ connState \in {HEADERS_SENT, BODY_SENT, HEADERS_RECEIVED}
        /\ rx[1].left <= rx[1].length
        /\ rx[1].head <=> connState # HEADERS_RECEIVED
        /\ connState = HEADERS_RECEIVED => rx[1].left <= expectedRead
    /\ connState = HEADERS_RECEIVED =>
        /\ srvReq = 0 /\ expectedRead >= 0
        /\ ~broken => expectedRead = (IF rx = << >> THEN 0 ELSE rx[1].left)

\* Client and server agree on where requests and responses end, on new and on
\* kept connections, whatever is cut short, split or broken.
Framing == CleanConnection /\ RequestFraming /\ ResponseFraming

\* "After non HTTP error, the client will restart the connection for the next
\* request" (mega-http-client.c:34): out of FAILED there is only a new
\* connection, never the one the error was seen on.
ReconnectAfterError ==
    [][connState = FAILED /\ connState' # FAILED =>
        /\ peer = NoHost
        /\ connState' = INIT_CONNECTED => peer' = host' /\ ~broken' /\ rx' = << >>]_vars

\* The headers a call accepts (do_receive_headers) are those of the answer to
\* the current request, on new and on kept connections: a kept one never
\* carries bytes of an earlier response that could be taken for them.
AnswersOwnRequest ==
    [][connState = BODY_SENT /\ connState' = HEADERS_RECEIVED =>
        rx[1].head /\ rx[1].req = request]_vars

\* Every call returns: the loop of goto_state advances or fails, and the
\* socket timeout bounds every wait.
CallsReturn == (op # "idle") ~> (op = "idle")
=============================================================================
