-------------------------- MODULE HttpClientProofs --------------------------
(***************************************************************************)
(* Proofs about HttpClient, for any hosts, lengths, buffer sizes, width of *)
(* int and number of requests, and for streams used one at a time or not;  *)
(* and about PostSimple over it, for any limit: what is left between       *)
(* requests, and that the call keeps the promise of HttpExchange; and      *)
(* about ApiCall, for any delays and any number of commands.               *)
(***************************************************************************)
EXTENDS PostSimple, ApiCall, SequenceTheorems, FiniteSetTheorems, TLAPS

\* While the body is sent the client and the server count the same bytes: the
\* server's count stays a natural number because the client's does.
SameCount == connState = HEADERS_SENT /\ ~broken => srvLeft = expectedWrite

TypeInv == TypeOK /\ SameCount

\* atoi returns an int for every length.
LEMMA AtoiInt == \A n \in Nat : Atoi(n) \in Int
  BY ConstantsAssumption DEF Atoi

\* The bytes of a response are a natural number.
LEMMA SizeNat == \A r \in Responses : Size(r) \in Nat
  BY ConstantsAssumption DEF Size, Responses

\* What is left to read after n bytes is again a sequence of responses.
LEMMA ConsumeType ==
  ASSUME rx \in Seq(Responses), rx # << >>, NEW n \in Nat, n <= Size(Head(rx))
  PROVE  Consume(n) \in Seq(Responses)
<1>1. CASE n = Size(Head(rx))
  BY <1>1, HeadTailProperties DEF Consume
<1>2. CASE n # Size(Head(rx))
  <2>1. Len(rx) \in Nat \ {0} /\ rx[1] = Head(rx) /\ rx[1] \in Responses
    BY EmptySeq, ElementOfSeq
  <2> DEFINE k == Size(Head(rx)) - n
  <2> DEFINE r == [rx[1] EXCEPT !.head = FALSE, !.left = k]
  <2>2. k \in Nat
    <3>1. Size(Head(rx)) \in Nat
      BY <2>1, SizeNat
    <3>2. QED BY <3>1
  <2>3. Consume(n) = [rx EXCEPT ![1] = r]
    BY <1>2 DEF Consume
  <2> HIDE DEF k
  <2>4. r \in Responses
    BY <2>1, <2>2 DEF Responses
  <2>5. [rx EXCEPT ![1] = r] \in Seq(Responses)
    BY <2>1, <2>4, ExceptSeq
  <2>6. QED BY <2>3, <2>5
<1>3. QED BY <1>1, <1>2

\* Reading the headers of the first response leaves a sequence of responses.
LEMMA HeadReadType ==
  ASSUME NEW s \in Seq(Responses), s # << >>
  PROVE  /\ Head(s) \in Responses /\ Head(s) = s[1] /\ Len(s) \in Nat \ {0}
         /\ Tail(s) \in Seq(Responses)
         /\ HeadersRead(s) \in Seq(Responses)
<1>1. /\ Head(s) \in Responses /\ Head(s) = s[1] /\ Len(s) \in Nat \ {0}
      /\ Tail(s) \in Seq(Responses)
  BY HeadTailProperties, EmptySeq, ElementOfSeq
<1> DEFINE r == [s[1] EXCEPT !.head = FALSE]
<1>2. r \in Responses
  BY <1>1 DEF Responses
<1>3. [s EXCEPT ![1] = r] \in Seq(Responses)
  BY <1>1, <1>2, ExceptSeq
<1>4. QED BY <1>1, <1>3 DEF HeadersRead

\* The headers a call accepts give a length and say whether the connection is
\* kept, and what is after them is again a sequence of responses.
LEMMA AcceptedType ==
  ASSUME rx \in Seq(Responses), ReadHeaders \/ ReadLeftover
  PROVE  \/ \E e \in Errors \ {"none"} : Fail(e)
         \/ \E h \in [length : Nat, keep : BOOLEAN], rest \in Seq(Responses) :
               AcceptHeaders(h, rest)
<1>1. CASE ReadHeaders
  <2>1. CASE AcceptHeaders([length |-> Head(rx).length, keep |-> Head(rx).keep],
                           HeadersRead(rx))
    <3>1. [length |-> Head(rx).length, keep |-> Head(rx).keep] \in [length : Nat, keep : BOOLEAN]
      BY <1>1, HeadReadType DEF ReadHeaders, Responses
    <3>2. HeadersRead(rx) \in Seq(Responses)
      BY <1>1, HeadReadType DEF ReadHeaders
    <3>3. QED BY <2>1, <3>1, <3>2
  <2>2. QED BY <1>1, <2>1 DEF ReadHeaders, Errors
<1>2. CASE ReadLeftover
  <2>1. ASSUME NEW length \in ResponseLengths, NEW keep \in BOOLEAN,
               NEW rest \in {Consume(n) : n \in 1 .. Size(Head(rx))}
                            \cup (IF Tail(rx) = << >> THEN {} ELSE {HeadersRead(Tail(rx))}),
               AcceptHeaders([length |-> length, keep |-> keep], rest)
        PROVE  \E h \in [length : Nat, keep : BOOLEAN], t \in Seq(Responses) :
                 AcceptHeaders(h, t)
    <3>1. [length |-> length, keep |-> keep] \in [length : Nat, keep : BOOLEAN]
      BY ConstantsAssumption
    <3>2. rx # << >> /\ Head(rx) \in Responses /\ Tail(rx) \in Seq(Responses)
      BY <1>2, HeadReadType DEF ReadLeftover
    <3>3. rest \in Seq(Responses)
      <4>1. CASE Tail(rx) # << >> /\ rest = HeadersRead(Tail(rx))
        BY <3>2, <4>1, HeadReadType
      <4>2. ASSUME NEW n \in 1 .. Size(Head(rx)), rest = Consume(n)
            PROVE  rest \in Seq(Responses)
        <5>1. n \in Nat /\ n <= Size(Head(rx))
          BY <3>2, SizeNat
        <5>2. QED BY <3>2, <4>2, <5>1, ConsumeType
      <4>3. QED BY <4>1, <4>2
    <3>4. QED BY <2>1, <3>1, <3>3
  <2>2. CASE \E e \in {"OTHER", "SERVER_BUSY", "CONNECTION_BROKEN"} : Fail(e)
    BY <2>2 DEF Errors
  <2>3. QED BY <1>2, <2>1, <2>2 DEF ReadLeftover
<1>3. QED BY <1>1, <1>2

\* What a server appends is a response.
LEMMA RespondType ==
  ASSUME TypeInv, Respond
  PROVE  rx' \in Seq(Responses) /\ broken' \in BOOLEAN
<1>1. PICK st \in Statuses, len \in ResponseLengths, keep \in BOOLEAN :
        \E left \in 0 .. len : Deliver(st, len, keep, left)
  BY DEF Respond
<1>2. PICK left \in 0 .. len : Deliver(st, len, keep, left)
  BY <1>1
<1>3. [req |-> srvReq, head |-> TRUE, status |-> st,
       length |-> len, keep |-> keep, left |-> left] \in Responses
  BY ConstantsAssumption DEF Responses, TypeInv, TypeOK, ConnTypeOK
<1>4. rx' \in Seq(Responses)
  BY <1>2, <1>3, AppendProperties DEF Deliver, TypeInv, TypeOK, ConnTypeOK
<1>5. broken' \in BOOLEAN
  BY <1>2 DEF Deliver
<1>6. QED BY <1>4, <1>5

\* A connection that is dropped or new is well typed.
LEMMA NothingOnIt ==
  ASSUME NEW h \in Hosts \cup {NoHost}, Disconnect \/ Connect(h)
  PROVE  ConnTypeOK' /\ ~broken'
<1>1. rx' \in Seq(Responses)
  BY EmptySeq DEF Disconnect, Connect
<1>2. peer' \in Hosts \cup {NoHost} /\ srvReq' \in Nat /\ srvLeft' \in Nat
  BY DEF Disconnect, Connect
<1>3. broken' \in BOOLEAN /\ ~broken'
  BY DEF Disconnect, Connect
<1>4. QED BY <1>1, <1>2, <1>3 DEF ConnTypeOK

\* A call that fails leaves well-typed state.
LEMMA FailType ==
  ASSUME TypeInv, NEW e \in Errors, Fail(e)
  PROVE  TypeInv'
<1>1. ConnTypeOK'
  BY NothingOnIt DEF Fail
<1>2. ClientTypeOK' /\ CallTypeOK' /\ SameCount'
  BY DEF Fail, Return, TypeInv, TypeOK, ClientTypeOK, CallTypeOK, SameCount,
         ConnStates, NONE, FAILED, HEADERS_SENT
<1>3. QED BY <1>1, <1>2 DEF TypeInv, TypeOK

\* The end of a response leaves a well-typed connection.
LEMMA EndOfResponseType ==
  ASSUME TypeInv, NEW left \in Seq(Responses), EndOfResponse(left)
  PROVE  ConnTypeOK' /\ connState' \in {NONE, NONE_CONNECTED}
<1>1. CASE headers.keep
  BY <1>1 DEF EndOfResponse, TypeInv, TypeOK, ConnTypeOK
<1>2. CASE ~headers.keep
  BY <1>2, NothingOnIt DEF EndOfResponse
<1>3. QED BY <1>1, <1>2

\* Reading part of a body or the end of it keeps the types.
LEMMA ReadBodyType ==
  ASSUME TypeInv, ReadBody
  PROVE  TypeInv'
<1> USE DEF NONE, HEADERS_SENT, HEADERS_RECEIVED, NONE_CONNECTED, FAILED, ConnStates,
            Errors, client, conn, result
<1>1. CASE expectedRead = 0
  <2>1. EndOfResponse(rx) /\ Return("none", 0)
        /\ UNCHANGED <<host, expectedWrite, expectedRead, responseLength, headers,
                       request, streams>>
    BY <1>1 DEF ReadBody
  <2>2. ConnTypeOK' /\ connState' \in {NONE, NONE_CONNECTED}
    BY <2>1, EndOfResponseType DEF TypeInv, TypeOK, ConnTypeOK
  <2>3. ClientTypeOK' /\ CallTypeOK' /\ SameCount'
    BY <2>1, <2>2 DEF Return, TypeInv, TypeOK, ClientTypeOK, CallTypeOK, SameCount
  <2>4. QED BY <2>2, <2>3 DEF TypeInv, TypeOK
<1>2. CASE expectedRead # 0 /\ rx # << >>
  <2> DEFINE most == Smaller(Size(Head(rx)),
                       IF expectedRead > 0 THEN Smaller(count, expectedRead) ELSE count)
  <2>1. CASE Fail("CONNECTION_BROKEN")
    BY <2>1, FailType
  <2>2. ASSUME NEW n \in 1 .. most,
               expectedRead' = ReadLeft(n),
               IF ReadLeft(n) = 0
               THEN EndOfResponse(Consume(n))
               ELSE rx' = Consume(n) /\ UNCHANGED <<connState, peer, srvReq, srvLeft, broken>>,
               Return("none", n),
               UNCHANGED <<host, expectedWrite, responseLength, headers, request, streams>>
        PROVE  TypeInv'
    <3>1. Size(Head(rx)) \in Nat
      BY <1>2, HeadReadType, SizeNat DEF TypeInv, TypeOK, ConnTypeOK
    <3>2. n \in Nat /\ n <= Size(Head(rx))
      BY <3>1 DEF TypeInv, TypeOK, ClientTypeOK, CallTypeOK, Smaller
    <3>3. Consume(n) \in Seq(Responses)
      BY <1>2, <3>2, ConsumeType DEF TypeInv, TypeOK, ConnTypeOK
    <3>4. ConnTypeOK' /\ connState' \in {NONE, NONE_CONNECTED, connState}
      BY <2>2, <3>3, EndOfResponseType DEF TypeInv, TypeOK, ConnTypeOK
    <3>5. expectedRead' \in Int
      BY <2>2, <3>2 DEF ReadLeft, TypeInv, TypeOK, ClientTypeOK
    <3>6. ClientTypeOK' /\ CallTypeOK' /\ SameCount'
      BY <2>2, <3>2, <3>4, <3>5
      DEF Return, ReadBody, TypeInv, TypeOK, ClientTypeOK, CallTypeOK, SameCount
    <3>7. QED BY <3>4, <3>6 DEF TypeInv, TypeOK
  <2>3. QED BY <1>2, <2>1, <2>2 DEF ReadBody
<1>3. CASE expectedRead # 0 /\ rx = << >>
  <2>1. CASE Fail("CONNECTION_BROKEN")
    BY <2>1, FailType
  <2>2. CASE Return("none", 0) /\ UNCHANGED <<client, conn, request, streams>>
    BY <2>2 DEF Return, TypeInv, TypeOK, ClientTypeOK, ConnTypeOK, CallTypeOK, SameCount
  <2>3. QED BY <1>3, <2>1, <2>2 DEF ReadBody
<1>4. QED BY <1>1, <1>2, <1>3

\* The steps of callers that read and write buffers of any size, as post_simple
\* does: read_all and write_all ask for what is left.
AnyStep ==
    \/ \E h \in Hosts, len \in RequestLengths : Post(h, len)
    \/ \E o \in {"write", "read", "length"}, s \in streams, n \in Nat : Begin(o, s, n)
    \/ \E s \in streams : Close(s)
    \/ InCall
    \/ Network

LEMMA NextIsStep == ASSUME [Next]_vars PROVE [AnyStep]_vars
BY ConstantsAssumption DEF Next, AnyStep

\* Every step keeps the types and the two counts together.
LEMMA TypeStep ==
  ASSUME TypeInv, [AnyStep]_vars
  PROVE  TypeInv'
<1> USE ConstantsAssumption
    DEF NONE, INIT_CONNECTED, HEADERS_SENT, BODY_SENT, HEADERS_RECEIVED,
        NONE_CONNECTED, FAILED, ConnStates, Errors, client, conn, result
<1>1. ASSUME NEW h \in Hosts, NEW len \in RequestLengths, Post(h, len)
      PROVE  TypeInv'
  <2>1. ConnTypeOK' /\ SameCount'
    BY <1>1, NothingOnIt
    DEF Post, PostAccepted, PostFailed, StateFor, TypeInv, TypeOK, ConnTypeOK, SameCount
  <2>2. ClientTypeOK' /\ CallTypeOK'
    <3>1. request' \in Nat /\ request + 1 \in Nat
      BY <1>1 DEF Post, TypeInv, TypeOK, CallTypeOK
    <3>2. CASE PostAccepted(h, len)
      BY <3>1, <3>2 DEF PostAccepted, Return, TypeInv, TypeOK, ClientTypeOK, CallTypeOK
    <3>3. ASSUME NEW e \in Errors, PostFailed(h, e)
          PROVE  ClientTypeOK' /\ CallTypeOK'
      BY <3>1, <3>3 DEF PostFailed, Return, TypeInv, TypeOK, ClientTypeOK, CallTypeOK
    <3>4. QED BY <1>1, <3>2, <3>3 DEF Post
  <2>3. QED BY <2>1, <2>2 DEF TypeInv, TypeOK
<1>2. ASSUME NEW o \in {"write", "read", "length"}, NEW s \in streams, NEW n \in Nat,
             Begin(o, s, n)
      PROVE  TypeInv'
  <2>1. CASE Fail("OTHER")
    BY <2>1, FailType
  <2>2. CASE UNCHANGED <<client, conn, request, streams>>
    BY <1>2, <2>2
    DEF Begin, Fail, Return, TypeInv, TypeOK, ClientTypeOK, ConnTypeOK, CallTypeOK, SameCount
  <2>3. QED BY <1>2, <2>1, <2>2 DEF Begin
<1>3. ASSUME NEW s \in streams, Close(s)
      PROVE  TypeInv'
  <2>1. ConnTypeOK' /\ SameCount'
    <3>1. CASE connState = NONE_CONNECTED
      BY <1>3, <3>1 DEF Close, TypeInv, TypeOK, ConnTypeOK, SameCount
    <3>2. CASE connState # NONE_CONNECTED
      BY <1>3, <3>2, NothingOnIt DEF Close, SameCount
    <3>3. QED BY <3>1, <3>2
  <2>2. ClientTypeOK' /\ CallTypeOK'
    BY <1>3 DEF Close, Return, TypeInv, TypeOK, ClientTypeOK, CallTypeOK
  <2>3. QED BY <2>1, <2>2 DEF TypeInv, TypeOK
<1>4. CASE SendHeaders
  <2>1. CASE Fail("CONNECTION_BROKEN")
    BY <2>1, FailType
  <2>2. CASE connState' = HEADERS_SENT
    <3>1. ConnTypeOK' /\ SameCount'
      BY <1>4, <2>2
      DEF SendHeaders, Fail, TypeInv, TypeOK, ClientTypeOK, ConnTypeOK, CallTypeOK, SameCount
    <3>2. ClientTypeOK' /\ CallTypeOK'
      <4>1. UNCHANGED <<host, expectedWrite, expectedRead, responseLength, headers,
                        request, streams, op, by, count, result>>
        BY <1>4, <2>2 DEF SendHeaders, Fail
      <4>2. QED BY <2>2, <4>1 DEF TypeInv, TypeOK, ClientTypeOK, CallTypeOK
    <3>3. QED BY <3>1, <3>2 DEF TypeInv, TypeOK
  <2>3. QED BY <1>4, <2>1, <2>2 DEF SendHeaders
<1>5. CASE FinishBody
  <2>1. CASE Fail("OTHER")
    BY <2>1, FailType
  <2>2. CASE connState' = BODY_SENT
    <3>1. ConnTypeOK' /\ SameCount'
      BY <1>5, <2>2 DEF FinishBody, Fail, TypeInv, TypeOK, ConnTypeOK, SameCount
    <3>2. ClientTypeOK' /\ CallTypeOK'
      <4>1. UNCHANGED <<host, expectedWrite, expectedRead, responseLength, headers,
                        request, streams, op, by, count, result>>
        BY <1>5, <2>2 DEF FinishBody, Fail
      <4>2. QED BY <2>2, <4>1 DEF TypeInv, TypeOK, ClientTypeOK, CallTypeOK
    <3>3. QED BY <3>1, <3>2 DEF TypeInv, TypeOK
  <2>3. QED BY <1>5, <2>1, <2>2 DEF FinishBody
<1>6. CASE ReceiveHeaders
  <2>1. ASSUME NEW e \in Errors, Fail(e)
        PROVE  TypeInv'
    BY <2>1, FailType
  <2>2. ASSUME NEW h \in [length : Nat, keep : BOOLEAN], NEW rest \in Seq(Responses),
               AcceptHeaders(h, rest)
        PROVE  TypeInv'
    <3>2. /\ headers' \in [length : Nat, keep : BOOLEAN]
          /\ expectedRead' \in Int /\ responseLength' \in Int
      BY <2>2, AtoiInt DEF AcceptHeaders
    <3>3. ConnTypeOK' /\ SameCount'
      BY <2>2 DEF AcceptHeaders, TypeInv, TypeOK, ConnTypeOK, SameCount
    <3>4. ClientTypeOK' /\ CallTypeOK'
      BY <2>2, <3>2 DEF AcceptHeaders, TypeInv, TypeOK, ClientTypeOK, CallTypeOK
    <3>5. QED BY <3>3, <3>4 DEF TypeInv, TypeOK
  <2>3. rx \in Seq(Responses)
    BY DEF TypeInv, TypeOK, ConnTypeOK
  <2>4. QED BY <1>6, <2>1, <2>2, <2>3, AcceptedType DEF ReceiveHeaders
<1>7. CASE WriteBody
  <2>1. CASE Fail("CONNECTION_BROKEN")
    BY <2>1, FailType
  <2>2. CASE ~Fail("CONNECTION_BROKEN")
    <3>1. ConnTypeOK' /\ SameCount'
      BY <1>7, <2>2
      DEF WriteBody, TypeInv, TypeOK, ClientTypeOK, ConnTypeOK, CallTypeOK, SameCount
    <3>2. UNCHANGED <<connState, host, expectedRead, responseLength, headers>>
          /\ expectedWrite' \in Nat
      BY <1>7, <2>2 DEF WriteBody, TypeInv, TypeOK, ClientTypeOK, CallTypeOK
    <3>3. ClientTypeOK'
      BY <3>2 DEF TypeInv, TypeOK, ClientTypeOK
    <3>4. CallTypeOK'
      <4>1. UNCHANGED <<request, streams>>
        BY <1>7, <2>2 DEF WriteBody
      <4>2. \/ Return("OTHER", -1)
            \/ \E n \in 1 .. count : Return("none", n)
        BY <1>7, <2>2 DEF WriteBody
      <4>3. QED BY <4>1, <4>2 DEF Return, TypeInv, TypeOK, CallTypeOK
    <3>5. QED BY <3>1, <3>3, <3>4 DEF TypeInv, TypeOK
  <2>3. QED BY <2>1, <2>2
<1>8. CASE ReadBody
  BY <1>8, ReadBodyType
<1>9. CASE GetLength
  BY <1>9
  DEF GetLength, Return, TypeInv, TypeOK, ClientTypeOK, ConnTypeOK, CallTypeOK, SameCount
<1>10. CASE Respond
  <2>1. ConnTypeOK' /\ SameCount'
    BY <1>10, RespondType DEF Respond, TypeInv, TypeOK, ConnTypeOK, SameCount
  <2>2. ClientTypeOK' /\ CallTypeOK'
    BY <1>10 DEF Respond, TypeInv, TypeOK, ClientTypeOK, CallTypeOK
  <2>3. QED BY <2>1, <2>2 DEF TypeInv, TypeOK
<1>11. CASE Break
  <2>1. << >> \in Seq(Responses)
    BY EmptySeq
  <2>2. ConnTypeOK' /\ SameCount'
    BY <1>11, <2>1 DEF Break, TypeInv, TypeOK, ConnTypeOK, SameCount
  <2>3. ClientTypeOK' /\ CallTypeOK'
    BY <1>11 DEF Break, TypeInv, TypeOK, ClientTypeOK, CallTypeOK
  <2>4. QED BY <2>2, <2>3 DEF TypeInv, TypeOK
<1>12. CASE UNCHANGED vars
  BY <1>12 DEF vars, TypeInv, TypeOK, ClientTypeOK, ConnTypeOK, CallTypeOK, SameCount
<1>13. QED
  BY <1>1, <1>2, <1>3, <1>4, <1>5, <1>6, <1>7, <1>8, <1>9, <1>10, <1>11, <1>12
  DEF AnyStep, InCall, Network

\* In the initial state nothing is connected.
LEMMA TypeInit == Init => TypeInv
<1> SUFFICES ASSUME Init PROVE TypeInv
  OBVIOUS
<1>1. ConnTypeOK /\ SameCount
  <2>1. rx \in Seq(Responses)
    BY EmptySeq DEF Init
  <2>2. QED BY <2>1 DEF Init, ConnTypeOK, SameCount, NONE, HEADERS_SENT
<1>2. ClientTypeOK /\ CallTypeOK
  BY DEF Init, ClientTypeOK, CallTypeOK, NoHeaders, ConnStates, NONE, FAILED, Errors
<1>3. QED BY <1>1, <1>2 DEF TypeInv, TypeOK

\* Whatever the callers, the server and the network do, and whatever lengths
\* the server announces, the state is well typed; in particular
\* expected_write_count never becomes negative (mega-http-client.c:804-814).
THEOREM TypeCorrect == Spec => []TypeOK
<1>1. TypeInv /\ [Next]_vars => TypeInv'
  BY TypeStep, NextIsStep
<1>2. TypeInv => TypeOK
  BY DEF TypeInv
<1>3. QED BY TypeInit, <1>1, <1>2, PTL DEF Spec

-----------------------------------------------------------------------------
(* The connection: it exists when the state says so, and goes to priv->host. *)

LinkInv == Linked /\ RightHost

\* Every step keeps the connection and the state together.
LEMMA LinkStep ==
  ASSUME TypeInv, LinkInv, [AnyStep]_vars
  PROVE  LinkInv'
<1> USE ConstantsAssumption
    DEF NONE, INIT_CONNECTED, HEADERS_SENT, BODY_SENT, HEADERS_RECEIVED,
        NONE_CONNECTED, FAILED, client, conn
<1>1. ASSUME NEW h \in Hosts, NEW len \in RequestLengths, Post(h, len)
      PROVE  LinkInv'
  <2>1. CASE StateFor(h) = NONE_CONNECTED
    BY <1>1, <2>1 DEF Post, PostAccepted, StateFor, LinkInv, Linked, RightHost
  <2>2. CASE StateFor(h) # NONE_CONNECTED /\ PostAccepted(h, len)
    <3>1. Connect(h) /\ h # NoHost
      BY <1>1, <2>2 DEF Post, PostAccepted, PostFailed
    <3>2. QED BY <2>2, <3>1 DEF PostAccepted, Connect, LinkInv, Linked, RightHost
  <2>3. ASSUME NEW e \in Errors, PostFailed(h, e)
        PROVE  LinkInv'
    BY <2>3 DEF PostFailed, Disconnect, LinkInv, Linked, RightHost
  <2>4. QED BY <1>1, <2>1, <2>2, <2>3 DEF Post, Errors
<1>2. ASSUME NEW e \in Errors, Fail(e)
      PROVE  LinkInv'
  BY <1>2 DEF Fail, Disconnect, LinkInv, Linked, RightHost
<1>3. ASSUME UNCHANGED <<host, peer>>,
             connState \in {NONE, FAILED} <=> connState' \in {NONE, FAILED}
      PROVE  LinkInv'
  BY <1>3 DEF LinkInv, Linked, RightHost
<1>4. ASSUME NEW o \in {"write", "read", "length"}, NEW s \in streams, NEW n \in Nat,
             Begin(o, s, n)
      PROVE  LinkInv'
  BY <1>2, <1>3, <1>4 DEF Begin, Errors
<1>5. ASSUME NEW s \in streams, Close(s)
      PROVE  LinkInv'
  BY <1>5 DEF Close, Disconnect, LinkInv, Linked, RightHost
<1>6. CASE SendHeaders
  BY <1>2, <1>3, <1>6 DEF SendHeaders, Errors
<1>7. CASE FinishBody
  BY <1>2, <1>3, <1>7 DEF FinishBody, Errors
<1>8. CASE ReceiveHeaders
  <2>1. ASSUME NEW h, NEW rest, AcceptHeaders(h, rest)
        PROVE  LinkInv'
    BY <1>3, <1>8, <2>1 DEF ReceiveHeaders, AcceptHeaders
  <2>2. rx \in Seq(Responses)
    BY DEF TypeInv, TypeOK, ConnTypeOK
  <2>3. QED BY <1>2, <1>8, <2>1, <2>2, AcceptedType DEF ReceiveHeaders, Errors
<1>9. CASE WriteBody
  BY <1>2, <1>3, <1>9 DEF WriteBody, Errors
<1>10. CASE ReadBody
  <2>1. ASSUME NEW left, EndOfResponse(left), UNCHANGED host
        PROVE  LinkInv'
    BY <1>10, <2>1 DEF ReadBody, EndOfResponse, Disconnect, LinkInv, Linked, RightHost
  <2>2. QED BY <1>2, <1>3, <1>10, <2>1 DEF ReadBody, Errors
<1>11. CASE GetLength
  BY <1>3, <1>11 DEF GetLength
<1>12. CASE Network
  BY <1>3, <1>12 DEF Network, Respond, Break
<1>13. CASE UNCHANGED vars
  BY <1>3, <1>13 DEF vars
<1>14. QED
  BY <1>1, <1>4, <1>5, <1>6, <1>7, <1>8, <1>9, <1>10, <1>11, <1>12, <1>13
  DEF AnyStep, InCall

\* The client never believes in a connection it does not have and never keeps
\* one it has given up; and every request goes to a connection made for its
\* own host, port and scheme, however callers alternate between hosts.
THEOREM ConnectionMatchesState == Spec => []Connected
<1>1. Init => LinkInv
  BY DEF Init, LinkInv, Linked, RightHost, NONE
<1>2. TypeInv /\ [Next]_vars => TypeInv'
  BY TypeStep, NextIsStep
<1>3. TypeInv /\ LinkInv /\ [Next]_vars => LinkInv'
  BY LinkStep, NextIsStep
<1>4. LinkInv => Connected
  BY DEF LinkInv, Connected
<1>5. QED BY TypeInit, <1>1, <1>2, <1>3, <1>4, PTL DEF Spec

\* Out of the failed state there is only a new connection, to the host of the
\* new request, with nothing of the old one on it.
THEOREM FreshAfterError == Spec => ReconnectAfterError
<1>1. ASSUME TypeInv, LinkInv, [Next]_vars, connState = FAILED, connState' # FAILED
      PROVE  /\ peer = NoHost
             /\ connState' = INIT_CONNECTED => peer' = host' /\ ~broken' /\ rx' = << >>
  <2> USE DEF NONE, INIT_CONNECTED, HEADERS_SENT, BODY_SENT, HEADERS_RECEIVED,
              NONE_CONNECTED, FAILED
  <2>1. peer = NoHost
    BY <1>1 DEF LinkInv, Linked
  <2>2. ASSUME NEW h \in Hosts, NEW len \in RequestLengths, Post(h, len)
        PROVE  connState' = INIT_CONNECTED => peer' = host' /\ ~broken' /\ rx' = << >>
    BY <1>1, <2>2 DEF Post, PostAccepted, PostFailed, StateFor, Connect
  <2>3. CASE ~\E h \in Hosts, len \in RequestLengths : Post(h, len)
    <3>1. connState' # INIT_CONNECTED
      BY <1>1, <2>3
      DEF Next, InCall, Network, vars, client, Begin, Close, SendHeaders, FinishBody,
          ReceiveHeaders, ReadHeaders, ReadLeftover, AcceptHeaders, WriteBody, ReadBody,
          EndOfResponse, GetLength, Respond, Break, Fail
    <3>2. QED BY <2>1, <3>1
  <2>4. QED BY <2>1, <2>2, <2>3
<1>2. TypeInv /\ [Next]_vars => TypeInv'
  BY TypeStep, NextIsStep
<1>3. Spec => []Connected
  BY ConnectionMatchesState
<1>4. TypeInv /\ Connected /\ [Next]_vars =>
        [connState = FAILED /\ connState' # FAILED =>
          /\ peer = NoHost
          /\ connState' = INIT_CONNECTED => peer' = host' /\ ~broken' /\ rx' = << >>]_vars
  BY <1>1 DEF LinkInv, Connected
<1>5. QED BY TypeInit, <1>2, <1>3, <1>4, PTL DEF Spec, ReconnectAfterError

-----------------------------------------------------------------------------
(* Framing, when every response length is an int.                           *)

FitsInt == \A n \in ResponseLengths : n < IntRange \div 2

\* What the framing of requests and responses rests on: a connection that is
\* not there carries nothing, the server answers one request at a time, the current
\* one, and a response stays whole until the connection breaks.
Pending ==
    /\ peer = NoHost => rx = << >> /\ srvReq = 0 /\ ~broken
    /\ srvReq # 0 => rx = << >> /\ srvReq = request
    /\ rx # << >> =>
          /\ rx[1].length \in ResponseLengths
          /\ rx[1].head /\ ~broken => rx[1].left = rx[1].length
          /\ ~rx[1].head => rx[1].left > 0

FramingInv == CleanConnection /\ RequestFraming /\ ResponseFraming /\ Pending

\* A length that fits is read as it is.
LEMMA AtoiFits == ASSUME FitsInt, NEW n \in ResponseLengths PROVE Atoi(n) = n
<1> DEFINE half == IntRange \div 2
<1>1. half \in Nat /\ 2 * half <= IntRange /\ n \in Nat /\ n < half
  BY ConstantsAssumption DEF FitsInt
<1>2. n + half \in 0 .. IntRange - 1 /\ IntRange \in Nat \ {0}
  BY <1>1, ConstantsAssumption
<1> HIDE DEF half
<1>3. (n + half) % IntRange = n + half
  BY <1>2
<1>4. QED BY <1>1, <1>3 DEF Atoi, half

\* The one response on the connection.
LEMMA OneResponse ==
  ASSUME TypeInv, FramingInv, rx # << >>
  PROVE  /\ Len(rx) = 1 /\ Head(rx) = rx[1] /\ rx[1] \in Responses
         /\ Tail(rx) = << >>
<1>1. rx \in Seq(Responses) /\ Len(rx) \in Nat \ {0} /\ Len(rx) <= 1
  BY EmptySeq DEF TypeInv, TypeOK, ConnTypeOK, FramingInv, ResponseFraming
<1>2. Len(rx) = 1 /\ Head(rx) = rx[1] /\ rx[1] \in Responses
  BY <1>1, ElementOfSeq
<1>3. Tail(rx) \in Seq(Responses) /\ Len(Tail(rx)) = 0
  BY <1>1, <1>2, HeadTailProperties
<1>4. QED BY <1>2, <1>3, EmptySeq

\* After a response of which no byte is left there is nothing, otherwise what
\* is left of it.
LEMMA OneConsumed ==
  ASSUME TypeInv, FramingInv, rx # << >>, ~rx[1].head, NEW n \in Nat, n <= rx[1].left
  PROVE  /\ n = rx[1].left => Consume(n) = << >>
         /\ n # rx[1].left =>
              /\ Consume(n) # << >> /\ Len(Consume(n)) = 1
              /\ Consume(n)[1] = [rx[1] EXCEPT !.left = @ - n]
<1>a. Head(rx) = rx[1] /\ rx[1] \in Responses
  BY OneResponse
<1>b. Size(Head(rx)) = rx[1].left
  BY <1>a DEF Size, Responses
<1>1. CASE n = rx[1].left
  BY <1>b, <1>1, OneResponse DEF Consume
<1>2. CASE n # rx[1].left
  <2> DEFINE r == [rx[1] EXCEPT !.left = @ - n]
  <2>a. [rx[1] EXCEPT !.head = FALSE, !.left = rx[1].left - n] = r
    BY <1>a DEF Responses
  <2>1. Consume(n) = [rx EXCEPT ![1] = r]
    BY <1>b, <1>2, <2>a DEF Consume
  <2> HIDE DEF r
  <2>2. DOMAIN rx = 1 .. 1 /\ rx \in Seq(Responses)
    BY OneResponse, LenProperties DEF TypeInv, TypeOK, ConnTypeOK
  <2>3. DOMAIN [rx EXCEPT ![1] = r] = DOMAIN rx /\ [rx EXCEPT ![1] = r][1] = r
    BY <2>2
  <2>4. Len([rx EXCEPT ![1] = r]) = 1 /\ [rx EXCEPT ![1] = r] # << >>
    <3>1. [rx EXCEPT ![1] = r] \in Seq(Responses)
      BY <1>b, <2>1, <2>2, ConsumeType, OneResponse
    <3>2. 1 .. Len([rx EXCEPT ![1] = r]) = 1 .. 1
      BY <2>2, <2>3, <3>1, LenProperties
    <3>3. Len([rx EXCEPT ![1] = r]) \in Nat
      BY <3>1, LenProperties
    <3>4. Len([rx EXCEPT ![1] = r]) = 1
      <4> DEFINE k == Len([rx EXCEPT ![1] = r])
      <4>1. k \in Nat /\ 1 .. k = 1 .. 1
        BY <3>2, <3>3
      <4> HIDE DEF k
      <4>2. k = 1
        BY <4>1, SMTT(30)
      <4>3. QED BY <4>2 DEF k
    <3>5. QED BY <3>4, EmptySeq
  <2>5. QED BY <1>2, <2>1, <2>3, <2>4 DEF r
<1>3. QED BY <1>1, <1>2

\* With the connection gone, or new, nothing is under way.
LEMMA FramingNothing ==
  ASSUME NEW h \in Hosts \cup {NoHost}, Disconnect \/ Connect(h),
         connState' \in {NONE, FAILED, INIT_CONNECTED}
  PROVE  FramingInv'
<1>1. rx' = << >> /\ srvReq' = 0 /\ ~broken'
  BY DEF Disconnect, Connect
<1>2. Len(rx') = 0
  BY <1>1
<1>3. QED
  BY <1>1, <1>2 DEF FramingInv, CleanConnection, RequestFraming, ResponseFraming, Pending,
     NONE, INIT_CONNECTED, HEADERS_SENT, BODY_SENT, HEADERS_RECEIVED, NONE_CONNECTED, FAILED

\* Every step keeps it.
LEMMA FramingStep ==
  ASSUME FitsInt, TypeInv, LinkInv, FramingInv, [AnyStep]_vars
  PROVE  FramingInv'
<1> USE ConstantsAssumption
    DEF NONE, INIT_CONNECTED, HEADERS_SENT, BODY_SENT, HEADERS_RECEIVED,
        NONE_CONNECTED, FAILED, client, conn
<1> USE DEF CleanConnection, RequestFraming, ResponseFraming, Pending
<1>1. ASSUME NEW e, Fail(e)
      PROVE  FramingInv'
  BY <1>1, FramingNothing DEF Fail
<1>2. ASSUME UNCHANGED <<connState, conn, request, expectedWrite, expectedRead>>
      PROVE  FramingInv'
  BY <1>2 DEF FramingInv
<1>3. ASSUME NEW h \in Hosts, NEW len \in RequestLengths, Post(h, len)
      PROVE  FramingInv'
  <2>1. CASE UNCHANGED conn /\ connState = NONE_CONNECTED /\ connState' = INIT_CONNECTED
    <3>1. rx = << >> /\ srvReq = 0 /\ Len(rx) <= 1
      BY <2>1 DEF FramingInv
    <3>2. QED BY <2>1, <3>1 DEF FramingInv
  <2>2. CASE (Disconnect \/ Connect(h)) /\ connState' \in {NONE, FAILED, INIT_CONNECTED}
    BY <2>2, FramingNothing
  <2>3. QED BY <1>3, <2>1, <2>2 DEF Post, PostAccepted, PostFailed, StateFor
<1>4. ASSUME NEW o \in {"write", "read", "length"}, NEW s \in streams, NEW n \in Nat,
             Begin(o, s, n)
      PROVE  FramingInv'
  BY <1>1, <1>2, <1>4 DEF Begin
<1>5. ASSUME NEW s \in streams, Close(s)
      PROVE  FramingInv'
  BY <1>2, <1>5, FramingNothing DEF Close
<1>6. CASE SendHeaders
  <2>1. CASE connState' = HEADERS_SENT
    <3>1. /\ srvReq' = IF broken THEN srvReq ELSE request
          /\ srvLeft' = IF broken THEN srvLeft ELSE expectedWrite
          /\ UNCHANGED <<expectedWrite, peer, rx, broken, request>>
      BY <1>6, <2>1 DEF SendHeaders, Fail
    <3>2. rx = << >> /\ srvReq = 0 /\ Len(rx) <= 1 /\ peer # NoHost
      BY <1>6 DEF SendHeaders, FramingInv, LinkInv, Linked
    <3>3. QED BY <2>1, <3>1, <3>2 DEF FramingInv
  <2>2. QED BY <1>1, <1>6, <2>1 DEF SendHeaders
<1>7. CASE FinishBody
  <2>1. CASE connState' = BODY_SENT /\ expectedWrite = 0
    <3>1. connState = HEADERS_SENT /\ UNCHANGED <<conn, request, expectedWrite, expectedRead>>
      BY <1>7, <2>1 DEF FinishBody, Fail
    <3>2. QED BY <2>1, <3>1 DEF FramingInv
  <2>2. QED BY <1>1, <1>7, <2>1 DEF FinishBody
<1>8. CASE ReceiveHeaders
  <2>1. ASSUME rx # << >>, Head(rx).head,
               AcceptHeaders([length |-> Head(rx).length, keep |-> Head(rx).keep],
                             HeadersRead(rx))
        PROVE  FramingInv'
    <3>1. /\ Len(rx) = 1 /\ Head(rx) = rx[1] /\ rx[1] \in Responses /\ Tail(rx) = << >>
      BY <2>1, OneResponse
    <3>2. /\ rx[1].length \in ResponseLengths /\ rx[1].left \in Nat /\ rx[1].left <= rx[1].length
          /\ ~broken => rx[1].left = rx[1].length
          /\ rx[1].req = request /\ srvReq = 0
      BY <2>1, <3>1 DEF FramingInv, Responses
    <3>3. /\ expectedRead' = rx[1].length /\ connState' = HEADERS_RECEIVED
          /\ UNCHANGED <<peer, srvReq, srvLeft, broken, request>>
      BY <2>1, <3>1, <3>2, AtoiFits DEF AcceptHeaders
    <3>4. peer # NoHost
      BY <2>1 DEF FramingInv
    <3>5. CASE rx[1].left = 0
      <4>1. rx' = << >> /\ Len(rx') = 0
        BY <2>1, <3>1, <3>5 DEF AcceptHeaders, HeadersRead
      <4>2. QED BY <3>2, <3>3, <3>4, <3>5, <4>1 DEF FramingInv
    <3>6. CASE rx[1].left # 0
      <4> DEFINE r == [rx[1] EXCEPT !.head = FALSE]
      <4>1. rx' = [rx EXCEPT ![1] = r]
        BY <2>1, <3>1, <3>6 DEF AcceptHeaders, HeadersRead
      <4>2. r.req = request /\ ~r.head /\ r.left = rx[1].left /\ r.length = rx[1].length
            /\ r \in Responses
        BY <3>1, <3>2 DEF Responses
      <4> HIDE DEF r
      <4>3. Len(rx') = 1 /\ rx'[1] = r
        <5>1. rx \in Seq(Responses) /\ 1 \in 1 .. Len(rx)
          BY <3>1 DEF TypeInv, TypeOK, ConnTypeOK
        <5>2. QED BY <3>1, <4>1, <4>2, <5>1, ExceptSeq
      <4>4. rx' # << >>
        BY <4>3
      <4>5. rx'[1].left > 0 /\ rx'[1].left <= expectedRead' /\ expectedRead' >= 0
            /\ (~broken' => expectedRead' = rx'[1].left)
        <5>1. rx'[1].left = rx[1].left /\ rx[1].left \in Nat /\ rx[1].length \in Nat
          BY <3>2, <4>2, <4>3
        <5>2. broken' = broken /\ expectedRead' = rx[1].length
          BY <3>3
        <5>3. rx'[1].left > 0 /\ rx'[1].left <= expectedRead' /\ expectedRead' >= 0
          BY <3>2, <3>6, <5>1, <5>2
        <5>4. ~broken' => expectedRead' = rx'[1].left
          BY <3>2, <5>1, <5>2
        <5>5. QED BY <5>3, <5>4
      <4>6. QED BY <3>2, <3>3, <3>4, <4>2, <4>3, <4>4, <4>5 DEF FramingInv
    <3>7. QED BY <3>5, <3>6
  <2>2. ~ReadLeftover
    <3>1. rx # << >> => Head(rx) = rx[1] /\ rx[1].head
      BY <1>8, OneResponse DEF ReceiveHeaders, FramingInv
    <3>2. QED BY <3>1 DEF ReadLeftover
  <2>3. QED BY <1>1, <1>8, <2>1, <2>2 DEF ReceiveHeaders, ReadHeaders
<1>9. CASE WriteBody
  <2>1. ASSUME NEW n \in 1 .. count,
               expectedWrite' = expectedWrite - n,
               srvLeft' = (IF broken THEN srvLeft ELSE srvLeft - n),
               UNCHANGED <<connState, expectedRead, peer, srvReq, rx, broken, request>>
        PROVE  FramingInv'
    BY <1>9, <2>1 DEF WriteBody, FramingInv
  <2>2. QED BY <1>1, <1>2, <1>9, <2>1 DEF WriteBody
<1>10. CASE ReadBody
  <2>1. connState = HEADERS_RECEIVED /\ srvReq = 0 /\ expectedRead \in Nat /\ count \in Nat
    BY <1>10 DEF ReadBody, FramingInv, TypeInv, TypeOK, ClientTypeOK, CallTypeOK
  <2>2. ASSUME EndOfResponse(<< >>), UNCHANGED request
        PROVE  FramingInv'
    <3>1. CASE headers.keep
      <4>1. /\ rx' = << >> /\ Len(rx') = 0 /\ connState' = NONE_CONNECTED
            /\ UNCHANGED <<peer, srvReq, broken>>
        BY <2>2, <3>1 DEF EndOfResponse
      <4>2. QED BY <2>1, <4>1 DEF FramingInv
    <3>2. CASE ~headers.keep
      BY <2>2, <3>2, FramingNothing DEF EndOfResponse
    <3>3. QED BY <3>1, <3>2
  <2>3. CASE expectedRead = 0
    <3>1. rx = << >>
      <4>1. SUFFICES ASSUME rx # << >> PROVE FALSE
        OBVIOUS
      <4>2. ~rx[1].head /\ rx[1].left <= 0 /\ rx[1].left > 0
        BY <2>1, <2>3, <4>1 DEF FramingInv
      <4>3. rx[1].left \in Nat
        BY <4>1, OneResponse DEF Responses
      <4>4. QED BY <4>2, <4>3
    <3>2. QED BY <1>10, <2>2, <2>3, <3>1 DEF ReadBody
  <2>4. CASE expectedRead # 0 /\ rx # << >>
    <3> DEFINE most == Smaller(Size(Head(rx)),
                         IF expectedRead > 0 THEN Smaller(count, expectedRead) ELSE count)
    <3>1. /\ Head(rx) = rx[1] /\ rx[1].left \in Nat /\ rx[1].left <= expectedRead
          /\ rx[1].left <= rx[1].length /\ rx[1].length \in ResponseLengths
          /\ rx[1].req = request /\ ~rx[1].head /\ Len(rx) = 1 /\ peer # NoHost
          /\ ~broken => rx[1].left = expectedRead
      BY <2>1, <2>4, OneResponse DEF FramingInv, Responses
    <3>2. most \in Int /\ most <= rx[1].left
      <4>1. Size(Head(rx)) = rx[1].left
        BY <3>1 DEF Size
      <4>2. QED BY <2>1, <3>1, <4>1 DEF Smaller
    <3> HIDE DEF most
    <3>3. ASSUME NEW n \in 1 .. most,
                 expectedRead' = ReadLeft(n),
                 IF ReadLeft(n) = 0
                 THEN EndOfResponse(Consume(n))
                 ELSE rx' = Consume(n) /\ UNCHANGED <<connState, peer, srvReq, srvLeft, broken>>,
                 UNCHANGED request
          PROVE  FramingInv'
      <4>1. n \in Nat \ {0} /\ n <= rx[1].left
        BY <3>1, <3>2
      <4>2. ReadLeft(n) = expectedRead - n
        BY <2>1, <2>4 DEF ReadLeft
      <4>3. CASE n = expectedRead
        <5>1. Consume(n) = << >>
          <6>1. n = rx[1].left
            BY <2>1, <3>1, <4>1, <4>3
          <6>2. QED BY <2>4, <3>1, <4>1, <6>1, OneConsumed
        <5>2. QED BY <2>1, <2>2, <3>3, <4>2, <4>3, <5>1
      <4>4. CASE n # expectedRead
        <5>1. /\ rx' = Consume(n) /\ expectedRead' = expectedRead - n
              /\ UNCHANGED <<connState, peer, srvReq, srvLeft, broken>>
          BY <2>1, <3>3, <4>1, <4>2, <4>4
        <5>2. CASE n = rx[1].left
          <6>1. rx' = << >> /\ Len(rx') = 0 /\ broken
            <7>1. broken
              BY <3>1, <4>4, <5>2
            <7>2. Consume(n) = << >>
              BY <2>4, <3>1, <4>1, <5>2, OneConsumed
            <7>3. QED BY <5>1, <7>1, <7>2
          <6>2. QED BY <2>1, <3>1, <3>3, <4>1, <5>1, <5>2, <6>1 DEF FramingInv
        <5>3. CASE n # rx[1].left
          <6>1. /\ rx' # << >> /\ Len(rx') = 1
                /\ rx'[1] = [rx[1] EXCEPT !.left = @ - n]
            BY <2>4, <3>1, <4>1, <5>1, <5>3, OneConsumed
          <6>2. /\ rx'[1].left = rx[1].left - n /\ ~rx'[1].head
                /\ rx'[1].length = rx[1].length /\ rx'[1].req = request
            BY <2>4, <3>1, <6>1, OneResponse DEF Responses
          <6>3. QED BY <2>1, <3>1, <3>3, <4>1, <5>1, <5>3, <6>1, <6>2 DEF FramingInv
        <5>4. QED BY <5>2, <5>3
      <4>5. QED BY <4>3, <4>4
    <3>4. QED BY <1>1, <1>10, <2>4, <3>3 DEF ReadBody, most
  <2>5. CASE expectedRead # 0 /\ rx = << >>
    BY <1>1, <1>2, <1>10, <2>5 DEF ReadBody
  <2>6. QED BY <2>3, <2>4, <2>5
<1>11. CASE GetLength
  BY <1>2, <1>11 DEF GetLength
<1>12. CASE Respond
  <2>1. PICK st \in Statuses, len \in ResponseLengths, keep \in BOOLEAN :
          \E left \in 0 .. len : Deliver(st, len, keep, left)
    BY <1>12 DEF Respond
  <2>2. PICK left \in 0 .. len : Deliver(st, len, keep, left)
    BY <2>1
  <2> DEFINE r == [req |-> srvReq, head |-> TRUE, status |-> st,
                   length |-> len, keep |-> keep, left |-> left]
  <2>3. /\ srvReq # 0 /\ ~broken /\ srvReq' = 0
        /\ UNCHANGED <<connState, peer, srvLeft, request, expectedWrite, expectedRead>>
    BY <1>12 DEF Respond
  <2>4. rx = << >> /\ srvReq = request /\ connState \in {HEADERS_SENT, BODY_SENT}
        /\ peer # NoHost
    BY <2>3 DEF FramingInv, LinkInv, Linked, TypeInv, TypeOK, ClientTypeOK, ConnStates
  <2>5. rx' = <<r>> /\ (broken' <=> left # len)
    <3>1. rx' = Append(rx, r) /\ broken' = (left # len)
      BY <2>2 DEF Deliver
    <3>2. Append(<< >>, r) = <<r>>
      OBVIOUS
    <3>3. QED BY <2>4, <3>1, <3>2
  <2>6. r.req = srvReq /\ r.head /\ r.length = len /\ r.left = left
    OBVIOUS
  <2> HIDE DEF r
  <2>7. Len(rx') = 1 /\ rx'[1] = r /\ rx' # << >>
    BY <2>5
  <2>8. left <= len
    OBVIOUS
  <2>9. QED BY <2>3, <2>4, <2>5, <2>6, <2>7, <2>8 DEF FramingInv
<1>13. CASE Break
  <2>1. /\ broken' /\ peer # NoHost
        /\ UNCHANGED <<connState, peer, srvReq, request, expectedWrite, expectedRead>>
    BY <1>13 DEF Break
  <2>2. CASE rx' = rx
    BY <2>1, <2>2 DEF FramingInv
  <2>3. CASE rx' = << >>
    <3>1. Len(rx') = 0
      BY <2>3
    <3>2. QED BY <2>1, <2>3, <3>1 DEF FramingInv
  <2>4. QED BY <1>13, <2>2, <2>3 DEF Break
<1>14. CASE UNCHANGED vars
  BY <1>2, <1>14 DEF vars
<1>15. QED
  BY <1>3, <1>4, <1>5, <1>6, <1>7, <1>8, <1>9, <1>10, <1>11, <1>12, <1>13, <1>14
  DEF AnyStep, InCall, Network

\* At first nothing is connected and nothing is under way.
LEMMA ClientInit == Init => LinkInv /\ FramingInv
<1> SUFFICES ASSUME Init PROVE LinkInv /\ FramingInv
  OBVIOUS
<1>1. rx = << >> /\ DOMAIN rx = {} /\ Len(rx) = 0 /\ srvReq = 0 /\ ~broken /\ connState = NONE
      /\ peer = NoHost
  BY DEF Init
<1>2. QED
  BY <1>1 DEF LinkInv, Linked, RightHost, FramingInv, CleanConnection,
     RequestFraming, ResponseFraming, Pending, NONE, INIT_CONNECTED, HEADERS_SENT,
     BODY_SENT, HEADERS_RECEIVED, NONE_CONNECTED, FAILED

\* When every response length the server announces is an int, client and
\* server never disagree on where a request or a response ends, on new and on
\* kept connections, whatever is cut short, split or broken: CleanConnection,
\* RequestFraming and ResponseFraming hold.
THEOREM FramingAgrees ==
  ASSUME FitsInt
  PROVE  Spec => []Framing
<1>1. TypeInv /\ LinkInv /\ FramingInv /\ [Next]_vars => TypeInv' /\ LinkInv' /\ FramingInv'
  BY TypeStep, LinkStep, FramingStep, NextIsStep
<1>2. FramingInv => Framing
  BY DEF FramingInv, Framing
<1>3. QED BY TypeInit, ClientInit, <1>1, <1>2, PTL DEF Spec

\* When every response length the server announces is an int, the headers a
\* call accepts are those of the answer to the current request, whatever
\* streams, short answers and connections came before.
THEOREM AnswerIsOwn ==
  ASSUME FitsInt
  PROVE  Spec => AnswersOwnRequest
<1>1. ASSUME TypeInv, Framing, [Next]_vars, connState = BODY_SENT, connState' = HEADERS_RECEIVED
      PROVE  rx[1].head /\ rx[1].req = request
  <2> USE DEF NONE, INIT_CONNECTED, HEADERS_SENT, BODY_SENT, HEADERS_RECEIVED,
              NONE_CONNECTED, FAILED
  <2>1. ReceiveHeaders
    BY <1>1
    DEF Next, InCall, Network, vars, client, Post, PostAccepted, PostFailed, Begin, Close,
        SendHeaders, FinishBody, WriteBody, ReadBody, GetLength, Respond, Break, Fail
  <2>2. rx # << >>
    BY <1>1, <2>1 DEF ReceiveHeaders, ReadHeaders, ReadLeftover, Fail
  <2>3. QED BY <1>1, <2>2 DEF Framing, ResponseFraming
<1>2. TypeInv /\ [Next]_vars => TypeInv'
  BY TypeStep, NextIsStep
<1>3. Spec => []Framing
  BY FramingAgrees
<1>4. TypeInv /\ Framing /\ [Next]_vars =>
        [connState = BODY_SENT /\ connState' = HEADERS_RECEIVED =>
          rx[1].head /\ rx[1].req = request]_vars
  BY <1>1
<1>5. QED BY TypeInit, <1>2, <1>3, <1>4, PTL DEF Spec, AnswersOwnRequest

-----------------------------------------------------------------------------
(* PostSimple.                                                               *)

\* The operation a call is in while its return is awaited at p.
OpAt(p) == CASE p = "written"  -> "write"
             [] p = "answered" -> "length"
             [] p = "reading"  -> "read"
             [] OTHER          -> "idle"

Pcs == {"idle", "write", "written", "length", "answered", "read", "reading", "unref"}

\* Types, and one stream while a request is going on.
SimpleTypeOK ==
    /\ pc \in Pcs /\ op \in {"idle", OpAt(pc)}
    /\ todo \in Nat /\ expected \in 0 .. MaxSimple /\ got \in 0 .. expected
    /\ pc \in {"write", "written", "length", "answered"} => got = 0
    /\ pc \in {"read", "reading"} => got < expected
    /\ streams = IF pc = "idle" THEN {} ELSE {request}

\* The request is on its way: nothing is answered yet.
Sending ==
    /\ pc \in {"write", "length"} => connState \in {INIT_CONNECTED, HEADERS_SENT}
    /\ pc = "written" /\ op = "write" =>
          connState \in {INIT_CONNECTED, HEADERS_SENT} /\ count = todo
    /\ pc = "written" /\ op = "idle" =>
          IF err = "none" THEN connState = HEADERS_SENT /\ value \in 0 .. todo
                          ELSE connState \in {HEADERS_SENT, FAILED}

\* The response length is the announced one, as an int.
LengthKnown == responseLength = Atoi(headers.length)

\* The answer begins.
Answering ==
    pc = "answered" =>
        /\ connState # NONE_CONNECTED
        /\ op = "length" => connState \in INIT_CONNECTED .. HEADERS_RECEIVED
        /\ connState = HEADERS_RECEIVED => LengthKnown /\ expectedRead = responseLength
        /\ op = "idle" /\ err = "none" => connState = HEADERS_RECEIVED /\ value = responseLength

\* What the client has still to read is what read_all has still to get.
Reading ==
    /\ pc \in {"read", "reading"} => LengthKnown /\ responseLength = expected
    /\ pc = "read" \/ (pc = "reading" /\ op = "read") =>
          connState = HEADERS_RECEIVED /\ expectedRead = expected - got
    /\ pc = "reading" /\ op = "read" => count = expectedRead
    /\ pc = "reading" /\ op = "idle" =>
          IF err # "none" THEN connState = FAILED
          ELSE /\ value \in 0 .. expected - got
               /\ IF value = expected - got
                  THEN connState \in {NONE, NONE_CONNECTED}
                  ELSE connState = HEADERS_RECEIVED /\ expectedRead = expected - got - value
               /\ connState = NONE_CONNECTED => headers.keep

\* How it ended: with success the whole of the announced length was read.
Ended ==
    /\ pc \in {"unref", "idle"} =>
          /\ connState = NONE_CONNECTED => outcome = "ok" /\ headers.keep
          /\ outcome = "ok" => LengthKnown /\ responseLength = got
    /\ pc = "unref" => outcome # "none"
    /\ pc = "idle" =>
          /\ connState \in {NONE, NONE_CONNECTED, FAILED}
          /\ outcome = "none" <=> request = 0
    /\ pc \notin {"unref", "idle"} => outcome = "none"
    /\ pc # "idle" => request > 0

SimpleInv == SimpleTypeOK /\ Sending /\ Answering /\ Reading /\ Ended

\* The call is one of the callers HttpClient allows.
LEMMA SimpleIsStep == ASSUME TypeInv, SimpleInv, [SNext]_<<vars, simple>> PROVE [AnyStep]_vars
<1>1. ASSUME NEW h \in Hosts, NEW n \in RequestLengths, Start(h, n)
      PROVE  AnyStep
  BY <1>1 DEF Start, AnyStep
<1>2. ASSUME NEW o \in {"write", "length", "read"}, NEW n \in Nat, NEW w, Invoke(o, n, w)
      PROVE  AnyStep
  <2>1. Begin(o, request, n) /\ request \in streams
    BY <1>2 DEF Invoke, Begin
  <2>2. QED BY <2>1 DEF AnyStep
<1>3. CASE WriteMore
  BY <1>2, <1>3 DEF WriteMore, SimpleInv, SimpleTypeOK
<1>4. CASE AskLength
  BY <1>2, <1>4 DEF AskLength
<1>5. CASE ReadMore
  <2>1. expected - got \in Nat
    BY <1>5, MaxSimpleAssumption DEF ReadMore, SimpleInv, SimpleTypeOK
  <2>2. QED BY <1>2, <1>5, <2>1 DEF ReadMore
<1>6. CASE Written \/ Answered \/ ReadDone
  BY <1>6 DEF Written, Answered, ReadDone, Finish
<1>7. CASE Unref
  <2>1. Close(request) /\ request \in streams
    BY <1>7 DEF Unref, Close
  <2>2. QED BY <2>1 DEF AnyStep
<1>8. CASE Step \/ Network
  BY <1>8 DEF Step, AnyStep
<1>9. CASE UNCHANGED <<vars, simple>>
  BY <1>9
<1>10. QED
  BY <1>1, <1>3, <1>4, <1>5, <1>6, <1>7, <1>8, <1>9 DEF SNext, Progress

-----------------------------------------------------------------------------
(* SimpleInv is kept, one lemma for each group of steps.                     *)

LEMMA SimpleStart ==
  ASSUME TypeInv, SimpleInv, NEW h \in Hosts, NEW n \in RequestLengths, Start(h, n)
  PROVE  SimpleInv'
<1> USE ConstantsAssumption, MaxSimpleAssumption
    DEF NONE, INIT_CONNECTED, HEADERS_SENT, BODY_SENT, HEADERS_RECEIVED, NONE_CONNECTED, FAILED
<1>1. /\ pc = "idle" /\ streams = {} /\ request \in Nat /\ request' = request + 1
      /\ todo' = n /\ n \in Nat /\ expected' = 0 /\ got' = 0
  BY DEF Start, Post, SimpleInv, SimpleTypeOK, TypeInv, TypeOK, CallTypeOK
<1>2. CASE PostAccepted(h, n)
  <2>1. err' = "none" /\ op' = "idle" /\ connState' = INIT_CONNECTED /\ streams' = {request'}
    BY <1>1, <1>2 DEF PostAccepted, Return
  <2>2. pc' = (IF n > 0 THEN "write" ELSE "length") /\ outcome' = "none"
    BY <2>1 DEF Start
  <2>3. QED
    BY <1>1, <2>1, <2>2
    DEF SimpleInv, SimpleTypeOK, Pcs, OpAt, Sending, Answering, Reading, Ended
<1>3. ASSUME NEW e \in {"CONNECT", "OTHER"}, PostFailed(h, e)
      PROVE  SimpleInv'
  <2>1. err' = e /\ op' = "idle" /\ connState' = FAILED /\ streams' = {}
    BY <1>1, <1>3 DEF PostFailed, Return
  <2>2. pc' = "idle" /\ outcome' = e
    BY <2>1 DEF Start
  <2>3. QED
    BY <1>1, <2>1, <2>2
    DEF SimpleInv, SimpleTypeOK, Pcs, OpAt, Sending, Answering, Reading, Ended
<1>4. QED BY <1>2, <1>3 DEF Start, Post

\* A call is made: post_simple never makes one that is refused at once.
LEMMA SimpleInvoke ==
  ASSUME TypeInv, SimpleInv, WriteMore \/ AskLength \/ ReadMore
  PROVE  SimpleInv'
<1> USE ConstantsAssumption, MaxSimpleAssumption
    DEF NONE, INIT_CONNECTED, HEADERS_SENT, BODY_SENT, HEADERS_RECEIVED, NONE_CONNECTED, FAILED
<1>1. ASSUME NEW o \in {"write", "length", "read"}, NEW n, Begin(o, request, n),
             connState \in INIT_CONNECTED .. Target(o)
      PROVE  op' = o /\ count' = n /\ UNCHANGED <<client, conn, request, streams>>
  BY <1>1 DEF Begin, Target
<1>2. CASE WriteMore
  <2>1. Begin("write", request, todo) /\ pc = "write" /\ pc' = "written"
        /\ UNCHANGED <<todo, expected, got, owner, outcome>>
    BY <1>2 DEF WriteMore, Invoke
  <2>2. connState \in INIT_CONNECTED .. Target("write")
    BY <2>1 DEF SimpleInv, Sending, Target
  <2>3. op' = "write" /\ count' = todo /\ UNCHANGED <<client, conn, request, streams>>
    BY <1>1, <2>1, <2>2
  <2>4. QED
    BY <2>1, <2>3
    DEF SimpleInv, SimpleTypeOK, Pcs, OpAt, Sending, Answering, Reading, Ended, client
<1>3. CASE AskLength
  <2>1. Begin("length", request, 0) /\ pc = "length" /\ pc' = "answered"
        /\ UNCHANGED <<todo, expected, got, owner, outcome>>
    BY <1>3 DEF AskLength, Invoke
  <2>2. connState \in INIT_CONNECTED .. Target("length")
    BY <2>1 DEF SimpleInv, Sending, Target
  <2>3. op' = "length" /\ UNCHANGED <<client, conn, request, streams>>
    BY <1>1, <2>1, <2>2
  <2>4. QED
    BY <2>1, <2>3
    DEF SimpleInv, SimpleTypeOK, Pcs, OpAt, Sending, Answering, Reading, Ended, client
<1>4. CASE ReadMore
  <2>1. Begin("read", request, expected - got) /\ pc = "read" /\ pc' = "reading"
        /\ UNCHANGED <<todo, expected, got, owner, outcome>>
    BY <1>4 DEF ReadMore, Invoke
  <2>2. connState \in INIT_CONNECTED .. Target("read")
    BY <2>1 DEF SimpleInv, Reading, Target
  <2>3. op' = "read" /\ count' = expected - got /\ UNCHANGED <<client, conn, request, streams>>
    BY <1>1, <2>1, <2>2
  <2>4. LengthKnown' = LengthKnown
    BY <2>3 DEF LengthKnown, client
  <2>5. QED
    BY <2>1, <2>3, <2>4
    DEF SimpleInv, SimpleTypeOK, Pcs, OpAt, Sending, Answering, Reading, Ended, client
<1>5. QED BY <1>2, <1>3, <1>4

\* A call has returned, and its result is looked at.
LEMMA SimpleReturned ==
  ASSUME TypeInv, SimpleInv, Written \/ Answered \/ ReadDone
  PROVE  SimpleInv'
<1> USE ConstantsAssumption, MaxSimpleAssumption
    DEF NONE, INIT_CONNECTED, HEADERS_SENT, BODY_SENT, HEADERS_RECEIVED, NONE_CONNECTED, FAILED
<1> USE DEF SimpleTypeOK, Pcs, OpAt, Sending, Answering, Reading, Ended
<1>1. UNCHANGED vars /\ op = "idle"
  BY DEF Written, Answered, ReadDone, Finish
<1>2. UNCHANGED <<connState, expectedRead, responseLength, headers, request, streams, op,
                  count, err, value>> /\ LengthKnown' = LengthKnown
  BY <1>1 DEF vars, client, result, LengthKnown
<1>3. ASSUME pc' = "unref", outcome' # "none", UNCHANGED <<todo, expected, got>>,
             pc \notin {"idle", "unref"}, connState # NONE_CONNECTED,
             outcome' = "ok" => LengthKnown /\ responseLength = got
      PROVE  SimpleInv'
  BY <1>1, <1>2, <1>3 DEF SimpleInv
<1>4. CASE Written
  <2>1. CASE Finish(err) /\ err # "none"
    <3>1. err # "ok"
      BY DEF TypeInv, TypeOK, CallTypeOK, Errors
    <3>2. pc \notin {"idle", "unref"} /\ connState # NONE_CONNECTED
      BY <1>1, <1>4, <2>1 DEF Written, SimpleInv
    <3>3. QED BY <1>3, <2>1, <3>1, <3>2 DEF Finish
  <2>2. CASE err = "none"
    BY <1>1, <1>2, <1>4, <2>2 DEF Written, Finish, SimpleInv
  <2>3. QED BY <1>4, <2>1, <2>2 DEF Written
<1>5. CASE Answered
  <2>1. CASE Finish(err) /\ err # "none"
    <3>1. err # "ok"
      BY DEF TypeInv, TypeOK, CallTypeOK, Errors
    <3>2. pc \notin {"idle", "unref"} /\ connState # NONE_CONNECTED
      BY <1>1, <1>5, <2>1 DEF Answered, SimpleInv
    <3>3. QED BY <1>3, <2>1, <3>1, <3>2 DEF Finish
  <2>2. CASE err = "none" /\ Finish("OTHER")
    <3>1. pc \notin {"idle", "unref"} /\ connState # NONE_CONNECTED
      BY <1>1, <1>5, <2>2 DEF Answered, SimpleInv
    <3>2. QED BY <1>3, <2>2, <3>1 DEF Finish
  <2>3. CASE err = "none" /\ value = 0 /\ Finish("ok")
    <3>1. pc \notin {"idle", "unref"} /\ connState # NONE_CONNECTED
          /\ LengthKnown /\ responseLength = got
      BY <1>1, <1>5, <2>3 DEF Answered, SimpleInv
    <3>2. QED BY <1>3, <2>3, <3>1 DEF Finish
  <2>4. CASE /\ err = "none" /\ value \in 1 .. MaxSimple
             /\ pc' = "read" /\ expected' = value
             /\ UNCHANGED <<todo, got, owner, outcome>>
    BY <1>1, <1>2, <1>5, <2>4 DEF Answered, SimpleInv
  <2>5. QED BY <1>5, <2>1, <2>2, <2>3, <2>4 DEF Answered
<1>6. CASE ReadDone
  <2>1. CASE Finish(err) /\ err # "none"
    <3>1. err # "ok"
      BY DEF TypeInv, TypeOK, CallTypeOK, Errors
    <3>2. pc \notin {"idle", "unref"} /\ connState # NONE_CONNECTED
      BY <1>1, <1>6, <2>1 DEF ReadDone, SimpleInv
    <3>3. QED BY <1>3, <2>1, <3>1, <3>2 DEF Finish
  <2>2. CASE err = "none" /\ value = 0 /\ Finish("OTHER")
    <3>1. pc \notin {"idle", "unref"} /\ connState # NONE_CONNECTED
      BY <1>1, <1>6, <2>2 DEF ReadDone, SimpleInv
    <3>2. QED BY <1>3, <2>2, <3>1 DEF Finish
  <2>3. CASE /\ err = "none" /\ value > 0 /\ got + value = expected
             /\ pc' = "unref" /\ outcome' = "ok" /\ got' = expected
             /\ UNCHANGED <<todo, expected, owner>>
    BY <1>1, <1>2, <1>6, <2>3 DEF ReadDone, SimpleInv
  <2>4. CASE /\ err = "none" /\ value > 0 /\ got + value # expected
             /\ pc' = "read" /\ got' = got + value
             /\ UNCHANGED <<todo, expected, owner, outcome>>
    BY <1>1, <1>2, <1>6, <2>4 DEF ReadDone, SimpleInv
  <2>5. QED BY <1>6, <2>1, <2>2, <2>3, <2>4 DEF ReadDone
<1>7. QED BY <1>4, <1>5, <1>6

\* The stream is released: the client keeps the connection only when it is
\* ready for another request.
LEMMA SimpleUnref ==
  ASSUME TypeInv, SimpleInv, Unref
  PROVE  SimpleInv'
<1> USE DEF NONE, INIT_CONNECTED, HEADERS_SENT, BODY_SENT, HEADERS_RECEIVED, NONE_CONNECTED, FAILED
<1>1. /\ pc = "unref" /\ pc' = "idle" /\ op' = "idle"
      /\ UNCHANGED <<todo, expected, got, outcome, responseLength, headers, request>>
      /\ streams' = streams \ {request} /\ LengthKnown' = LengthKnown
  BY DEF Unref, Close, Return, LengthKnown
<1>2. connState' = IF connState = NONE_CONNECTED THEN NONE_CONNECTED ELSE NONE
  BY DEF Unref, Close
<1>3. streams' = {}
  BY <1>1 DEF SimpleInv, SimpleTypeOK
<1>4. QED
  BY <1>1, <1>2, <1>3
  DEF SimpleInv, SimpleTypeOK, Pcs, OpAt, Sending, Answering, Reading, Ended

\* A step of the call in progress, up to its return.
LEMMA SimpleStep ==
  ASSUME TypeInv, SimpleInv, Step
  PROVE  SimpleInv'
<1> USE ConstantsAssumption, MaxSimpleAssumption
    DEF NONE, INIT_CONNECTED, HEADERS_SENT, BODY_SENT, HEADERS_RECEIVED, NONE_CONNECTED, FAILED
<1> USE DEF SimpleTypeOK, Pcs, OpAt, Sending, Answering, Reading, Ended
<1>1. UNCHANGED <<pc, todo, expected, got, outcome>> /\ InCall
  BY DEF Step
<1>2. op # "idle" /\ pc \in {"written", "answered", "reading"} /\ streams = {request}
  BY <1>1
  DEF SimpleInv, InCall, SendHeaders, FinishBody, ReceiveHeaders, WriteBody, ReadBody, GetLength
<1>3. ASSUME NEW e \in Errors \ {"none"}, Fail(e)
      PROVE  SimpleInv'
  <2>1. /\ connState' = FAILED /\ op' = "idle" /\ err' # "none"
        /\ UNCHANGED <<responseLength, headers, request, streams>>
    BY <1>3 DEF Fail, Return
  <2>2. LengthKnown' = LengthKnown
    BY <2>1 DEF LengthKnown
  <2>3. QED BY <1>1, <1>2, <2>1, <2>2 DEF SimpleInv
<1>4. pc = "written" => op = "write"
  BY <1>2 DEF SimpleInv
<1>5. pc = "answered" => op = "length"
  BY <1>2 DEF SimpleInv
<1>6. pc = "reading" => op = "read" /\ connState = HEADERS_RECEIVED
  BY <1>2 DEF SimpleInv
<1>7. CASE SendHeaders
  <2>1. CASE Fail("CONNECTION_BROKEN")
    BY <1>3, <2>1 DEF Errors
  <2>2. CASE /\ connState' = HEADERS_SENT /\ connState = INIT_CONNECTED
             /\ UNCHANGED <<expectedRead, responseLength, headers, request, streams,
                            op, count, err, value>>
    BY <1>1, <1>2, <1>6, <2>2 DEF SimpleInv
  <2>3. QED BY <1>7, <2>1, <2>2 DEF SendHeaders, result
<1>8. CASE FinishBody
  <2>1. CASE Fail("OTHER")
    BY <1>3, <2>1 DEF Errors
  <2>2. CASE /\ connState' = BODY_SENT /\ connState = HEADERS_SENT /\ op # "write"
             /\ UNCHANGED <<expectedRead, responseLength, headers, request, streams,
                            op, count, err, value>>
    BY <1>1, <1>2, <1>4, <1>6, <2>2 DEF SimpleInv
  <2>3. QED BY <1>8, <2>1, <2>2 DEF FinishBody, Target, result
<1>9. CASE ReceiveHeaders
  <2>1. CASE \E e \in Errors \ {"none"} : Fail(e)
    BY <1>3, <2>1
  <2>2. ASSUME NEW h, NEW rest, AcceptHeaders(h, rest)
        PROVE  SimpleInv'
    <3> DEFINE n == h.length
    <3>1. /\ connState' = HEADERS_RECEIVED /\ headers'.length = n
          /\ expectedRead' = Atoi(n) /\ responseLength' = Atoi(n)
          /\ UNCHANGED <<request, streams, op, count, err, value>>
      BY <2>2 DEF AcceptHeaders, result
    <3>2. LengthKnown'
      BY <3>1 DEF LengthKnown
    <3>3. connState = BODY_SENT
      BY <1>9 DEF ReceiveHeaders
    <3>4. pc = "answered" /\ op = "length"
      BY <1>2, <1>4, <1>5, <1>6, <3>3 DEF SimpleInv
    <3>5. QED BY <1>1, <1>2, <3>1, <3>2, <3>4 DEF SimpleInv
  <2>3. rx \in Seq(Responses)
    BY DEF TypeInv, TypeOK, ConnTypeOK
  <2>4. QED BY <1>9, <2>1, <2>2, <2>3, AcceptedType DEF ReceiveHeaders, Errors
<1>10. CASE WriteBody
  <2>1. CASE Fail("CONNECTION_BROKEN")
    BY <1>3, <2>1 DEF Errors
  <2>2. CASE ~Fail("CONNECTION_BROKEN")
    <3>1. /\ connState' = connState /\ connState = HEADERS_SENT
          /\ pc = "written" /\ UNCHANGED <<headers, request, streams>>
      BY <1>2, <1>5, <1>6, <1>10, <2>2 DEF WriteBody, client
    <3>2. op = "write" /\ count = todo /\ todo \in Nat
      BY <1>10, <3>1 DEF WriteBody, SimpleInv
    <3>3. \/ Return("OTHER", -1)
          \/ \E n \in 1 .. count : Return("none", n)
      BY <1>10, <2>2 DEF WriteBody
    <3>4. op' = "idle" /\ (err' = "OTHER" \/ (err' = "none" /\ value' \in 1 .. todo))
      <4>1. CASE Return("OTHER", -1)
        BY <4>1 DEF Return
      <4>2. ASSUME NEW n \in 1 .. count, Return("none", n)
            PROVE  op' = "idle" /\ err' = "none" /\ value' \in 1 .. todo
        BY <3>2, <4>2 DEF Return
      <4>3. QED BY <3>3, <4>1, <4>2
    <3>5. QED BY <1>1, <1>2, <3>1, <3>4 DEF SimpleInv
  <2>3. QED BY <2>1, <2>2
<1>11. CASE ReadBody
  <2>1. pc = "reading"
    BY <1>2, <1>4, <1>5, <1>11 DEF ReadBody
  <2>2. CASE Fail("CONNECTION_BROKEN")
    BY <1>3, <2>2 DEF Errors
  <2>3. CASE ~Fail("CONNECTION_BROKEN")
    <3>1. expectedRead = expected - got /\ expectedRead > 0 /\ count = expectedRead
      BY <1>2, <1>6, <2>1 DEF SimpleInv
    <3>2. UNCHANGED <<responseLength, headers, request, streams>>
      BY <1>11, <2>3 DEF ReadBody, client
    <3>3. /\ op' = "idle" /\ err' = "none" /\ value' \in 0 .. expectedRead
          /\ IF value' = expectedRead
             THEN /\ connState' \in {NONE, NONE_CONNECTED}
                  /\ connState' = NONE_CONNECTED => headers.keep
             ELSE connState' = HEADERS_RECEIVED /\ expectedRead' = expectedRead - value'
      <4>1. CASE rx # << >>
        <5> DEFINE most == Smaller(Size(Head(rx)), Smaller(count, expectedRead))
        <5>1. PICK n \in 1 .. most :
                /\ expectedRead' = ReadLeft(n)
                /\ IF ReadLeft(n) = 0 THEN EndOfResponse(Consume(n)) ELSE UNCHANGED connState
                /\ Return("none", n)
          BY <1>11, <2>3, <3>1, <4>1 DEF ReadBody
        <5>2. Size(Head(rx)) \in Nat
          BY <4>1, HeadReadType, SizeNat DEF TypeInv, TypeOK, ConnTypeOK
        <5>3. n \in 1 .. expectedRead
          BY <3>1, <5>2 DEF Smaller, SimpleInv
        <5>4. value' = n /\ ReadLeft(n) = expectedRead - n /\ op' = "idle" /\ err' = "none"
          BY <3>1, <5>1 DEF Return, ReadLeft
        <5>5. QED BY <1>6, <2>1, <3>1, <5>1, <5>3, <5>4 DEF EndOfResponse
      <4>2. CASE rx = << >>
        BY <1>11, <2>3, <3>1, <4>2 DEF ReadBody, Return, client
      <4>3. QED BY <4>1, <4>2
    <3>4. LengthKnown' = LengthKnown
      BY <3>2 DEF LengthKnown
    <3>5. QED BY <1>1, <1>2, <2>1, <3>1, <3>2, <3>3, <3>4 DEF SimpleInv
  <2>4. QED BY <2>2, <2>3
<1>12. CASE GetLength
  <2>1. /\ op = "length" /\ connState = HEADERS_RECEIVED
        /\ op' = "idle" /\ UNCHANGED <<connState, expectedRead, responseLength, headers,
                                      request, streams>>
        /\ err' = "OTHER" \/ (err' = "none" /\ value' = responseLength)
    BY <1>12 DEF GetLength, Return, client
  <2>2. pc = "answered" /\ LengthKnown' = LengthKnown
    BY <1>2, <1>4, <1>6, <2>1 DEF LengthKnown
  <2>3. QED BY <1>1, <1>2, <2>1, <2>2 DEF SimpleInv
<1>13. QED BY <1>1, <1>7, <1>8, <1>9, <1>10, <1>11, <1>12 DEF InCall

\* The server and the network leave the client and its call alone.
LEMMA SimpleNetwork ==
  ASSUME SimpleInv, UNCHANGED <<client, request, streams, op, by, count, result, simple>>
  PROVE  SimpleInv'
<1>1. LengthKnown' = LengthKnown
  BY DEF LengthKnown, client
<1>2. QED
  BY <1>1
  DEF SimpleInv, SimpleTypeOK, Sending, Answering, Reading, Ended, client, result, simple

LEMMA SimpleInvStep ==
  ASSUME TypeInv, SimpleInv, [SNext]_<<vars, simple>>
  PROVE  SimpleInv'
<1>1. CASE Network /\ UNCHANGED simple
  <2>1. UNCHANGED <<client, request, streams, op, by, count, result>>
    BY <1>1 DEF Network, Respond, Break
  <2>2. QED BY <1>1, <2>1, SimpleNetwork
<1>2. CASE UNCHANGED <<vars, simple>>
  BY <1>2, SimpleNetwork DEF vars
<1>3. QED
  BY <1>1, <1>2, SimpleStart, SimpleInvoke, SimpleReturned, SimpleUnref, SimpleStep
  DEF SNext, Progress

LEMMA SimpleInit == SInit => TypeInv /\ SimpleInv
<1> SUFFICES ASSUME SInit PROVE TypeInv /\ SimpleInv
  OBVIOUS
<1>1. TypeInv
  BY TypeInit DEF SInit
<1>2. SimpleInv
  BY MaxSimpleAssumption
  DEF SInit, Init, SimpleInv, SimpleTypeOK, Pcs, OpAt, Sending, Answering, Reading, Ended,
      NONE, HEADERS_SENT, HEADERS_RECEIVED, NONE_CONNECTED, FAILED
<1>3. QED BY <1>1, <1>2

\* Whatever the server and the network do, between requests no stream is left
\* open and no call is left running, and a connection is kept only after a
\* request that succeeded and whose response allowed it
\* (mega-http-client.c:690-772).  Nothing is said of the bytes on it: with
\* lengths that are ints it carries none (FramingAgrees).
THEOREM NothingStaysOpen == SSpec => []NothingLeftOpen
<1>1. TypeInv /\ SimpleInv /\ [SNext]_<<vars, simple>> => TypeInv' /\ SimpleInv'
  BY SimpleIsStep, TypeStep, SimpleInvStep
<1>2. SimpleInv => NothingLeftOpen
  BY DEF SimpleInv, SimpleTypeOK, Pcs, OpAt, Ended, NothingLeftOpen
<1>3. QED BY SimpleInit, <1>1, <1>2, PTL DEF SSpec

-----------------------------------------------------------------------------
(* The promise, when every response length is an int.                        *)

\* The bytes read are those of the answer to the current request, and the
\* length they were counted against is one the server announced.
Owned ==
    /\ got > 0 => owner = request
    /\ pc = "reading" /\ op = "idle" /\ err = "none" /\ value > 0 => owner = request
    /\ pc = "answered" /\ connState = HEADERS_RECEIVED => headers.length \in ResponseLengths
    /\ pc \in {"read", "reading"} \/ outcome = "ok" => headers.length \in ResponseLengths

ClientInv == TypeInv /\ LinkInv /\ FramingInv

PromiseInv == ClientInv /\ SimpleInv /\ Owned

\* A step of a call reads the answer to the current request only.
LEMMA OwnedStep ==
  ASSUME PromiseInv, SimpleInv', Step
  PROVE  Owned'
<1> USE DEF NONE, INIT_CONNECTED, HEADERS_SENT, BODY_SENT, HEADERS_RECEIVED, NONE_CONNECTED, FAILED
<1>1. InCall /\ UNCHANGED <<pc, got, outcome>>
      /\ owner' = IF op = "read" /\ rx # << >> /\ value' > 0 THEN Head(rx).req ELSE owner
  BY DEF Step
<1>2. /\ pc \in {"written", "answered", "reading"} /\ outcome = "none"
      /\ UNCHANGED request
  <2>1. op # "idle" /\ UNCHANGED request
    BY <1>1
    DEF InCall, SendHeaders, FinishBody, ReceiveHeaders, ReadHeaders, ReadLeftover,
        AcceptHeaders, WriteBody, ReadBody, GetLength, Fail
  <2>2. QED BY <2>1 DEF PromiseInv, SimpleInv, SimpleTypeOK, Pcs, OpAt, Ended
<1>3. rx # << >> => Head(rx).req = request
  BY OneResponse DEF PromiseInv, ClientInv, FramingInv, ResponseFraming
<1>4. got > 0 => owner' = request
  BY <1>1, <1>3 DEF PromiseInv, Owned
<1>5. pc = "reading" => op = "read" /\ connState = HEADERS_RECEIVED
  BY <1>1
  DEF PromiseInv, SimpleInv, SimpleTypeOK, OpAt, Reading, InCall, SendHeaders, FinishBody,
      ReceiveHeaders, WriteBody, ReadBody, GetLength
<1>6. pc = "reading" /\ value' > 0 => owner' = request
  <2>1. SUFFICES ASSUME pc = "reading", value' > 0 PROVE owner' = request
    OBVIOUS
  <2>2. ReadBody
    BY <1>1, <1>5, <2>1
    DEF InCall, SendHeaders, FinishBody, ReceiveHeaders, WriteBody, GetLength
  <2>3. rx # << >>
    BY <2>1, <2>2 DEF ReadBody, Fail, Return
  <2>4. QED BY <1>1, <1>3, <1>5, <2>1, <2>3
<1>7. pc = "reading" => headers'.length \in ResponseLengths
  <2>1. SUFFICES ASSUME pc = "reading" PROVE headers'.length \in ResponseLengths
    OBVIOUS
  <2>2. ReadBody
    BY <1>1, <1>5, <2>1
    DEF InCall, SendHeaders, FinishBody, ReceiveHeaders, WriteBody, GetLength
  <2>3. UNCHANGED headers
    BY <2>2 DEF ReadBody, Fail, client
  <2>4. QED BY <2>1, <2>3 DEF PromiseInv, Owned
<1>8. pc = "answered" /\ connState' = HEADERS_RECEIVED => headers'.length \in ResponseLengths
  <2>1. SUFFICES ASSUME pc = "answered", connState' = HEADERS_RECEIVED
                 PROVE  headers'.length \in ResponseLengths
    OBVIOUS
  <2>2. CASE ReceiveHeaders
    <3>1. CASE ReadHeaders
      BY <2>1, <3>1, OneResponse
      DEF ReadHeaders, AcceptHeaders, Fail, PromiseInv, ClientInv, FramingInv, Pending
    <3>2. CASE ReadLeftover
      BY <2>1, <3>2 DEF ReadLeftover, AcceptHeaders, Fail
    <3>3. QED BY <2>1, <2>2, <3>1, <3>2 DEF ReceiveHeaders, Fail
  <2>3. CASE UNCHANGED <<connState, headers>>
    BY <2>1, <2>3 DEF PromiseInv, Owned
  <2>4. op \in {"length", "idle"}
    BY <2>1 DEF PromiseInv, SimpleInv, SimpleTypeOK, OpAt
  <2>5. QED
    BY <1>1, <2>1, <2>2, <2>3, <2>4
    DEF InCall, SendHeaders, FinishBody, WriteBody, ReadBody, GetLength, Fail, client
<1>9. QED BY <1>1, <1>2, <1>4, <1>6, <1>7, <1>8 DEF Owned

\* The other steps of post_simple.
LEMMA OwnedRest ==
  ASSUME PromiseInv, SimpleInv', [SNext]_<<vars, simple>>, ~Step
  PROVE  Owned'
<1> USE DEF NONE, INIT_CONNECTED, HEADERS_SENT, BODY_SENT, HEADERS_RECEIVED, NONE_CONNECTED, FAILED
<1> USE DEF PromiseInv, Owned
<1>1. ASSUME NEW h \in Hosts, NEW n \in RequestLengths, Start(h, n)
      PROVE  Owned'
  <2>1. got' = 0 /\ pc' \in {"idle", "write", "length"} /\ outcome' # "ok"
    <3>1. err' # "ok"
      BY <1>1 DEF Start, Post, PostAccepted, PostFailed, Return
    <3>2. QED BY <1>1, <3>1 DEF Start
  <2>2. QED BY <2>1
<1>2. ASSUME NEW o \in {"write", "length", "read"}, NEW n,
             NEW w \in {"written", "answered", "reading"},
             Begin(o, request, n), pc' = w, UNCHANGED <<got, owner, outcome>>,
             w = "reading" => pc = "read", w = "answered" => pc = "length"
      PROVE  Owned'
  <2>1. value' \in {0, -1} /\ UNCHANGED <<headers, request>>
    BY <1>2 DEF Begin, Fail, Return, client
  <2>2. connState' = connState \/ connState' = FAILED
    BY <1>2 DEF Begin, Fail, client
  <2>3. pc = "length" => connState # HEADERS_RECEIVED
    BY DEF SimpleInv, Sending
  <2>4. QED BY <1>2, <2>1, <2>2, <2>3
<1>3. CASE WriteMore
  BY <1>2, <1>3 DEF WriteMore, Invoke
<1>4. CASE AskLength
  BY <1>2, <1>4 DEF AskLength, Invoke
<1>5. CASE ReadMore
  BY <1>2, <1>5 DEF ReadMore, Invoke
<1>6. CASE Written \/ Answered \/ ReadDone
  <2>1. UNCHANGED <<connState, headers, request, op, err, value>> /\ op = "idle"
    BY <1>6 DEF Written, Answered, ReadDone, Finish, vars, client, result
  <2>2. CASE Written
    BY <2>1, <2>2 DEF Written, Finish, TypeInv, TypeOK, CallTypeOK, Errors, ClientInv
  <2>3. CASE Answered
    <3>1. err = "none" => headers.length \in ResponseLengths
      BY <2>1, <2>3 DEF Answered, SimpleInv, Answering
    <3>2. QED
      BY <2>1, <2>3, <3>1 DEF Answered, Finish, TypeInv, TypeOK, CallTypeOK, Errors, ClientInv
  <2>4. CASE ReadDone
    BY <2>1, <2>4 DEF ReadDone, Finish
  <2>5. QED BY <1>6, <2>2, <2>3, <2>4
<1>7. CASE Unref
  BY <1>7 DEF Unref, Close
<1>8. CASE Network /\ UNCHANGED simple
  BY <1>8 DEF Network, Respond, Break, simple, client, result
<1>9. CASE UNCHANGED <<vars, simple>>
  BY <1>9 DEF vars, simple, client, result
<1>10. QED
  BY <1>1, <1>3, <1>4, <1>5, <1>6, <1>7, <1>8, <1>9 DEF SNext, Progress

\* FramingInv is kept by every step of post_simple.
LEMMA PromiseStep ==
  ASSUME FitsInt, PromiseInv, [SNext]_<<vars, simple>>
  PROVE  PromiseInv'
<1>1. [AnyStep]_vars
  BY SimpleIsStep DEF PromiseInv, ClientInv
<1>2. ClientInv'
  BY <1>1, TypeStep, LinkStep, FramingStep DEF PromiseInv, ClientInv
<1>3. SimpleInv'
  BY SimpleInvStep DEF PromiseInv, ClientInv
<1>4. Owned'
  BY <1>3, OwnedStep, OwnedRest
<1>5. QED BY <1>2, <1>3, <1>4 DEF PromiseInv

LEMMA PromiseInit == SInit => PromiseInv
<1> SUFFICES ASSUME SInit PROVE PromiseInv
  OBVIOUS
<1>1. LinkInv /\ FramingInv
  BY ClientInit DEF SInit
<1>2. Owned
  BY DEF SInit, Init, Owned
<1>3. QED BY SimpleInit, <1>1, <1>2 DEF PromiseInv, ClientInv

\* A response length that was accepted is read in full.
LEMMA WholeLength ==
  ASSUME FitsInt, PromiseInv, pc \in {"unref", "idle"}, outcome = "ok"
  PROVE  /\ got = headers.length /\ headers.length \in ResponseLengths
         /\ got <= MaxSimple
<1>1. headers.length \in ResponseLengths
  BY DEF PromiseInv, Owned
<1>2. Atoi(headers.length) = headers.length
  BY <1>1, AtoiFits
<1>3. Atoi(headers.length) = got
  BY DEF PromiseInv, SimpleInv, Ended, LengthKnown
<1>4. got <= MaxSimple
  BY MaxSimpleAssumption DEF PromiseInv, SimpleInv, SimpleTypeOK
<1>5. QED BY <1>1, <1>2, <1>3, <1>4

\* With lengths that are ints no answer over the limit is ever accepted
\* (mega-http-client.c:738-742).
THEOREM LimitHolds ==
  ASSUME FitsInt
  PROVE  SSpec => []SizeLimit
<1>1. PromiseInv /\ [SNext]_<<vars, simple>> => PromiseInv'
  BY PromiseStep
<1>2. PromiseInv => SizeLimit
  BY WholeLength DEF SizeLimit, Done
<1>3. QED BY PromiseInit, <1>1, <1>2, PTL DEF SSpec

\* What the caller sees of a step, in the terms of HttpExchange.
LEMMA PromiseNext ==
  ASSUME FitsInt, PromiseInv, PromiseInv', [SNext]_<<vars, simple>>
  PROVE  [Promise!Next]_<<request, pc # "idle", Answer>>
<1>1. ASSUME NEW h \in Hosts, NEW n \in RequestLengths, Start(h, n)
      PROVE  Promise!Next
  <2>1. pc = "idle" /\ request < MaxRequests /\ request' = request + 1 /\ request' # 0
    BY <1>1 DEF Start, Post, PromiseInv, ClientInv, TypeInv, TypeOK, CallTypeOK
  <2>2. CASE err' = "none"
    <3>1. pc' # "idle"
      BY <1>1, <2>2 DEF Start
    <3>2. Answer' = Promise!Pending
      BY <3>1 DEF Answer, Done, Promise!Pending
    <3>3. QED BY <2>1, <3>1, <3>2 DEF Promise!Next, Promise!Request
  <2>3. CASE err' # "none"
    <3>1. pc' = "idle" /\ outcome' = err' /\ err' # "ok"
      BY <1>1, <2>3 DEF Start, Post, PostAccepted, PostFailed, Return
    <3>2. Answer' = Promise!Failure
      BY <2>1, <3>1 DEF Answer, Done, Promise!Failure, Promise!Pending
    <3>3. QED BY <2>1, <3>1, <3>2 DEF Promise!Next, Promise!Refuse
  <2>4. QED BY <2>2, <2>3
<1>2. CASE Unref
  <2>1. /\ pc = "unref" /\ pc' = "idle" /\ request # 0
        /\ UNCHANGED <<request, headers, got, owner, outcome>>
    BY <1>2
    DEF Unref, Close, PromiseInv, SimpleInv, SimpleTypeOK, Ended, ClientInv, TypeInv, TypeOK,
        CallTypeOK
  <2>2. CASE outcome = "ok"
    <3>1. got = headers.length /\ headers.length \in ResponseLengths /\ got <= MaxSimple
      BY <2>1, <2>2, WholeLength
    <3>2. got > 0 => owner = request
      BY DEF PromiseInv, Owned
    <3>3. Answer' = Promise!Body(request, got)
      <4>1. Done' /\ outcome' = "ok" /\ got' = got /\ headers'.length = got
        BY <2>1, <2>2, <3>1, <1>2
        DEF Done, PromiseInv, SimpleInv, SimpleTypeOK, Ended, ClientInv, TypeInv, TypeOK,
            CallTypeOK
      <4>2. (IF got' > 0 THEN owner' ELSE request') = request
        BY <2>1, <3>2
      <4>3. Answer' = [kind |-> "body", req |-> request, announced |-> got, received |-> got]
        BY <2>1, <4>1, <4>2 DEF Answer, Done
      <4>4. QED BY <4>3 DEF Promise!Body
    <3>4. QED BY <2>1, <3>1, <3>3 DEF Promise!Next, Promise!Answer
  <2>3. CASE outcome # "ok"
    <3>1. Answer' = Promise!Failure
      BY <2>1, <2>3 DEF Answer, Done, Promise!Failure, Promise!Pending
    <3>2. QED BY <2>1, <3>1 DEF Promise!Next, Promise!Answer
  <2>4. QED BY <2>2, <2>3
<1>3. ASSUME pc # "idle", pc' # "idle", request' = request
      PROVE  UNCHANGED <<request, pc # "idle", Answer>>
  BY <1>3 DEF Answer, Done
<1>4. CASE Step
  <2>1. pc # "idle" /\ pc' = pc /\ request' = request
    BY <1>4
    DEF Step, InCall, SendHeaders, FinishBody, ReceiveHeaders, ReadHeaders, ReadLeftover,
        AcceptHeaders, WriteBody, ReadBody, GetLength, Fail, PromiseInv, SimpleInv, SimpleTypeOK, OpAt
  <2>2. QED BY <1>3, <2>1
<1>5. CASE WriteMore \/ AskLength \/ ReadMore
  <2>1. pc # "idle" /\ pc' # "idle" /\ request' = request
    BY <1>5 DEF WriteMore, AskLength, ReadMore, Invoke, Begin, Fail
  <2>2. QED BY <1>3, <2>1
<1>6. CASE Written \/ Answered \/ ReadDone
  <2>1. pc # "idle" /\ pc' # "idle" /\ request' = request
    BY <1>6 DEF Written, Answered, ReadDone, Finish, vars
  <2>2. QED BY <1>3, <2>1
<1>7. CASE UNCHANGED <<client, request, simple>>
  BY <1>7 DEF Answer, Done, client, simple
<1>8. CASE Network /\ UNCHANGED simple
  BY <1>7, <1>8 DEF Network, Respond, Break
<1>9. CASE UNCHANGED <<vars, simple>>
  BY <1>7, <1>9 DEF vars
<1>10. QED
  BY <1>1, <1>2, <1>4, <1>5, <1>6, <1>8, <1>9 DEF SNext, Progress

\* post_simple implements HttpExchange: with lengths that are ints, each
\* request ends once, with an error or with the whole body of the answer to
\* that very request and no more than MaxSimple bytes, whatever the network
\* cuts short, splits or breaks and however connections are kept.
THEOREM KeepsPromise ==
  ASSUME FitsInt
  PROVE  SSpec => Promise!Safety
<1>1. SInit => Promise!Init
  BY DEF SInit, Init, Promise!Init, Promise!Pending, Answer, Done
<1>2. PromiseInv /\ [SNext]_<<vars, simple>> => PromiseInv'
  BY PromiseStep
<1>3. PromiseInv /\ PromiseInv' /\ [SNext]_<<vars, simple>>
        => [Promise!Next]_<<request, pc # "idle", Answer>>
  BY PromiseNext
<1>4. QED BY PromiseInit, <1>1, <1>2, <1>3, PTL DEF SSpec, Promise!Safety

-----------------------------------------------------------------------------
(* A command over the client: ApiCall.                                      *)

-----------------------------------------------------------------------------
(* The pauses and the types.                                                *)

RetryInv == ApiTypeOK /\ BoundedRetry

\* Every step keeps the types and doubles the pause within its bound.
LEMMA RetryStep ==
  ASSUME RetryInv, [ApiNext]_apiVars
  PROVE  RetryInv'
<1> USE DelaysAssumption DEF RetryInv, ApiTypeOK, BoundedRetry, Replies, Results
<1>1. CASE Call
  BY <1>1 DEF Call
<1>2. CASE Attempt
  BY <1>2 DEF Attempt
<1>3. CASE Execute
  BY <1>3 DEF Execute
<1>4. CASE Decline
  BY <1>4 DEF Decline
<1>5. CASE RequestLost
  BY <1>5 DEF RequestLost, HttpFailed, HttpErrors
<1>6. CASE AnswerLost
  BY <1>6 DEF AnswerLost, HttpFailed
<1>7. CASE Receive
  BY <1>7 DEF Receive
<1>8. CASE Check
  BY <1>8 DEF Check
<1>9. CASE Pause
  BY <1>9 DEF Pause
<1>10. CASE Backoff
  BY <1>10 DEF Backoff
<1>11. CASE UNCHANGED apiVars
  BY <1>11 DEF apiVars
<1>12. QED
  BY <1>1, <1>2, <1>3, <1>4, <1>5, <1>6, <1>7, <1>8, <1>9, <1>10, <1>11 DEF ApiNext, ApiProgress

\* Before the first command nothing has been waited for.
LEMMA RetryInit == ApiInit => RetryInv
  BY DelaysAssumption DEF ApiInit, RetryInv, ApiTypeOK, BoundedRetry, Replies, Results

\* The state of a call is well typed, and however often the server asks for
\* another attempt or the connection breaks, no pause is longer than MaxDelay
\* and together they are shorter than twice that (oldmega.c:1266-1280).
THEOREM RetryIsBounded == ApiSpec => [](ApiTypeOK /\ BoundedRetry)
<1>1. RetryInv /\ [ApiNext]_apiVars => RetryInv'
  BY RetryStep
<1>2. RetryInv => ApiTypeOK /\ BoundedRetry
  BY DEF RetryInv
<1>3. QED BY RetryInit, <1>1, <1>2, PTL DEF ApiSpec

-----------------------------------------------------------------------------
(* How often a command is carried out.                                      *)

\* Where no answer to the command is on its way or accepted, every time it
\* was carried out an answer was lost.
Repeatable ==
    \/ phase \in {"attempt", "sent", "sleep"}
    \/ phase = "answered" /\ id \notin executed
    \/ phase = "received" /\ response \in {"EAGAIN", "error"}
    \/ phase = "idle" /\ verdict \in {"server_error", "gave_up"}

OnceInv ==
    /\ IsFiniteSet(executed)
    /\ phase # "idle" => verdict = "none"
    /\ phase = "sent" => id \notin executed
    /\ phase = "answered" /\ reply = "value" => id \in executed
    /\ phase = "answered" /\ reply \in {"error", "EAGAIN"} => id \notin executed
    /\ phase = "received" /\ response = "value" => id \in executed
    /\ SuccessWasExecuted
    /\ RepeatedOnlyAfterLoss
    /\ Repeatable => Cardinality(executed) <= lost

\* Carrying the command out once more adds one id.
LEMMA ExecuteCounts ==
  ASSUME ApiTypeOK, OnceInv, Execute
  PROVE  /\ IsFiniteSet(executed') /\ id \in executed'
         /\ Cardinality(executed') <= lost + 1
<1>1. /\ IsFiniteSet(executed \cup {id})
      /\ Cardinality(executed \cup {id}) = Cardinality(executed) + 1
  BY FS_AddElement DEF Execute, OnceInv
<1>2. Cardinality(executed) <= lost /\ Cardinality(executed) \in Nat
  BY FS_CardinalityType DEF Execute, OnceInv, Repeatable
<1>3. QED BY <1>1, <1>2 DEF Execute, ApiTypeOK

\* Every step keeps it.
LEMMA OnceStep ==
  ASSUME ApiTypeOK, OnceInv, [ApiNext]_apiVars
  PROVE  OnceInv'
<1>a. Cardinality(executed) \in Nat /\ lost \in Nat /\ id \in Nat /\ executed \subseteq 0 .. id
  BY FS_CardinalityType DEF OnceInv, ApiTypeOK
<1>1. CASE Call
  <2>1. IsFiniteSet({}) /\ Cardinality({}) = 0
    BY FS_EmptySet
  <2>2. QED
    BY <1>1, <2>1 DEF Call, OnceInv, SuccessWasExecuted, RepeatedOnlyAfterLoss, Repeatable
<1>2. CASE Attempt
  <2>1. id + 1 \notin executed
    BY <1>a
  <2>2. Cardinality(executed) <= lost /\ verdict = "none"
    BY <1>2 DEF Attempt, OnceInv, Repeatable
  <2>3. QED
    BY <1>a, <1>2, <2>1, <2>2
    DEF Attempt, OnceInv, SuccessWasExecuted, RepeatedOnlyAfterLoss, Repeatable
<1>3. CASE Execute
  BY <1>3, ExecuteCounts
  DEF Execute, OnceInv, SuccessWasExecuted, RepeatedOnlyAfterLoss, Repeatable
<1>4. CASE Decline
  BY <1>4 DEF Decline, OnceInv, SuccessWasExecuted, RepeatedOnlyAfterLoss, Repeatable
<1>5. CASE RequestLost
  BY <1>a, <1>5
  DEF RequestLost, HttpFailed, OnceInv, SuccessWasExecuted, RepeatedOnlyAfterLoss, Repeatable
<1>6. CASE AnswerLost
  BY <1>a, <1>6
  DEF AnswerLost, HttpFailed, OnceInv, SuccessWasExecuted, RepeatedOnlyAfterLoss, Repeatable
<1>7. CASE Receive
  BY <1>a, <1>7 DEF Receive, OnceInv, SuccessWasExecuted, RepeatedOnlyAfterLoss, Repeatable
<1>8. CASE Check
  BY <1>a, <1>8 DEF Check, OnceInv, SuccessWasExecuted, RepeatedOnlyAfterLoss, Repeatable
<1>9. CASE Pause
  BY <1>9 DEF Pause, OnceInv, SuccessWasExecuted, RepeatedOnlyAfterLoss, Repeatable
<1>10. CASE Backoff
  BY <1>10 DEF Backoff, OnceInv, SuccessWasExecuted, RepeatedOnlyAfterLoss, Repeatable
<1>11. CASE UNCHANGED apiVars
  BY <1>11 DEF apiVars, OnceInv, SuccessWasExecuted, RepeatedOnlyAfterLoss, Repeatable
<1>12. QED
  BY <1>1, <1>2, <1>3, <1>4, <1>5, <1>6, <1>7, <1>8, <1>9, <1>10, <1>11 DEF ApiNext, ApiProgress

\* A command is carried out at most once more than answers to it were lost; a
\* success is the answer to an attempt that carried it out; and a refusal
\* with no answer lost means it was never carried out.
THEOREM AtLeastOnce ==
  ApiSpec => [](SuccessWasExecuted /\ RepeatedOnlyAfterLoss /\ RefusalLeavesNothing)
<1>1. ApiInit => OnceInv
  BY FS_EmptySet DEF ApiInit, OnceInv, SuccessWasExecuted, RepeatedOnlyAfterLoss, Repeatable
<1>2. RetryInv /\ [ApiNext]_apiVars => RetryInv'
  BY RetryStep
<1>3. RetryInv /\ OnceInv /\ [ApiNext]_apiVars => OnceInv'
  BY OnceStep DEF RetryInv
<1>4. RetryInv /\ OnceInv => SuccessWasExecuted /\ RepeatedOnlyAfterLoss /\ RefusalLeavesNothing
  <2> SUFFICES ASSUME RetryInv, OnceInv
               PROVE  SuccessWasExecuted /\ RepeatedOnlyAfterLoss /\ RefusalLeavesNothing
    OBVIOUS
  <2>1. ASSUME verdict \in {"server_error", "gave_up"}, lost = 0
        PROVE  executed = {}
    <3>1. Cardinality(executed) <= 0
      BY <2>1 DEF OnceInv, Repeatable
    <3>2. Cardinality(executed) \in Nat
      BY FS_CardinalityType DEF OnceInv
    <3>3. QED BY <3>1, <3>2, FS_EmptySet DEF OnceInv
  <2>2. QED BY <2>1 DEF OnceInv, RefusalLeavesNothing
<1>5. QED BY RetryInit, <1>1, <1>2, <1>3, <1>4, PTL DEF ApiSpec

\* What the caller is told is what the server did: "ok" names an attempt that
\* carried the command out, and a refusal or giving up left nothing behind
\* unless an answer was lost (oldmega.c:1190-1411).
THEOREM ResultsAreTrue == ApiSpec => []ResultIsTrue
<1>1. SuccessWasExecuted /\ RefusalLeavesNothing => ResultIsTrue
  BY DEF ResultIsTrue
<1>2. QED BY AtLeastOnce, <1>1, PTL
=============================================================================
