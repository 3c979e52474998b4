------------------------- MODULE HttpSessionProofs -------------------------
(***************************************************************************)
(* Theorems about HttpSession, for streams of any length.                  *)
(***************************************************************************)
EXTENDS HttpSession, SequenceTheorems, TLAPS

Responses == [request : Requests, code : {"reply", "timeout", "error"},
              close : BOOLEAN]

\* Calls are numbered like the requests they are for, and none is ahead of
\* the decoder.
Numbered(call) == call.generation = call.request /\ call.request <= decoded

CallsAreNumbered ==
  /\ generation = decoded
  /\ \A call \in timers \cup running : Numbered(call)
  /\ \A n \in 1..Len(queue) : Numbered(queue[n])

\* Before the connection callback nothing has happened.
BeforeConnect ==
  conn = "none" =>
    /\ received = 0 /\ decoded = 0 /\ ~inFlight
    /\ timers = {} /\ running = {} /\ queue = <<>> /\ wire = <<>>

\* While the connection is up every decoded request has its response on the
\* wire, but for the one in flight, which is in one place only.
Pending ==
  conn = "up" =>
    /\ Len(wire) = IF inFlight THEN decoded - 1 ELSE decoded
    /\ ~inFlight => running = {} /\ queue = <<>>
    /\ \/ queue = <<>>
       \/ Len(queue) = 1 /\ running = {}

SessionInv ==
  /\ TypeOK
  /\ CallsAreNumbered
  /\ BeforeConnect
  /\ Pending
  /\ AnswersInOrder
  /\ OneAtATime
  /\ NothingStranded

-----------------------------------------------------------------------------
(* Sequences of length one, and the kinds of result Decode has.            *)

LEMMA TailOfOne ==
  ASSUME NEW S, NEW s \in Seq(S), Len(s) = 1
  PROVE  Tail(s) = <<>> /\ Head(s) = s[1] /\ s[1] \in S
  <1>1. Tail(s) \in Seq(S) /\ Len(Tail(s)) = 0
    OBVIOUS
  <1>2. Tail(s) = <<>>
    BY <1>1, EmptySeq
  <1>3. Head(s) = s[1] /\ s[1] \in S
    OBVIOUS
  <1>4. QED
    BY <1>2, <1>3

LEMMA Decoding ==
  ASSUME TypeOK, NEW n \in 0..(2 * MaxRequests)
  PROVE  /\ Decode(n) \in {"Incomplete", "BadRequest", "Complete"}
         /\ Decode(n) # "Incomplete" => decoded + 1 \in Requests
  BY BoundsAssumption DEF TypeOK, Decode, Requests

\* The initial states satisfy the invariant.
LEMMA InitSession == Init => SessionInv
  <1> SUFFICES ASSUME Init PROVE SessionInv
    OBVIOUS
  <1>1. TypeOK
    <2>1. 0 \in 0..(2 * MaxRequests) /\ 0 \in 0..MaxRequests
      BY BoundsAssumption
    <2>2. <<>> \in Seq(Calls) /\ <<>> \in Seq(Responses)
      OBVIOUS
    <2>3. QED
      BY <2>1, <2>2 DEF Init, TypeOK, Responses
  <1>2. CallsAreNumbered /\ BeforeConnect
    BY DEF Init, CallsAreNumbered, BeforeConnect
  <1>3. Pending /\ AnswersInOrder /\ OneAtATime
    BY DEF Init, Pending, AnswersInOrder, OneAtATime
  <1>4. NothingStranded
    BY DEF Init, NothingStranded, NoRequestStranded, DeadlineArmed, HasSession
  <1>5. QED
    BY <1>1, <1>2, <1>3, <1>4 DEF SessionInv

-----------------------------------------------------------------------------
(* processNext, called with no request in flight.                          *)

\* What processNext is called with: the caller has put the response that
\* was due, if any, on the wire.
Prepared(n, deadlines, replies, out) ==
  /\ n \in 0..(2 * MaxRequests)
  /\ HasSession
  /\ deadlines \subseteq Calls /\ replies \in Seq(Calls) /\ out \in Seq(Responses)
  /\ \A call \in deadlines : Numbered(call)
  /\ \A k \in 1..Len(replies) : Numbered(replies[k])
  /\ \A k \in 1..Len(out) : /\ out[k].request = k
                            /\ out[k].close => k = Len(out) /\ conn # "up"
  /\ conn = "up" => Len(out) = decoded /\ running = {} /\ replies = <<>>

LEMMA StayingSession ==
  ASSUME SessionInv,
         NEW n, NEW deadlines, NEW replies, NEW out,
         Prepared(n, deadlines, replies, out),
         received' = n, stream' = stream,
         Decode(n) = "Incomplete",
         Stay(FALSE, deadlines, replies, out)
  PROVE  SessionInv'
  <1>1. TypeOK'
    BY DEF SessionInv, TypeOK, Prepared, Stay, Responses
  <1>2. CallsAreNumbered'
    BY DEF SessionInv, CallsAreNumbered, Prepared, Stay, Numbered
  <1>3. BeforeConnect'
    BY DEF Prepared, HasSession, Stay, BeforeConnect
  <1>4. Pending' /\ OneAtATime'
    BY DEF Prepared, Stay, Pending, OneAtATime
  <1>5. AnswersInOrder'
    BY DEF Prepared, Stay, AnswersInOrder
  <1>6. NothingStranded'
    BY DEF Stay, NothingStranded, NoRequestStranded, DeadlineArmed, Decode
  <1>7. QED
    BY <1>1, <1>2, <1>3, <1>4, <1>5, <1>6 DEF SessionInv

LEMMA RejectingSession ==
  ASSUME SessionInv,
         NEW n, NEW deadlines, NEW replies, NEW out,
         Prepared(n, deadlines, replies, out),
         received' = n, stream' = stream,
         Decode(n) = "BadRequest",
         ProtocolError(deadlines, replies, out)
  PROVE  SessionInv'
  <1> DEFINE error == [request |-> decoded + 1, code |-> "error", close |-> TRUE]
  <1>1. decoded + 1 \in Requests /\ error \in Responses
    BY Decoding DEF SessionInv, Prepared, Responses
  <1>2. conn' = "closing"
    BY DEF Prepared, HasSession, ProtocolError, Shutdown
  <1>3. ASSUME conn = "up" PROVE wire' \in Seq(Responses) /\ AnswersInOrder'
    <2>1. wire' = Append(out, error) /\ Len(out) = decoded /\ out \in Seq(Responses)
      BY <1>3 DEF ProtocolError, Sent, Prepared
    <2>2. wire' \in Seq(Responses) /\ Len(wire') = Len(out) + 1
          /\ wire'[Len(out) + 1] = error
          /\ \A k \in 1..Len(out) : wire'[k] = out[k]
      BY <1>1, <2>1
    <2>3. \A k \in 1..Len(out) : out[k].request = k /\ ~out[k].close
      BY <1>3 DEF Prepared
    <2>4. ASSUME NEW k \in 1..Len(wire')
          PROVE  wire'[k].request = k /\ (wire'[k].close => k = Len(wire'))
      <3>1. CASE k = Len(out) + 1
        BY <3>1, <2>1, <2>2
      <3>2. CASE k \in 1..Len(out)
        BY <3>2, <2>2, <2>3
      <3>3. Len(out) \in Nat
        BY <2>1
      <3>4. QED
        BY <3>1, <3>2, <3>3, <2>2, <2>4
    <2>5. QED
      BY <1>2, <2>2, <2>4 DEF AnswersInOrder
  <1>4. ASSUME conn # "up" PROVE wire' \in Seq(Responses) /\ AnswersInOrder'
    <2>1. wire' = out
      BY <1>4 DEF ProtocolError, Sent
    <2>2. QED
      BY <1>2, <2>1 DEF Prepared, AnswersInOrder
  <1>5. wire' \in Seq(Responses) /\ AnswersInOrder'
    BY <1>3, <1>4
  <1>6. TypeOK'
    BY <1>2, <1>5 DEF SessionInv, TypeOK, Prepared, ProtocolError, Responses
  <1>7. CallsAreNumbered'
    BY DEF SessionInv, CallsAreNumbered, Prepared, ProtocolError, Numbered
  <1>8. BeforeConnect' /\ Pending' /\ OneAtATime'
    BY <1>2 DEF BeforeConnect, Pending, OneAtATime
  <1>9. NothingStranded'
    BY <1>2 DEF ProtocolError, NothingStranded, NoRequestStranded, DeadlineArmed
  <1>10. QED
    BY <1>5, <1>6, <1>7, <1>8, <1>9 DEF SessionInv

LEMMA DispatchingSession ==
  ASSUME SessionInv,
         NEW n, NEW deadlines, NEW replies, NEW out,
         Prepared(n, deadlines, replies, out),
         received' = n, stream' = stream,
         Decode(n) = "Complete",
         Dispatch(deadlines, replies, out)
  PROVE  SessionInv'
  <1>1. decoded + 1 \in Requests /\ generation = decoded /\ decoded \in Nat
    BY Decoding DEF SessionInv, CallsAreNumbered, Prepared, TypeOK
  <1>2. PICK call \in Calls :
          /\ call.generation = decoded + 1 /\ call.request = decoded + 1
          /\ decoded' = decoded + 1 /\ generation' = generation + 1 /\ inFlight' = TRUE
          /\ timers' = deadlines \cup {call} /\ wire' = out /\ conn' = conn
          /\ \/ queue' = Append(replies, call) /\ running' = running
             \/ running' = running \cup {call} /\ queue' = replies
    <2>1. [generation |-> generation + 1, request |-> decoded + 1] \in Calls
      BY <1>1 DEF Calls
    <2>2. QED
      BY <1>1, <2>1 DEF Dispatch, Deadline
  <1>20. replies \in Seq(Calls)
    BY DEF Prepared
  <1>3. \A k \in 1..Len(queue') :
          queue'[k] = call \/ (k \in 1..Len(replies) /\ queue'[k] = replies[k])
    <2>1. CASE queue' = Append(replies, call)
      BY <1>1, <1>20, <2>1
    <2>2. CASE queue' = replies
      BY <2>2
    <2>3. QED
      BY <1>2, <2>1, <2>2
  <1>4. queue' \in Seq(Calls)
    BY <1>1, <1>2, <1>20
  <1>5. TypeOK'
    BY <1>1, <1>2, <1>4 DEF SessionInv, TypeOK, Prepared, Responses, Requests
  <1>6. CallsAreNumbered'
    <2>1. \A c \in Calls : Numbered(c) => Numbered(c)'
      BY <1>1, <1>2 DEF Numbered, Calls, Requests
    <2>2. Numbered(call)'
      BY <1>1, <1>2 DEF Numbered
    <2>3. ASSUME NEW c \in timers' \cup running' PROVE Numbered(c)'
      <3>1. c = call \/ c \in deadlines \cup running
        BY <1>2
      <3>2. c \in deadlines \cup running => Numbered(c) /\ c \in Calls
        BY DEF SessionInv, CallsAreNumbered, TypeOK, Prepared
      <3>3. QED
        BY <2>1, <2>2, <3>1, <3>2
    <2>4. ASSUME NEW k \in 1..Len(queue'), NEW c, c = queue'[k] PROVE Numbered(c)'
      <3>1. k \in 1..Len(replies) => Numbered(replies[k]) /\ replies[k] \in Calls
        BY <1>20 DEF Prepared
      <3>2. QED
        BY <1>3, <2>1, <2>2, <2>4, <3>1
    <2>6. \A k \in 1..Len(queue') : (\A c : c = queue'[k] => Numbered(c)')
      BY <2>4
    <2>7. \A k \in 1..Len(queue') : /\ queue'[k].generation = queue'[k].request
                                   /\ queue'[k].request <= decoded'
      BY <2>6 DEF Numbered
    <2>8. QED
      BY <1>1, <1>2, <2>3, <2>7 DEF CallsAreNumbered, Numbered
  <1>7. BeforeConnect'
    BY <1>2 DEF Prepared, HasSession, BeforeConnect
  <1>8. Pending'
    <2>1. SUFFICES ASSUME conn = "up" PROVE Pending'
      BY <1>2 DEF Pending
    <2>2. Len(out) = decoded /\ running = {} /\ replies = <<>>
      BY <2>1 DEF Prepared
    <2>3. queue' = <<>> \/ (Len(queue') = 1 /\ running' = {})
      BY <1>2, <2>2
    <2>4. QED
      BY <1>1, <1>2, <2>2, <2>3 DEF Pending
  <1>9. OneAtATime'
    <2>1. SUFFICES ASSUME conn = "up" PROVE OneAtATime'
      BY <1>2 DEF OneAtATime
    <2>2. running = {} /\ replies = <<>>
      BY <2>1 DEF Prepared
    <2>3. \A c \in running' : c = call
      BY <1>2, <2>2
    <2>4. \A k \in 1..Len(queue') : queue'[k] = call
      BY <1>3, <2>2
    <2>5. QED
      BY <1>1, <1>2, <2>3, <2>4 DEF OneAtATime
  <1>10. AnswersInOrder'
    BY <1>2 DEF Prepared, AnswersInOrder
  <1>11. NothingStranded'
    BY <1>1, <1>2 DEF NothingStranded, NoRequestStranded, DeadlineArmed
  <1>12. QED
    BY <1>5, <1>6, <1>7, <1>8, <1>9, <1>10, <1>11 DEF SessionInv

LEMMA ProcessingSession ==
  ASSUME SessionInv,
         NEW n, NEW deadlines, NEW replies, NEW out,
         Prepared(n, deadlines, replies, out),
         received' = n, stream' = stream,
         ProcessNext(FALSE, n, deadlines, replies, out)
  PROVE  SessionInv'
  <1>1. CASE Decode(n) = "Incomplete" /\ Stay(FALSE, deadlines, replies, out)
    BY <1>1, StayingSession
  <1>2. CASE Decode(n) = "BadRequest" /\ ProtocolError(deadlines, replies, out)
    BY <1>2, RejectingSession
  <1>3. CASE Decode(n) = "Complete" /\ Dispatch(deadlines, replies, out)
    BY <1>3, DispatchingSession
  <1>4. QED
    BY <1>1, <1>2, <1>3 DEF ProcessNext

-----------------------------------------------------------------------------
(* complete, for the call the session waits for.                           *)

\* The response goes where the order wants it: it is the one for the last
\* decoded request, and all the others have been sent.
LEMMA Answering ==
  ASSUME SessionInv,
         NEW call \in Calls, Numbered(call), IsCurrent(call),
         NEW response \in Responses, response.request = call.request
  PROVE  LET out == Sent(response, wire)
         IN  /\ out \in Seq(Responses)
             /\ \A k \in 1..Len(out) :
                  /\ out[k].request = k
                  /\ out[k].close => k = Len(out) /\ (conn # "up" \/ response.close)
             /\ conn = "up" => Len(out) = decoded
  <1>1. wire \in Seq(Responses) /\ Len(wire) \in Nat
    BY DEF SessionInv, TypeOK, Responses
  <1>2. \A k \in 1..Len(wire) : /\ wire[k].request = k
                                /\ wire[k].close => k = Len(wire) /\ conn # "up"
    BY DEF SessionInv, AnswersInOrder
  <1>3. CASE conn # "up"
    BY <1>1, <1>2, <1>3 DEF Sent
  <1>4. CASE conn = "up"
    <2>1. response.request = decoded /\ decoded \in Nat
      BY DEF SessionInv, CallsAreNumbered, Numbered, IsCurrent, TypeOK
    <2>2. Len(wire) = decoded - 1
      BY <1>4 DEF SessionInv, Pending, IsCurrent
    <2>3. /\ Append(wire, response) \in Seq(Responses)
          /\ Len(Append(wire, response)) = decoded
          /\ Append(wire, response)[decoded] = response
          /\ \A k \in 1..Len(wire) : Append(wire, response)[k] = wire[k]
      BY <1>1, <2>1, <2>2
    <2>4. ASSUME NEW k \in 1..decoded
          PROVE  /\ Append(wire, response)[k].request = k
                 /\ Append(wire, response)[k].close => k = decoded /\ response.close
      <3>1. CASE k = decoded
        BY <2>1, <2>3, <3>1
      <3>2. CASE k \in 1..Len(wire)
        BY <1>2, <1>4, <2>3, <3>2
      <3>3. k = decoded \/ k \in 1..Len(wire)
        BY <2>1, <2>2
      <3>4. QED
        BY <3>1, <3>2, <3>3
    <2>5. QED
      BY <1>4, <2>3, <2>4 DEF Sent
  <1>5. QED
    BY <1>3, <1>4

\* A response that announces the end of the connection.
LEMMA ClosingSession ==
  ASSUME SessionInv,
         NEW call \in Calls, Numbered(call), IsCurrent(call),
         NEW response \in Responses, response.request = call.request, response.close,
         NEW deadlines \in SUBSET timers,
         NEW replies \in Seq(Calls), \A k \in 1..Len(replies) : Numbered(replies[k]),
         inFlight' = FALSE, timers' = deadlines, queue' = replies,
         wire' = Sent(response, wire), Shutdown,
         UNCHANGED <<stream, received, decoded, generation, running>>
  PROVE  SessionInv'
  <1>1. conn' = "closing"
    BY DEF IsCurrent, HasSession, Shutdown
  <1>2. /\ wire' \in Seq(Responses)
        /\ \A k \in 1..Len(wire') : /\ wire'[k].request = k
                                    /\ wire'[k].close => k = Len(wire')
    BY Answering
  <1>3. TypeOK'
    BY <1>1, <1>2 DEF SessionInv, TypeOK, Responses
  <1>4. CallsAreNumbered'
    BY DEF SessionInv, CallsAreNumbered, Numbered
  <1>5. BeforeConnect' /\ Pending' /\ OneAtATime'
    BY <1>1 DEF BeforeConnect, Pending, OneAtATime
  <1>6. AnswersInOrder'
    BY <1>1, <1>2 DEF AnswersInOrder
  <1>7. NothingStranded'
    BY <1>1 DEF NothingStranded, NoRequestStranded, DeadlineArmed
  <1>8. QED
    BY <1>3, <1>4, <1>5, <1>6, <1>7 DEF SessionInv

-----------------------------------------------------------------------------
(* One lemma per action.                                                   *)

LEMMA ConnectStep == SessionInv /\ Connect => SessionInv'
  <1> SUFFICES ASSUME SessionInv, Connect PROVE SessionInv'
    OBVIOUS
  <1>1. /\ received = 0 /\ decoded = 0 /\ ~inFlight
        /\ timers = {} /\ running = {} /\ queue = <<>> /\ wire = <<>>
    BY DEF SessionInv, BeforeConnect, Connect
  <1>2. TypeOK' /\ BeforeConnect'
    BY DEF SessionInv, TypeOK, BeforeConnect, Connect
  <1>3. CallsAreNumbered'
    BY DEF SessionInv, CallsAreNumbered, Numbered, Connect
  <1>4. Pending' /\ OneAtATime' /\ AnswersInOrder'
    BY <1>1 DEF Pending, OneAtATime, AnswersInOrder, Connect
  <1>5. Decode(received)' = "Incomplete"
    BY <1>1 DEF Decode, Connect
  <1>6. NothingStranded'
    BY <1>1, <1>5 DEF NothingStranded, NoRequestStranded, DeadlineArmed, Connect
  <1>7. QED
    BY <1>2, <1>3, <1>4, <1>6 DEF SessionInv

LEMMA MessageStep ==
  ASSUME SessionInv, NEW n \in 1..(2 * MaxRequests), OnMessage(n)
  PROVE  SessionInv'
  <1>0. n \in 0..(2 * MaxRequests)
    BY BoundsAssumption
  <1>1. CASE inFlight
    <2>1. Stay(TRUE, timers, queue, wire) /\ received' = n /\ stream' = stream
      BY <1>1 DEF OnMessage, ProcessNext
    <2>2. TypeOK'
      BY <1>0, <2>1 DEF SessionInv, TypeOK, Stay
    <2>3. CallsAreNumbered'
      BY <2>1 DEF SessionInv, CallsAreNumbered, Numbered, Stay
    <2>4. BeforeConnect'
      BY <2>1 DEF BeforeConnect, OnMessage, HasSession, Stay
    <2>5. Pending' /\ OneAtATime' /\ AnswersInOrder'
      BY <1>1, <2>1 DEF SessionInv, Pending, OneAtATime, AnswersInOrder, Stay
    <2>6. NothingStranded'
      BY <1>1, <2>1
      DEF SessionInv, NothingStranded, NoRequestStranded, DeadlineArmed, HasSession, Stay
    <2>7. QED
      BY <2>2, <2>3, <2>4, <2>5, <2>6 DEF SessionInv
  <1>2. CASE ~inFlight
    <2>1. /\ timers \subseteq Calls /\ queue \in Seq(Calls) /\ wire \in Seq(Responses)
          /\ inFlight = FALSE
      BY <1>2 DEF SessionInv, TypeOK, Responses
    <2>2. Prepared(n, timers, queue, wire)
      BY <1>0, <1>2, <2>1
      DEF SessionInv, Prepared, OnMessage, CallsAreNumbered, AnswersInOrder, Pending
    <2>3. ProcessNext(FALSE, n, timers, queue, wire)
      BY <2>1 DEF OnMessage
    <2>4. QED
      BY <2>2, <2>3, ProcessingSession DEF OnMessage
  <1>3. QED
    BY <1>1, <1>2

LEMMA ReplyStep ==
  ASSUME SessionInv, NEW call \in Calls, Reply(call)
  PROVE  SessionInv'
  <1>1. queue \in Seq(Calls) /\ Numbered(call)
    BY DEF SessionInv, TypeOK, CallsAreNumbered, Reply
  <1>2. /\ queue' \in Seq(Calls) /\ Len(queue') = Len(queue) + 1
        /\ queue'[Len(queue) + 1] = call
        /\ \A k \in 1..Len(queue) : queue'[k] = queue[k]
    BY <1>1 DEF Reply
  <1>3. \A k \in 1..Len(queue') :
          queue'[k] = call \/ (k \in 1..Len(queue) /\ queue'[k] = queue[k])
    BY <1>1, <1>2
  <1>4. TypeOK'
    BY <1>2 DEF SessionInv, TypeOK, Reply
  <1>5. CallsAreNumbered'
    <2>1. \A k \in 1..Len(queue') : /\ queue'[k].generation = queue'[k].request
                                    /\ queue'[k].request <= decoded
      BY <1>1, <1>3 DEF SessionInv, CallsAreNumbered, Numbered
    <2>2. QED
      BY <2>1 DEF SessionInv, CallsAreNumbered, Numbered, Reply
  <1>6. BeforeConnect'
    BY DEF SessionInv, BeforeConnect, Reply
  <1>7. Pending'
    <2>1. SUFFICES ASSUME conn = "up" PROVE Pending'
      BY DEF Pending, Reply
    <2>2. running # {} /\ inFlight /\ queue = <<>> /\ Len(queue') = 1
      BY <1>2, <2>1 DEF SessionInv, Pending, Reply
    <2>3. running' = {}
      <3>1. ASSUME NEW other \in running PROVE other = call
        <4>1. \A c \in running : c.generation = generation /\ c.request = decoded
          BY <2>1 DEF SessionInv, OneAtATime
        <4>2. other \in Calls /\ call \in running
          BY DEF SessionInv, TypeOK, Reply
        <4>3. QED
          BY <4>1, <4>2 DEF Calls
      <3>2. QED
        BY <3>1 DEF Reply
    <2>4. QED
      BY <2>2, <2>3 DEF SessionInv, Pending, Reply
  <1>8. OneAtATime'
    <2>1. SUFFICES ASSUME conn = "up" PROVE OneAtATime'
      BY DEF OneAtATime, Reply
    <2>2. \A c \in running \cup {queue[k] : k \in 1..Len(queue)} :
            inFlight /\ c.generation = generation /\ c.request = decoded
      BY <2>1 DEF SessionInv, OneAtATime
    <2>3. \A k \in 1..Len(queue') :
            queue'[k] \in running \cup {queue[j] : j \in 1..Len(queue)}
      BY <1>3 DEF Reply
    <2>4. running' \subseteq running
      BY DEF Reply
    <2>5. QED
      BY <2>2, <2>3, <2>4 DEF OneAtATime, Reply
  <1>9. AnswersInOrder' /\ NothingStranded'
    BY DEF SessionInv, AnswersInOrder, NothingStranded, NoRequestStranded,
           DeadlineArmed, HasSession, Decode, Reply
  <1>10. QED
    BY <1>4, <1>5, <1>6, <1>7, <1>8, <1>9 DEF SessionInv

LEMMA RunQueuedStep ==
  ASSUME SessionInv, RunQueued
  PROVE  SessionInv'
  <1> DEFINE response == [request |-> Head(queue).request, code |-> "reply",
                          close |-> stream[Head(queue).request] = "close"]
  <1>1. queue \in Seq(Calls) /\ queue # <<>>
    BY DEF SessionInv, TypeOK, RunQueued
  <1>2. /\ Head(queue) \in Calls /\ Head(queue) = queue[1] /\ Len(queue) \in Nat \ {0}
        /\ Tail(queue) \in Seq(Calls) /\ Len(Tail(queue)) = Len(queue) - 1
        /\ \A k \in 1..Len(Tail(queue)) : Tail(queue)[k] = queue[k + 1]
    BY <1>1, EmptySeq
  <1>3. Numbered(Head(queue)) /\ \A k \in 1..Len(Tail(queue)) : Numbered(Tail(queue)[k])
    BY <1>2 DEF SessionInv, CallsAreNumbered
  <1>4. response \in Responses /\ response.request = Head(queue).request
    BY <1>2 DEF Responses, Calls
  <1>5. conn = "up" => /\ running = {} /\ Tail(queue) = <<>>
                       /\ IsCurrent(Head(queue))
    <2>1. SUFFICES ASSUME conn = "up"
                   PROVE  /\ running = {} /\ Tail(queue) = <<>>
                          /\ IsCurrent(Head(queue))
      OBVIOUS
    <2>2. Len(queue) = 1 /\ running = {}
      BY <1>1, <2>1 DEF SessionInv, Pending
    <2>3. Tail(queue) = <<>>
      BY <1>1, <2>2, TailOfOne
    <2>4. Head(queue) \in {queue[k] : k \in 1..Len(queue)}
      BY <1>2, <2>2
    <2>5. inFlight /\ Head(queue).generation = generation
      BY <2>1, <2>4 DEF SessionInv, OneAtATime
    <2>6. QED
      BY <2>1, <2>2, <2>3, <2>5 DEF IsCurrent, HasSession
  <1>6. Complete(Head(queue), response, timers, Tail(queue))
    BY DEF RunQueued
  <1> HIDE DEF response
  <1>7. UNCHANGED <<stream, received>>
    BY <1>6 DEF Complete
  <1>8. CASE ~IsCurrent(Head(queue)) /\ Stay(inFlight, timers, Tail(queue), wire)
    <2>1. conn # "up" /\ conn' = conn
      BY <1>5, <1>8 DEF Stay
    <2>2. TypeOK'
      BY <1>2, <1>7, <1>8 DEF SessionInv, TypeOK, Stay
    <2>3. CallsAreNumbered'
      BY <1>3, <1>8 DEF SessionInv, CallsAreNumbered, Numbered, Stay
    <2>4. BeforeConnect'
      BY <1>1, <2>1 DEF SessionInv, BeforeConnect
    <2>5. Pending' /\ OneAtATime' /\ AnswersInOrder'
      BY <1>8, <2>1 DEF SessionInv, Pending, OneAtATime, AnswersInOrder, Stay
    <2>6. NothingStranded'
      BY <1>7, <1>8, <2>1
      DEF SessionInv, NothingStranded, NoRequestStranded, DeadlineArmed, HasSession, Stay
    <2>7. QED
      BY <2>2, <2>3, <2>4, <2>5, <2>6 DEF SessionInv
  <1>9. CASE /\ IsCurrent(Head(queue)) /\ response.close
             /\ inFlight' = FALSE /\ timers' = timers /\ queue' = Tail(queue)
             /\ wire' = Sent(response, wire) /\ Shutdown
             /\ UNCHANGED <<decoded, generation, running>>
    BY <1>2, <1>3, <1>4, <1>7, <1>9, ClosingSession
  <1>10. CASE /\ IsCurrent(Head(queue)) /\ ~response.close
              /\ ProcessNext(FALSE, received, timers, Tail(queue), Sent(response, wire))
    <2>1. /\ Sent(response, wire) \in Seq(Responses)
          /\ \A k \in 1..Len(Sent(response, wire)) :
               /\ Sent(response, wire)[k].request = k
               /\ Sent(response, wire)[k].close =>
                    k = Len(Sent(response, wire)) /\ (conn # "up" \/ response.close)
          /\ conn = "up" => Len(Sent(response, wire)) = decoded
      BY <1>2, <1>3, <1>4, <1>10, Answering
    <2>2. /\ received \in 0..(2 * MaxRequests) /\ timers \subseteq Calls
          /\ \A call \in timers : Numbered(call)
      BY DEF SessionInv, TypeOK, CallsAreNumbered
    <2>3. HasSession
      BY <1>10 DEF IsCurrent
    <2>4. Prepared(received, timers, Tail(queue), Sent(response, wire))
      BY <1>2, <1>3, <1>5, <1>10, <2>1, <2>2, <2>3 DEF Prepared
    <2>5. QED
      BY <1>7, <1>10, <2>4, ProcessingSession
  <1>11. QED
    BY <1>6, <1>8, <1>9, <1>10 DEF Complete

LEMMA TimerStep ==
  ASSUME SessionInv, NEW call \in Calls, TimerFires(call)
  PROVE  SessionInv'
  <1> DEFINE response == [request |-> call.request, code |-> "timeout", close |-> TRUE]
  <1>1. Numbered(call) /\ timers \ {call} \in SUBSET timers
    BY DEF SessionInv, CallsAreNumbered, TimerFires
  <1>2. queue \in Seq(Calls) /\ \A k \in 1..Len(queue) : Numbered(queue[k])
    BY DEF SessionInv, TypeOK, CallsAreNumbered
  <1>3. response \in Responses /\ response.request = call.request /\ response.close
    BY DEF Responses, Calls
  <1>4. Complete(call, response, timers \ {call}, queue)
    BY DEF TimerFires
  <1> HIDE DEF response
  <1>5. UNCHANGED <<stream, received>>
    BY <1>4 DEF Complete
  <1>6. CASE ~IsCurrent(call) /\ Stay(inFlight, timers \ {call}, queue, wire)
    <2>1. TypeOK'
      BY <1>5, <1>6 DEF SessionInv, TypeOK, Stay
    <2>2. CallsAreNumbered'
      BY <1>6 DEF SessionInv, CallsAreNumbered, Numbered, Stay
    <2>3. BeforeConnect' /\ Pending' /\ OneAtATime' /\ AnswersInOrder'
      BY <1>5, <1>6
      DEF SessionInv, BeforeConnect, Pending, OneAtATime, AnswersInOrder, Stay
    <2>4. NoRequestStranded'
      BY <1>5, <1>6 DEF SessionInv, NothingStranded, NoRequestStranded, Decode, Stay
    <2>5. DeadlineArmed'
      <3>1. SUFFICES ASSUME HasSession, inFlight
                     PROVE  \E c \in timers \ {call} : c.generation = generation
        BY <1>6 DEF DeadlineArmed, HasSession, Stay
      <3>2. PICK c \in timers : c.generation = generation
        BY <3>1 DEF SessionInv, NothingStranded, DeadlineArmed
      <3>3. c # call
        BY <1>6, <3>1, <3>2 DEF IsCurrent
      <3>4. QED
        BY <3>2, <3>3
    <2>6. QED
      BY <2>1, <2>2, <2>3, <2>4, <2>5 DEF SessionInv, NothingStranded
  <1>7. CASE /\ IsCurrent(call) /\ response.close
             /\ inFlight' = FALSE /\ timers' = timers \ {call} /\ queue' = queue
             /\ wire' = Sent(response, wire) /\ Shutdown
             /\ UNCHANGED <<decoded, generation, running>>
    BY <1>1, <1>2, <1>3, <1>5, <1>7, ClosingSession
  <1>8. QED
    BY <1>3, <1>4, <1>6, <1>7 DEF Complete

LEMMA DisconnectStep == SessionInv /\ Disconnect => SessionInv'
  <1> SUFFICES ASSUME SessionInv, Disconnect PROVE SessionInv'
    OBVIOUS
  <1>1. TypeOK' /\ CallsAreNumbered'
    BY DEF SessionInv, TypeOK, CallsAreNumbered, Numbered, Disconnect
  <1>2. BeforeConnect' /\ Pending' /\ OneAtATime' /\ NothingStranded'
    BY DEF BeforeConnect, Pending, OneAtATime, NothingStranded, NoRequestStranded,
           DeadlineArmed, HasSession, Disconnect
  <1>3. AnswersInOrder'
    BY DEF SessionInv, AnswersInOrder, Disconnect
  <1>4. QED
    BY <1>1, <1>2, <1>3 DEF SessionInv

LEMMA StutterStep == SessionInv /\ UNCHANGED vars => SessionInv'
  BY DEF vars, SessionInv, TypeOK, CallsAreNumbered, Numbered, BeforeConnect, Pending,
         OneAtATime, AnswersInOrder, NothingStranded, NoRequestStranded, DeadlineArmed,
         HasSession, Decode

LEMMA SessionStep == SessionInv /\ [Next]_vars => SessionInv'
  <1> SUFFICES ASSUME SessionInv, [Next]_vars PROVE SessionInv'
    OBVIOUS
  <1>1. CASE Connect
    BY <1>1, ConnectStep
  <1>2. ASSUME NEW n \in 1..(2 * MaxRequests), OnMessage(n) PROVE SessionInv'
    BY <1>2, MessageStep
  <1>3. ASSUME NEW call \in Calls, Reply(call) PROVE SessionInv'
    BY <1>3, ReplyStep
  <1>4. CASE RunQueued
    BY <1>4, RunQueuedStep
  <1>5. ASSUME NEW call \in Calls, TimerFires(call) PROVE SessionInv'
    BY <1>5, TimerStep
  <1>6. CASE Disconnect
    BY <1>6, DisconnectStep
  <1>7. CASE Terminated
    BY <1>7, StutterStep DEF Terminated
  <1>8. CASE UNCHANGED vars
    BY <1>8, StutterStep
  <1>9. QED
    BY <1>1, <1>2, <1>3, <1>4, <1>5, <1>6, <1>7, <1>8 DEF Next

LEMMA SessionIsInvariant == Spec => []SessionInv
  BY InitSession, SessionStep, PTL DEF Spec

-----------------------------------------------------------------------------
(* Theorems.                                                               *)

\* The session's generation, its buffer and the calls it waits for stay in
\* their ranges.
THEOREM TypeCorrect == Spec => []TypeOK
  <1>1. SessionInv => TypeOK
    BY DEF SessionInv
  <1>2. QED
    BY <1>1, SessionIsInvariant, PTL

\* Responses leave in the order of the requests, one for each, and none
\* follows the one that closes: whatever the order in which handlers reply
\* and deadlines pass, and however messages cut the stream.
THEOREM ResponsesAreInOrder == Spec => []AnswersInOrder
  <1>1. SessionInv => AnswersInOrder
    BY DEF SessionInv
  <1>2. QED
    BY <1>1, SessionIsInvariant, PTL

\* On a connection that can still be answered, one request at most is being
\* handled: no second handler starts before the response of the first.
THEOREM HandlesOneAtATime == Spec => []OneAtATime
  <1>1. SessionInv => OneAtATime
    BY DEF SessionInv
  <1>2. QED
    BY <1>1, SessionIsInvariant, PTL

\* A buffered request waits only for a response that is still to come, and
\* what is in flight has a deadline, whatever happened to its handler.
THEOREM NoRequestIsLeft == Spec => []NothingStranded
  <1>1. SessionInv => NothingStranded
    BY DEF SessionInv
  <1>2. QED
    BY <1>1, SessionIsInvariant, PTL

=============================================================================
