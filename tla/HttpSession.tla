---------------------------- MODULE HttpSession ----------------------------
(***************************************************************************)
(* One connection of the server's MuduoHttpServer                          *)
(* (server/src/net/muduo_http_server.cpp), with its HttpCodec and the      *)
(* handlers HttpRouter dispatches to.                                      *)
(*                                                                         *)
(* All callbacks of a connection run one after the other in its event      *)
(* loop: messages, timers, functors queued with queueInLoop, and the end   *)
(* of the connection are one action each.  Handlers run in other threads   *)
(* and may answer at any time, or never: a task the executors drop at      *)
(* shutdown does not answer.                                               *)
(*                                                                         *)
(* The client sends a stream of requests, each in two fragments (header    *)
(* and body) that messages may cut apart or join.  Request n of the stream *)
(* stays recognisable in its response, which is how the properties tell    *)
(* whether a response answers the right request.                           *)
(***************************************************************************)
EXTENDS Naturals, Sequences, FiniteSets

CONSTANT MaxRequests    \* bound on the requests of the client's stream

ASSUME BoundsAssumption == MaxRequests \in Nat

VARIABLES
  stream,      \* per request: "keep" (keep-alive), "close", or "bad"
  received,    \* fragments HttpCodec::append has been given
  decoded,     \* requests HttpCodec::next has removed from pending_
  conn,        \* muduo's connection state
  inFlight,    \* Session::request_in_flight
  generation,  \* Session::generation
  timers,      \* deadlines that have been scheduled and have not passed
  running,     \* calls of a handler that has not replied yet
  queue,       \* replies waiting in the event loop
  wire         \* responses handed to muduo while the connection could send

vars == <<stream, received, decoded, conn, inFlight, generation, timers,
          running, queue, wire>>

(***************************************************************************)
(* conn: "none", "up", "closing" after connection->shutdown() (muduo still *)
(* reads, but drops what is sent), "down" after the connection callback    *)
(* has reported the end.  The session exists from "up" to "down".          *)
(***************************************************************************)
HasSession == conn \in {"up", "closing"}

Requests == 1..MaxRequests
Calls    == [generation : Requests, request : Requests]

Init ==
  /\ stream \in [Requests -> {"keep", "close", "bad"}]
  /\ received = 0
  /\ decoded = 0
  /\ conn = "none"
  /\ inFlight = FALSE
  /\ generation = 0
  /\ timers = {}
  /\ running = {}
  /\ queue = <<>>
  /\ wire = <<>>

-----------------------------------------------------------------------------
(* muduo: send and shutdown do nothing once the connection is closing.     *)

Sent(response, out) == IF conn = "up" THEN Append(out, response) ELSE out

Shutdown == conn' = IF conn = "up" THEN "closing" ELSE conn

\* HttpCodec::next on a buffer that has been given n fragments.
Decode(n) ==
  IF decoded = MaxRequests \/ n < 2 * decoded + 1 THEN "Incomplete"
  ELSE IF stream[decoded + 1] = "bad" THEN "BadRequest"
  ELSE IF n < 2 * decoded + 2 THEN "Incomplete"
  ELSE "Complete"

-----------------------------------------------------------------------------
(* processNext on a buffer with n fragments; deadlines, replies and out    *)
(* are what its caller leaves of timers, queue and wire.                   *)

\* Nothing to do: the session is busy, or no request is complete.
Stay(busy, deadlines, replies, out) ==
  /\ inFlight' = busy
  /\ timers' = deadlines
  /\ queue' = replies
  /\ wire' = out
  /\ UNCHANGED <<decoded, conn, generation, running>>

ProtocolError(deadlines, replies, out) ==
  /\ inFlight' = FALSE
  /\ timers' = deadlines
  /\ queue' = replies
  /\ wire' = Sent([request |-> decoded + 1, code |-> "error", close |-> TRUE], out)
  /\ Shutdown
  /\ UNCHANGED <<decoded, generation, running>>

NoDeadline(call) == {}
Deadline(call) == {call}

\* Take the request, schedule its deadline, and call its handler.  The
\* handler replies at once (an error, or a route that needs no database), or
\* leaves the reply to another thread.
Dispatch(deadlines, replies, out) ==
  LET call == [generation |-> generation + 1, request |-> decoded + 1]
  IN  /\ decoded' = decoded + 1
      /\ generation' = generation + 1
      /\ inFlight' = TRUE
      /\ timers' = deadlines \cup Deadline(call)
      /\ \/ queue' = Append(replies, call) /\ UNCHANGED running
         \/ running' = running \cup {call} /\ queue' = replies
      /\ wire' = out
      /\ UNCHANGED conn

ProcessNextAlways(busy, n, deadlines, replies, out) ==
  \/ Decode(n) = "Incomplete" /\ Stay(busy, deadlines, replies, out)
  \/ Decode(n) = "BadRequest" /\ ProtocolError(deadlines, replies, out)
  \/ Decode(n) = "Complete" /\ Dispatch(deadlines, replies, out)
ProcessNext(busy, n, deadlines, replies, out) ==
  \/ (busy \/ Decode(n) = "Incomplete") /\ Stay(busy, deadlines, replies, out)
  \/ ~busy /\ Decode(n) = "BadRequest" /\ ProtocolError(deadlines, replies, out)
  \/ ~busy /\ Decode(n) = "Complete" /\ Dispatch(deadlines, replies, out)

-----------------------------------------------------------------------------
(* The callbacks of the connection, and the handlers' threads.             *)

\* The connection callback creates the session.
Connect ==
  /\ conn = "none"
  /\ conn' = "up"
  /\ UNCHANGED <<stream, received, decoded, inFlight, generation, timers,
                 running, queue, wire>>

\* onMessage: append, then processNext.
OnMessage(n) ==
  /\ HasSession
  /\ n > received
  /\ received' = n
  /\ ProcessNext(inFlight, n, timers, queue, wire)
  /\ UNCHANGED stream

\* A handler's thread replies: the response goes through queueInLoop.
Reply(call) ==
  /\ call \in running
  /\ running' = running \ {call}
  /\ queue' = Append(queue, call)
  /\ UNCHANGED <<stream, received, decoded, conn, inFlight, generation,
                 timers, wire>>

IsCurrentIgnoringGeneration(call) == HasSession /\ inFlight
IsCurrent(call) == HasSession /\ inFlight /\ generation = call.generation

\* complete, for a call that another response may have answered before.
CompleteOnly(call, response, deadlines, replies) ==
  /\ \/ ~IsCurrent(call) /\ Stay(inFlight, deadlines, replies, wire)
     \/ IsCurrent(call) /\ Stay(FALSE, deadlines, replies, Sent(response, wire))
  /\ UNCHANGED <<stream, received>>
Complete(call, response, deadlines, replies) ==
  /\ \/ ~IsCurrent(call) /\ Stay(inFlight, deadlines, replies, wire)
     \/ /\ IsCurrent(call)
        /\ response.close
        /\ inFlight' = FALSE
        /\ timers' = deadlines
        /\ queue' = replies
        /\ wire' = Sent(response, wire)
        /\ Shutdown
        /\ UNCHANGED <<decoded, generation, running>>
     \/ /\ IsCurrent(call)
        /\ ~response.close
        /\ ProcessNext(FALSE, received, deadlines, replies, Sent(response, wire))
  /\ UNCHANGED <<stream, received>>

\* The loop runs a queued functor.
RunQueued ==
  /\ queue # <<>>
  /\ LET call == Head(queue)
     IN  Complete(call, [request |-> call.request, code |-> "reply",
                         close |-> stream[call.request] = "close"],
                  timers, Tail(queue))

\* The deadline of a request passes: timers are never cancelled.
TimerFires(call) ==
  /\ call \in timers
  /\ Complete(call, [request |-> call.request, code |-> "timeout", close |-> TRUE],
              timers \ {call}, queue)

\* The peer closes, or the connection breaks: the session is erased.
Disconnect ==
  /\ HasSession
  /\ conn' = "down"
  /\ UNCHANGED <<stream, received, decoded, inFlight, generation, timers,
                 running, queue, wire>>

\* Nothing is left to do; keeps TLC's deadlock check for every other state.
Terminated ==
  /\ conn = "down"
  /\ timers = {}
  /\ running = {}
  /\ queue = <<>>
  /\ UNCHANGED vars

Next ==
  \/ Connect
  \/ \E n \in 1..(2 * MaxRequests) : OnMessage(n)
  \/ \E call \in Calls : Reply(call)
  \/ RunQueued
  \/ \E call \in Calls : TimerFires(call)
  \/ Disconnect
  \/ Terminated

Spec == Init /\ [][Next]_vars

(***************************************************************************)
(* The event loop runs what is queued and the timers that are due.  Nobody *)
(* has to send, reply or disconnect.                                       *)
(***************************************************************************)
Fairness ==
  /\ WF_vars(RunQueued)
  /\ \A call \in Calls : WF_vars(TimerFires(call))

FairSpec == Spec /\ Fairness

-----------------------------------------------------------------------------
(* Properties.                                                             *)

\* Every variable stays in its range.
TypeOK ==
  /\ stream \in [Requests -> {"keep", "close", "bad"}]
  /\ received \in 0..(2 * MaxRequests)
  /\ decoded \in 0..MaxRequests
  /\ conn \in {"none", "up", "closing", "down"}
  /\ inFlight \in BOOLEAN
  /\ generation \in 0..MaxRequests
  /\ timers \subseteq Calls
  /\ running \subseteq Calls
  /\ queue \in Seq(Calls)
  /\ wire \in Seq([request : Requests, code : {"reply", "timeout", "error"},
                   close : BOOLEAN])

\* "preserving HTTP response order": the n-th response on the connection
\* answers the n-th request, whatever the order in which handlers reply and
\* deadlines pass, each request is answered at most once, and the response
\* that announces the end of the connection is the last one.
AnswersInOrder ==
  \A n \in 1..Len(wire) :
    /\ wire[n].request = n
    /\ wire[n].close => n = Len(wire) /\ conn # "up"

\* While the connection can still be answered, at most one request of it is
\* being handled, and its reply is the one the session waits for: buffered
\* requests wait for it.
OneAtATime ==
  conn = "up" =>
    \A call \in running \cup {queue[n] : n \in 1..Len(queue)} :
      inFlight /\ call.generation = generation /\ call.request = decoded

\* No request waits in the buffer of an open connection with nobody to take
\* it out: the session looks again after every response.
NoRequestStranded ==
  conn = "up" /\ ~inFlight => Decode(received) = "Incomplete"

\* A request that is being handled has a deadline pending, so that it is
\* answered even if its handler never replies.
DeadlineArmed ==
  HasSession /\ inFlight => \E call \in timers : call.generation = generation

\* No request is left alone: a buffered one waits for a response that is
\* still to come, and that one comes at its deadline at the latest.
NothingStranded == NoRequestStranded /\ DeadlineArmed

\* Every request that has arrived completely is answered while the
\* connection lasts, even if no handler ever replies.
RequestsAnswered ==
  \A n \in Requests :
    conn = "up" /\ received >= 2 * n ~> conn # "up" \/ Len(wire) >= n

=============================================================================
