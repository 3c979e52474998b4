------------------------------ MODULE Desktop ------------------------------
(***************************************************************************)
(* What the pages of the Qt client share: the event loop of its only       *)
(* thread, and ApiClient.                                                  *)
(*                                                                         *)
(* A message box, a confirmation or a file dialog is modal and runs an     *)
(* event loop of its own inside the handler that opened it: the user can   *)
(* use nothing but the topmost one, while replies and timers are still     *)
(* delivered, and may open further boxes above it.  "boxes" is that stack, *)
(* topmost first.                                                          *)
(***************************************************************************)
EXTENDS Naturals, Sequences

CONSTANT MaxClicks   \* bound on what the user starts; closing a box is free

ASSUME ClicksAssumption == MaxClicks \in Nat

VARIABLES
  boxes,   \* the modal windows, topmost first
  clicks   \* what the user has started so far

desktopVars == <<boxes, clicks>>

DesktopInit == boxes = <<>> /\ clicks = 0

\* The user uses a control of a page.
Click ==
  /\ boxes = <<>>
  /\ clicks < MaxClicks
  /\ clicks' = clicks + 1

\* A handler opens a box and stays inside it.
Open(box) == boxes' = <<box>> \o boxes

\* The user dismisses the topmost box, and its handler goes on.
Close(box) ==
  /\ boxes # <<>> /\ Head(boxes) = box
  /\ boxes' = Tail(boxes)

\* The handler goes on and opens another box.
Replace(box, next) ==
  /\ boxes # <<>> /\ Head(boxes) = box
  /\ boxes' = <<next>> \o Tail(boxes)

-----------------------------------------------------------------------------
(* ApiClient.  Every request has a reply of its own with a single-shot     *)
(* timer, and ends in exactly one signal: an abort ends a reply that has   *)
(* not finished and does nothing to one that has.                          *)

\* How a reply can end.  The body is a JSON object ("json") or not; "code" is
\* the field of that name in it.
Endings ==
  { [timedOut |-> TRUE,  status |-> 0,   error |-> TRUE,  json |-> FALSE, code |-> 0],
    [timedOut |-> FALSE, status |-> 0,   error |-> TRUE,  json |-> FALSE, code |-> 0],
    [timedOut |-> FALSE, status |-> 404, error |-> TRUE,  json |-> TRUE,  code |-> 404],
    [timedOut |-> FALSE, status |-> 504, error |-> TRUE,  json |-> FALSE, code |-> 0],
    [timedOut |-> FALSE, status |-> 200, error |-> FALSE, json |-> FALSE, code |-> 0],
    [timedOut |-> FALSE, status |-> 200, error |-> FALSE, json |-> TRUE,  code |-> 0],
    [timedOut |-> FALSE, status |-> 200, error |-> FALSE, json |-> TRUE,  code |-> 200] }

\* watchReply: only the timer brings about an ending of this kind.
TimedOut(ending) == ending.timedOut

\* handleReply: requestSucceeded, else requestFailed.
Succeeded(ending) ==
  /\ ~ending.timedOut
  /\ ending.status < 400
  /\ ~ending.error
  /\ ending.json

\* The services take a payload that says anything but 200 for a failure too.
Delivers(ending) == Succeeded(ending) /\ ending.code = 200

\* The requests whose replies have a timer.
TimedPostsOnly(request) == request.post
Timed(request) == TRUE

=============================================================================
