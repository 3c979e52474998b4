------------------------------ MODULE Client -------------------------------
(***************************************************************************)
(* The Qt client after the login: MainWindow has created its pages, which  *)
(* live side by side in one event loop, each with services and requests of *)
(* its own, whether they are shown or not.                                 *)
(*                                                                         *)
(* A behaviour involves the pages of one visit, among which the user goes  *)
(* back and forth; the others, which share nothing with them but boxes,    *)
(* stay as the constructors left them.                                     *)
(***************************************************************************)
EXTENDS DataPage, TracePage, PredictionPage, LogPage

CONSTANT Visits  \* sets of pages that take part

Pages == {"data", "trace", "prediction", "log"}

ASSUME VisitsAssumption == Visits \subseteq SUBSET Pages

VARIABLE visited

vars == <<desktopVars, dataVars, traceVars, predictionVars, logVars, visited>>

Init ==
  /\ DesktopInit
  /\ DataPageInit
  /\ TracePageInit
  /\ PredictionPageInit
  /\ LogPageInit
  /\ visited \in Visits

TakesPart(page) == page \in visited /\ UNCHANGED visited

Data ==
  /\ TakesPart("data") /\ DataNext
  /\ UNCHANGED <<traceVars, predictionVars, logVars>>

Trace ==
  /\ TakesPart("trace") /\ TraceNext
  /\ UNCHANGED <<dataVars, predictionVars, logVars>>

Prediction ==
  /\ TakesPart("prediction") /\ PredictionNext
  /\ UNCHANGED <<dataVars, traceVars, logVars>>

Logs ==
  /\ TakesPart("log") /\ LogNext
  /\ UNCHANGED <<dataVars, traceVars, predictionVars>>

\* The user has stopped and every request has ended.  The log page, with its
\* timer, never comes to rest.
Quiet ==
  /\ clicks = MaxClicks /\ boxes = <<>>
  /\ "log" \notin visited
  /\ "data" \in visited => replies = {}
  /\ traceReplies = {}
  /\ "prediction" \in visited => started /\ predictionReplies = {}
  /\ UNCHANGED vars

Next == Data \/ Trace \/ Prediction \/ Logs \/ Quiet

Spec == Init /\ [][Next]_vars

(***************************************************************************)
(* The server need not answer and the user need not do anything: all that  *)
(* is sure to happen is that the event loop delivers what a timer brings   *)
(* about, the zero timer of the prediction page included.                  *)
(***************************************************************************)
Fairness ==
  WF_vars(\/ Data /\ DataTimer
          \/ Trace /\ TraceTimer
          \/ Prediction /\ (FirstRefresh \/ PredictionTimer)
          \/ Logs /\ GitTimer)

FairSpec == Spec /\ Fairness

-----------------------------------------------------------------------------
(* Properties.                                                             *)

\* No page ever waits for two results of which one could overtake the other,
\* and none waits for nothing: its controls are disabled exactly while a
\* request of it is under way, whatever boxes, pages and timeouts come
\* between.
PagesKnowTheirRequests ==
  /\ DataPageWaitsForOne
  /\ TracePageWaitsForOne
  /\ PredictionPageKnowsItsRequests

\* What the data page shows, and enters by itself, is of its selection.
SelectionIsHonoured == ChartIsOfTheSelection /\ EnteredRunIsOfTheSelection

\* A file that is exported holds one result, the one on the screen.
ExportsAreOneResult ==
  /\ ReportIsOneResult
  /\ ShowsTheLastSample
  /\ ExportsTheLastForecast

\* Once the user has stopped starting things, every page comes to rest with
\* its controls enabled, even if the server never answers and boxes stay open.
PagesComeBack ==
  []<>(/\ "data" \in visited => ~busy
       /\ ~traceBusy
       /\ "prediction" \in visited => started /\ Idle
       /\ "log" \in visited => ~gitLoading)

=============================================================================
