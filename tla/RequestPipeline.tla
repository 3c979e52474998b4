-------------------------- MODULE RequestPipeline --------------------------
(***************************************************************************)
(* What the server does with a request between its router and its reply:   *)
(* ApiController, the five services, DbExecutor, and the order in which    *)
(* main() stops them.                                                      *)
(*                                                                         *)
(* A request is loaded by a database worker and then, by its kind,         *)
(* answered at once ("read": companies and overview), handed to the        *)
(* inference pool ("infer": trace and forecast), or to the analysis pool   *)
(* ("classification", "forecastData").  A classification to be persisted   *)
(* ("save") goes back to a database worker afterwards.  The data services  *)
(* admit a request by giving it a ticket, which is returned when the last  *)
(* copy of its completion is destroyed, in whichever thread that happens.  *)
(*                                                                         *)
(* The three pools are instances of TaskExecutor, which ThreadPool         *)
(* implements.  A task is "running" until its closure has been destroyed.  *)
(***************************************************************************)
EXTENDS Naturals, Sequences, FiniteSets

CONSTANTS
  Requests,         \* the requests that reach the router
  IoThreads,        \* event loops that run handlers
  DbWorkers,        \* database.workers.max_threads
  DbQueue,          \* database.workers.queue_capacity
  AnalysisWorkers,  \* analysis_workers.max_threads
  AnalysisQueue,    \* analysis_workers.queue_capacity
  InferenceWorkers, \* trace.workers.max_threads
  InferenceQueue    \* trace.workers.queue_capacity

\* The pools' constructors accept nothing else.
ASSUME OptionsAssumption ==
  /\ {DbWorkers, DbQueue, AnalysisWorkers, AnalysisQueue, InferenceWorkers,
      InferenceQueue, IoThreads} \subseteq Nat \ {0}
  /\ IsFiniteSet(Requests)

VARIABLES
  kind,         \* what a request asks for; "unsent" before it arrives
  io,           \* where its handler is: "out", "admit", "post", "leave"
  answer,       \* what its completion was called with
  held,         \* per request: where copies of its completion are
  ran,          \* tasks whose body has returned; their closure is still there
  stored,       \* requests whose version has been saved
  pending,      \* State::pending of a data service
  closing,      \* State::closing of a data service
  accepting,    \* ApiController::accepting_
  connections,  \* the ConnectionPool of DbExecutor: "open" or "closed"
  stop,         \* the part main() is stopping, an index of StopOrder
  closed,       \* it has told that part to close and waits for it
  dbPhase, dbQueue, dbTasks,                       \* DbExecutor::workers_
  analysisPhase, analysisQueue, analysisTasks,     \* analysis_workers
  inferencePhase, inferenceQueue, inferenceTasks   \* inference_workers

dbVars        == <<dbPhase, dbQueue, dbTasks>>
analysisVars  == <<analysisPhase, analysisQueue, analysisTasks>>
inferenceVars == <<inferencePhase, inferenceQueue, inferenceTasks>>
requestVars   == <<kind, io, answer, held>>
serviceVars   == <<pending, closing, accepting>>
stopVars      == <<connections, stop, closed>>
vars == <<requestVars, ran, stored, serviceVars, stopVars, dbVars,
          analysisVars, inferenceVars>>

Kinds == {"read", "infer", "classification", "save", "forecastData"}
Places == {"io", "load", "work", "save"}
Answers == {"ok", "rejected", "stopping", "busy", "failed"}
Services == {"classification", "forecastData"}

\* The tasks of each pool; "work" is the analysis or inference of a request.
Load(r) == <<r, "load">>
Work(r) == <<r, "work">>
Save(r) == <<r, "save">>
DbTasks   == Requests \X {"load", "save"}
WorkTasks == Requests \X {"work"}

db == INSTANCE TaskExecutor WITH
        Tasks <- DbTasks, QueueCapacity <- DbQueue, Parallelism <- DbWorkers,
        phase <- dbPhase, queue <- dbQueue, outcome <- dbTasks
analysis == INSTANCE TaskExecutor WITH
        Tasks <- WorkTasks, QueueCapacity <- AnalysisQueue,
        Parallelism <- AnalysisWorkers, phase <- analysisPhase,
        queue <- analysisQueue, outcome <- analysisTasks
inference == INSTANCE TaskExecutor WITH
        Tasks <- WorkTasks, QueueCapacity <- InferenceQueue,
        Parallelism <- InferenceWorkers, phase <- inferencePhase,
        queue <- inferenceQueue, outcome <- inferenceTasks

Ticketed(r) == kind[r] \in {"classification", "save", "forecastData"}

\* The data service that handles a kind of request.
ServiceOf(k) == IF k = "forecastData" THEN "forecastData" ELSE "classification"

\* The data services' State::capacity.
Capacity == AnalysisQueue + AnalysisWorkers

Init ==
  /\ kind = [r \in Requests |-> "unsent"]
  /\ io = [r \in Requests |-> "out"]
  /\ answer = [r \in Requests |-> "none"]
  /\ held = [r \in Requests |-> {}]
  /\ ran = {}
  /\ stored = {}
  /\ pending = [s \in Services |-> 0]
  /\ closing = [s \in Services |-> FALSE]
  /\ accepting = TRUE
  /\ connections = "open"
  /\ stop = 0
  /\ closed = FALSE
  /\ dbPhase = "Running" /\ dbQueue = <<>>
  /\ dbTasks = [t \in DbTasks |-> "new"]
  /\ analysisPhase = "Running" /\ analysisQueue = <<>>
  /\ analysisTasks = [t \in WorkTasks |-> "new"]
  /\ inferencePhase = "Running" /\ inferenceQueue = <<>>
  /\ inferenceTasks = [t \in WorkTasks |-> "new"]

-----------------------------------------------------------------------------
(* Completions and tickets.                                                *)

\* Call the completion.  The data services let only the first call through;
\* with the others a second call would be a second reply.
Answer(r, a) ==
  answer' = [answer EXCEPT ![r] =
               IF @ = "none" THEN a ELSE IF Ticketed(r) THEN @ ELSE "twice"]

\* A closure that captures the completion is stored at a place.
Hold(r, place) == held' = [held EXCEPT ![r] = @ \cup {place}]

\* The closure is destroyed; the last one takes the ticket with it.
ReleaseCompletionOnly(r, place) ==
  /\ held' = [held EXCEPT ![r] = @ \ {place}]
  /\ UNCHANGED pending
Release(r, place) ==
  /\ held' = [held EXCEPT ![r] = @ \ {place}]
  /\ pending' = IF Ticketed(r) /\ held[r] = {place}
                THEN [pending EXCEPT ![ServiceOf(kind[r])] = @ - 1]
                ELSE pending

-----------------------------------------------------------------------------
(* The handler of a request, in the event loop of its connection.          *)

\* A handler is free to run: every event loop runs one at a time.
Idle == Cardinality({r \in Requests : io[r] # "out"}) < IoThreads

\* The server exists until main() returns.
Arrives(r, k) ==
  /\ kind[r] = "unsent"
  /\ Idle
  /\ kind' = [kind EXCEPT ![r] = k]
  /\ UNCHANGED <<ran, stored, serviceVars, stopVars, dbVars, analysisVars,
                 inferenceVars>>

\* The guard around every handler.
TurnedAway(r, k) ==
  /\ Arrives(r, k)
  /\ ~accepting
  /\ answer' = [answer EXCEPT ![r] = "stopping"]
  /\ UNCHANGED <<io, held>>

\* The handler finds fault with the arguments, or the model is not loaded.
Rejected(r, k) ==
  /\ Arrives(r, k)
  /\ accepting
  /\ answer' = [answer EXCEPT ![r] = "rejected"]
  /\ UNCHANGED <<io, held>>

\* companies, overview, classifyTrace, forecast: straight to the database.
Handle(r, k) ==
  /\ Arrives(r, k)
  /\ k \in {"read", "infer"}
  /\ accepting
  /\ io' = [io EXCEPT ![r] = "post"]
  /\ Hold(r, "io")
  /\ UNCHANGED answer

\* classificationData, forecastData: the service has yet to admit them.
HandleData(r, k) ==
  /\ Arrives(r, k)
  /\ k \in {"classification", "save", "forecastData"}
  /\ accepting
  /\ io' = [io EXCEPT ![r] = "admit"]
  /\ UNCHANGED <<answer, held>>

\* execute(): the critical section of State::mutex.
NotAdmitted(r) ==
  LET s == ServiceOf(kind[r])
  IN  /\ io[r] = "admit"
      /\ \/ closing[s] /\ Answer(r, "stopping")
         \/ ~closing[s] /\ pending[s] >= Capacity /\ Answer(r, "busy")
      /\ io' = [io EXCEPT ![r] = "out"]
      /\ UNCHANGED <<kind, held, ran, stored, serviceVars, stopVars, dbVars,
                     analysisVars, inferenceVars>>

Room(s) == pending[s] < Capacity

MayAdmit(s) == ~closing[s] /\ Room(s)

Admitted(r) ==
  LET s == ServiceOf(kind[r])
  IN  /\ io[r] = "admit"
      /\ MayAdmit(s)
      /\ pending' = [pending EXCEPT ![s] = @ + 1]
      /\ Hold(r, "io")
      /\ io' = [io EXCEPT ![r] = "post"]
      /\ UNCHANGED <<kind, answer, ran, stored, closing, accepting, stopVars,
                     dbVars, analysisVars, inferenceVars>>

\* DbExecutor::post, and the answer if the pool does not take the task.
PostLoad(r) ==
  /\ io[r] = "post"
  /\ io' = [io EXCEPT ![r] = "leave"]
  /\ \/ db!Accept(Load(r)) /\ Hold(r, "load") /\ UNCHANGED answer
     \/ db!Refuse(Load(r)) /\ Answer(r, "busy") /\ UNCHANGED held
  /\ UNCHANGED <<kind, ran, stored, serviceVars, stopVars, analysisVars,
                 inferenceVars>>

\* The handler returns and destroys its copies.
Leave(r) ==
  /\ io[r] = "leave"
  /\ io' = [io EXCEPT ![r] = "out"]
  /\ Release(r, "io")
  /\ UNCHANGED <<kind, answer, ran, stored, closing, accepting, stopVars,
                 dbVars, analysisVars, inferenceVars>>

-----------------------------------------------------------------------------
(* The database workers.                                                   *)

BeginDb ==
  /\ db!Begin
  /\ UNCHANGED <<requestVars, ran, stored, serviceVars, stopVars,
                 analysisVars, inferenceVars>>

\* The body of a task runs to its end.
Body(t, tasks) ==
  /\ tasks[t] = "running"
  /\ t \notin ran
  /\ ran' = ran \cup {t}
  /\ UNCHANGED <<kind, io, serviceVars, stopVars>>

\* The worker gets no connection, the driver throws, or the rows asked for
\* are missing, too many or too few: an error is the answer.
LoadFails(r) ==
  /\ Body(Load(r), dbTasks)
  /\ Answer(r, "failed")
  /\ UNCHANGED <<held, stored, dbVars, analysisVars, inferenceVars>>

\* WaterService: the rows are the answer.
LoadAnswers(r) ==
  /\ Body(Load(r), dbTasks)
  /\ connections = "open"
  /\ kind[r] = "read"
  /\ Answer(r, "ok")
  /\ UNCHANGED <<held, stored, dbVars, analysisVars, inferenceVars>>

\* TraceService, ForecastService: the rows go to the inference pool.
LoadInfersAnsweringToo(r) ==
  /\ Body(Load(r), dbTasks)
  /\ connections = "open"
  /\ kind[r] = "infer"
  /\ \/ inference!Accept(Work(r)) /\ Hold(r, "work") /\ Answer(r, "failed")
     \/ inference!Refuse(Work(r)) /\ Answer(r, "busy") /\ UNCHANGED held
  /\ UNCHANGED <<stored, dbVars, analysisVars>>
LoadInfers(r) ==
  /\ Body(Load(r), dbTasks)
  /\ connections = "open"
  /\ kind[r] = "infer"
  /\ \/ inference!Accept(Work(r)) /\ Hold(r, "work") /\ UNCHANGED answer
     \/ inference!Refuse(Work(r)) /\ Answer(r, "busy") /\ UNCHANGED held
  /\ UNCHANGED <<stored, dbVars, analysisVars>>

\* The data services: the rows go to the analysis pool.
LoadAnalyses(r) ==
  /\ Body(Load(r), dbTasks)
  /\ connections = "open"
  /\ Ticketed(r)
  /\ \/ analysis!Accept(Work(r)) /\ Hold(r, "work") /\ UNCHANGED answer
     \/ analysis!Refuse(Work(r)) /\ Answer(r, "busy") /\ UNCHANGED held
  /\ UNCHANGED <<stored, dbVars, inferenceVars>>

\* The answer is given before the version is stored.
SaveAnswersFirst(r) ==
  /\ Body(Save(r), dbTasks)
  /\ connections = "open"
  /\ stored' \in {stored, stored \cup {r}}
  /\ Answer(r, "ok")
  /\ UNCHANGED <<held, dbVars, analysisVars, inferenceVars>>

\* saveClassificationVersion commits, and the result is the answer.
SaveAnswers(r) ==
  /\ Body(Save(r), dbTasks)
  /\ connections = "open"
  /\ stored' = stored \cup {r}
  /\ Answer(r, "ok")
  /\ UNCHANGED <<held, dbVars, analysisVars, inferenceVars>>

\* There was no connection, or its transaction was rolled back.  Or COMMIT was
\* executed, and its reply was lost or the call after it failed: the version
\* is stored then, although an error is the answer.
SaveFails(r) ==
  /\ Body(Save(r), dbTasks)
  /\ Answer(r, "failed")
  /\ \/ UNCHANGED stored
     \/ connections = "open" /\ stored' = stored \cup {r}
  /\ UNCHANGED <<held, dbVars, analysisVars, inferenceVars>>

EndDb(t) ==
  /\ t \in ran
  /\ ran' = ran \ {t}
  /\ db!Complete(t)
  /\ Release(t[1], t[2])
  /\ UNCHANGED <<kind, io, answer, stored, closing, accepting, stopVars,
                 analysisVars, inferenceVars>>

-----------------------------------------------------------------------------
(* The analysis and inference workers.                                     *)

BeginAnalysis ==
  /\ analysis!Begin
  /\ UNCHANGED <<requestVars, ran, stored, serviceVars, stopVars, dbVars,
                 inferenceVars>>

\* The analysis throws, or its result cannot be saved.
AnalysisFails(r) ==
  /\ Body(Work(r), analysisTasks)
  /\ Answer(r, "failed")
  /\ UNCHANGED <<held, stored, dbVars, analysisVars, inferenceVars>>

AnalysisAnswers(r) ==
  /\ Body(Work(r), analysisTasks)
  /\ kind[r] # "save"
  /\ Answer(r, "ok")
  /\ UNCHANGED <<held, stored, dbVars, analysisVars, inferenceVars>>

\* The result becomes a database task of its own.
AnalysisSavesUncaptured(r) ==
  /\ Body(Work(r), analysisTasks)
  /\ kind[r] = "save"
  /\ \/ db!Accept(Save(r)) /\ UNCHANGED <<held, answer>>
     \/ db!Refuse(Save(r)) /\ Answer(r, "busy") /\ UNCHANGED held
  /\ UNCHANGED <<stored, analysisVars, inferenceVars>>
AnalysisSavesSilently(r) ==
  /\ Body(Work(r), analysisTasks)
  /\ kind[r] = "save"
  /\ \/ db!Accept(Save(r)) /\ Hold(r, "save")
     \/ db!Refuse(Save(r)) /\ UNCHANGED held
  /\ UNCHANGED <<answer, stored, analysisVars, inferenceVars>>
AnalysisSaves(r) ==
  /\ Body(Work(r), analysisTasks)
  /\ kind[r] = "save"
  /\ \/ db!Accept(Save(r)) /\ Hold(r, "save") /\ UNCHANGED answer
     \/ db!Refuse(Save(r)) /\ Answer(r, "busy") /\ UNCHANGED held
  /\ UNCHANGED <<stored, analysisVars, inferenceVars>>

EndAnalysis(r) ==
  /\ Work(r) \in ran
  /\ ran' = ran \ {Work(r)}
  /\ analysis!Complete(Work(r))
  /\ Release(r, "work")
  /\ UNCHANGED <<kind, io, answer, stored, closing, accepting, stopVars,
                 dbVars, inferenceVars>>

BeginInference ==
  /\ inference!Begin
  /\ UNCHANGED <<requestVars, ran, stored, serviceVars, stopVars, dbVars,
                 analysisVars>>

\* Every outcome of the model run, exceptions included, is answered.
InferenceAnswers(r, a) ==
  /\ Body(Work(r), inferenceTasks)
  /\ Answer(r, a)
  /\ UNCHANGED <<held, stored, dbVars, analysisVars, inferenceVars>>

EndInference(r) ==
  /\ Work(r) \in ran
  /\ ran' = ran \ {Work(r)}
  /\ inference!Complete(Work(r))
  /\ Release(r, "work")
  /\ UNCHANGED <<kind, io, answer, stored, closing, accepting, stopVars,
                 dbVars, analysisVars>>

-----------------------------------------------------------------------------
(* main() after the event loop: every part is closed and then waited for.  *)

StopOrderDatabaseFirst ==
  <<"database", "classification", "forecastData", "analysis", "inference">>
StopOrder ==
  <<"classification", "forecastData", "database", "analysis", "inference">>

\* A signal ends the loop of the main thread, which then stops accepting.
StopAccepting ==
  /\ stop = 0
  /\ stop' = 1
  /\ accepting' = FALSE
  /\ UNCHANGED <<requestVars, ran, stored, pending, closing, connections,
                 closed, dbVars, analysisVars, inferenceVars>>

Stopping(part) == stop \in 1..Len(StopOrder) /\ StopOrder[stop] = part

Close(part) ==
  /\ Stopping(part)
  /\ ~closed
  /\ closed' = TRUE
  /\ UNCHANGED <<requestVars, ran, stored, pending, accepting, stop>>

Proceed(part) ==
  /\ Stopping(part)
  /\ closed
  /\ closed' = FALSE
  /\ stop' = stop + 1
  /\ UNCHANGED <<requestVars, ran, stored, serviceVars>>

\* shutdown() of a data service.
CloseService(s) ==
  /\ Close(s)
  /\ closing' = [closing EXCEPT ![s] = TRUE]
  /\ UNCHANGED <<connections, dbVars, analysisVars, inferenceVars>>

AwaitTickets(s) ==
  /\ Proceed(s)
  /\ pending[s] = 0
  /\ UNCHANGED <<connections, dbVars, analysisVars, inferenceVars>>

\* DbExecutor::shutdown: the workers first, then their connections.
CloseDb ==
  /\ Close("database")
  /\ db!CloseGracefully
  /\ UNCHANGED <<closing, connections, analysisVars, inferenceVars>>

JoinDb ==
  /\ Proceed("database")
  /\ db!Stop
  /\ connections' = "closed"
  /\ UNCHANGED <<analysisVars, inferenceVars>>

ClosePool(part) ==
  /\ Close(part)
  /\ \/ part = "analysis" /\ analysis!CloseGracefully /\ UNCHANGED inferenceVars
     \/ part = "inference" /\ inference!CloseGracefully /\ UNCHANGED analysisVars
  /\ UNCHANGED <<closing, connections, dbVars>>

JoinPool(part) ==
  /\ Proceed(part)
  /\ \/ part = "analysis" /\ analysis!Stop /\ UNCHANGED inferenceVars
     \/ part = "inference" /\ inference!Stop /\ UNCHANGED analysisVars
  /\ UNCHANGED <<connections, dbVars>>

Stopped == stop > Len(StopOrder)

\* Nothing is left to do; keeps TLC's deadlock check for every other state.
Terminated ==
  /\ Stopped
  /\ \A r \in Requests : kind[r] # "unsent" /\ io[r] = "out"
  /\ UNCHANGED vars

-----------------------------------------------------------------------------

HandlerNext(r) ==
  \/ NotAdmitted(r) \/ Admitted(r) \/ PostLoad(r) \/ Leave(r)

DbNext ==
  \/ BeginDb
  \/ \E r \in Requests :
       \/ LoadFails(r) \/ LoadAnswers(r) \/ LoadInfers(r) \/ LoadAnalyses(r)
       \/ SaveAnswers(r) \/ SaveFails(r)
  \/ \E t \in DbTasks : EndDb(t)

AnalysisNext ==
  \/ BeginAnalysis
  \/ \E r \in Requests :
       \/ AnalysisFails(r) \/ AnalysisAnswers(r) \/ AnalysisSaves(r)
       \/ EndAnalysis(r)

InferenceNext ==
  \/ BeginInference
  \/ \E r \in Requests :
       \/ \E a \in {"ok", "failed"} : InferenceAnswers(r, a)
       \/ EndInference(r)

MainNext ==
  \/ \E s \in Services : CloseService(s) \/ AwaitTickets(s)
  \/ CloseDb \/ JoinDb
  \/ \E p \in {"analysis", "inference"} : ClosePool(p) \/ JoinPool(p)

Next ==
  \/ \E r \in Requests, k \in Kinds :
       TurnedAway(r, k) \/ Rejected(r, k) \/ Handle(r, k) \/ HandleData(r, k)
  \/ \E r \in Requests : HandlerNext(r)
  \/ DbNext \/ AnalysisNext \/ InferenceNext
  \/ StopAccepting \/ MainNext
  \/ Terminated

Spec == Init /\ [][Next]_vars

(***************************************************************************)
(* Handlers and workers run; main() goes on once it has begun to stop.     *)
(* Nobody has to send a request or the signal.                             *)
(***************************************************************************)
Fairness ==
  /\ \A r \in Requests : WF_vars(HandlerNext(r))
  /\ WF_vars(DbNext)
  /\ WF_vars(AnalysisNext)
  /\ WF_vars(InferenceNext)
  /\ WF_vars(MainNext)

FairSpec == Spec /\ Fairness

-----------------------------------------------------------------------------
(* Properties.                                                             *)

\* Every variable stays in its range; no service gives out more tickets than
\* its capacity.
TypeOK ==
  /\ kind \in [Requests -> Kinds \cup {"unsent"}]
  /\ io \in [Requests -> {"out", "admit", "post", "leave"}]
  /\ answer \in [Requests -> Answers \cup {"none", "twice"}]
  /\ held \in [Requests -> SUBSET Places]
  /\ ran \subseteq DbTasks \cup WorkTasks
  /\ stored \subseteq Requests
  /\ pending \in [Services -> 0..Capacity]
  /\ closing \in [Services -> BOOLEAN]
  /\ accepting \in BOOLEAN
  /\ connections \in {"open", "closed"}
  /\ stop \in 0..(Len(StopOrder) + 1)
  /\ closed \in BOOLEAN
  /\ {dbPhase, analysisPhase, inferencePhase} \subseteq
       {"Running", "Draining", "Stopped"}
  /\ Len(dbQueue) <= DbQueue
  /\ Len(analysisQueue) <= AnalysisQueue
  /\ Len(inferenceQueue) <= InferenceQueue

InPool(tasks, t) == tasks[t] \in {"queued", "running"}

\* A data request is in its handler or in one of the pools.
Underway(r) ==
  \/ io[r] \in {"post", "leave"}
  \/ InPool(dbTasks, Load(r))
  \/ InPool(analysisTasks, Work(r))
  \/ InPool(dbTasks, Save(r))

\* A service's pending tickets are exactly its requests that are under way,
\* through every hand-over between the threads, and so shutdown() waits for
\* them and for nothing else.
TicketsMatchWork ==
  \A s \in Services :
    pending[s] = Cardinality({r \in Requests :
                   Ticketed(r) /\ ServiceOf(kind[r]) = s /\ Underway(r)})

\* Once main() has got past the shutdown of a data service, no request of it
\* is under way, and none can be.
ShutDownServicesAreQuiet ==
  \A n \in 1..Len(StopOrder) :
    StopOrder[n] \in Services /\ n < stop =>
      \A r \in Requests :
        Ticketed(r) /\ ServiceOf(kind[r]) = StopOrder[n] => ~Underway(r)

\* A service accounts for its requests: it admits no more than its capacity,
\* gives out and takes back one ticket for each, and is quiet once shut down.
ServicesAccount == TypeOK /\ TicketsMatchWork /\ ShutDownServicesAreQuiet

\* "Shutdown must still allow the already-admitted CPU stage to submit its
\* transactional save": no task posted by a worker is turned away because
\* its pool is closing, and no task runs after its connections were closed.
\* Only a full queue ends a request that has been accepted.
AcceptedWorkIsServed ==
  [][\A r \in Requests :
       /\ dbTasks'[Save(r)] = "refused" /\ dbTasks[Save(r)] = "new"
            => dbPhase = "Running"
       /\ analysisTasks'[Work(r)] = "refused" /\ analysisTasks[Work(r)] = "new"
            => analysisPhase = "Running"
       /\ inferenceTasks'[Work(r)] = "refused" /\ inferenceTasks[Work(r)] = "new"
            => inferencePhase = "Running"
       /\ {Load(r), Save(r)} \cap (ran' \ ran) # {} => connections = "open"]_vars

\* The completion of a request is called at most once, and it is true of the
\* store: a save reported done is stored, and one that a full queue, a check
\* or the end of the server turned away ("busy", "rejected", "stopping") has
\* stored nothing, at any later time either.  Only after "failed" the caller
\* cannot know, since the commit may have been executed.
AnswersAreTrue ==
  \A r \in Requests :
    /\ answer[r] # "twice"
    /\ kind[r] = "save" /\ answer[r] = "ok" => r \in stored
    /\ r \in stored => kind[r] = "save" /\ answer[r] \in {"ok", "failed"}

\* A request without an answer is on its way to one: some thread or pool
\* still has it, so that none is forgotten even while the server stops.
NoneForgotten ==
  \A r \in Requests :
    kind[r] # "unsent" /\ answer[r] = "none" =>
      \/ io[r] \in {"admit", "post"}
      \/ \E t \in {Load(r), Save(r)} : InPool(dbTasks, t) /\ t \notin ran
      \/ InPool(analysisTasks, Work(r)) /\ Work(r) \notin ran
      \/ InPool(inferenceTasks, Work(r)) /\ Work(r) \notin ran

\* Every request that arrives is answered.
RequestsAnswered ==
  \A r \in Requests : kind[r] # "unsent" ~> answer[r] # "none"

\* main() returns once it was told to stop.
StopCompletes == stop > 0 ~> Stopped

=============================================================================
