# Water_Pollution: a verification project

TLA+ models of the water quality server (`server/`, C++20 on Muduo) and of its
Qt client (`WaterLogin/`), with the TLC runs that check them and the theorems
TLAPS proves about them. Paths are relative to the repository.

## The system

| Component | State | Operations | Talks to |
| --- | --- | --- | --- |
| `ThreadPool` (`server/src/concurrency`) | life cycle, bounded deque of tasks, worker records, counters; one mutex, three condition variables | start, post, postFor, submit*, reserve, waitIdleFor, shutdown(Drain / CancelPending) | its callers' threads, its workers |
| `ConnectionPool` (`server/src/db`) | life cycle, idle connections, total / borrowed / creating counters; one mutex, three condition variables, a maintenance thread | start, acquire, release (lease destructor), maintenance, shutdownFor | the MySQL driver, outside its mutex |
| `DbExecutor` | a ThreadPool and a ConnectionPool | start, post, submit, shutdown | a task takes a lease inside a worker |
| Database session (`MySqlConnection`, `Transaction`) | transaction_active, the session's autocommit | begin, commit, rollback, resetSession | MySQL |
| `WaterRepository` | the tables: companies, samples, processing runs | the queries, the version save | a leased connection |
| Services (`server/src/service`) | tickets (pending, capacity, closing) in the two data services | execute, shutdown | DbExecutor, then the analysis or inference pool, then DbExecutor again to save |
| Analysis (`server/src/analysis`) | none | gap repair, smoothing, outliers, windows, diagnoses, distributions, correlations | called by a worker |
| Inference | none | ONNX Runtime calls | called by a worker |
| `ApiController`, `HttpRouter` | accepting flag; routes | handlers, argument checks | services; replies from any thread |
| `MuduoHttpServer`, `HttpCodec` | per connection: buffered bytes, request_in_flight, generation; timers | onConnection, onMessage, processNext, complete | Muduo's event loop, router |
| `main` | the stop order | start-up, shutdown | all of the above |
| Client requests (`ApiClient`, the four services) | request sequence, superseded request | get / post, timeouts, replies | the server, over HTTP |
| Client pages (`WaterLogin`) | inputs, busy flags, what is shown, what may be saved or exported | click handlers, result handlers, modal boxes | their service, the event loop |
| Client logs (`AppLogger`, `LogPage`, `GitLogService`) | the log file, both lists of entries, filters, table | append and rotate, refresh, timer, export, commits | the file, the Git hosting API |
| Offline tools (`tools`, `server/sql`) | - | training, export, migration scripts | - |

A request travels: page -> `ApiClient` -> event loop -> codec -> router ->
controller -> service -> database worker (leases a connection) -> analysis or
inference worker -> possibly a second database worker (version save) -> reply,
queued into the event loop -> page. The hard behaviours are at the hand-overs:
notifications sent after a mutex was released, counters adjusted in one critical
section for work done in another, deadlines that pass while the answer is on its
way, modal boxes that run an event loop in the middle of a handler, and the
shutdown of each part while the others still work. `PROJECT.json` lists them under
`hazards`, each at its line, with the properties that cover it.

What makes each component correct:

- *ThreadPool*: accepted tasks run exactly once, in order, or have their promise
  broken; bounds hold; nobody sleeps through what they wait for; Stopped is quiet.
- *ConnectionPool*: counters agree with where the connections are; the limit
  holds; borrowers and `shutdownFor` are woken; the minimum is restored.
- *HTTP session*: responses in request order, one each; a close is the last
  word; every complete request is answered, whatever the handlers do.
- *Services*: every request that got a ticket is answered at most once, and its
  ticket comes back; shutdown waits for exactly those.
- *Database session*: a version is stored completely or not at all, what the
  caller is told agrees with it, and a session goes back to the pool clean.
- *API, repository and analysis*: a request is refused for a reason that holds;
  what is read are the rows asked for; what is computed is what the operation's
  name says, at the edges of windows, bins and gaps too; a saved version can be used.
- *Client*: a page knows whether it waits, becomes usable again, never mixes two
  results, and saves and exports what is on the screen.

## Modules

| Module | Models | State and actions |
| --- | --- | --- |
| `ThreadPool` | `thread_pool.cpp` | one action per critical section of `Impl::mutex`; notifications sent after unlocking are actions of their own (`NotifyAccepted`, `AnnounceSpace`, `AnnounceIdle`, `Finish`, `WakeAll`). `worker[w]` is the point of `workerLoop` a thread is at, `job[t]` where a task and its submitter are. |
| `TaskExecutor` | what the header promises callers | a FIFO of tasks, at most `max_threads` in progress, no threads; `ThreadPool` implements it (`ImplementsExecutor`) |
| `ThreadPoolProofs` | - | theorems about `ThreadPool` |
| `ConnectionPool` | `connection_pool.cpp` | one action per critical section, driver calls outside it; `pc[b]` is the point of `acquireRecord` or `releaseConnection` a borrower is at, `keeper` the maintenance thread, `owner` the thread in `start` / `shutdownFor` |
| `HttpSession` | `muduo_http_server.cpp` with its codec | one action per callback of the event loop; handlers' threads reply at any time or never |
| `RequestPipeline` | `db_executor.cpp`, the five services, the guard of `api_controller.cpp`, the stop order of `main.cpp` | one action per hand-over: the handler in its event loop (`Handle`, `Admitted`, `PostLoad`, `Leave`), the body of each task (`LoadAnalyses`, `AnalysisSaves`, `SaveAnswers`, ...), the end of its closure (`EndDb`, ...), and the steps of `main` (`StopOrder`). The three pools are INSTANCEs of `TaskExecutor`, so what `thread_pool` shows of the pool is what the services rely on. `held[r]` says where copies of a request's completion are; the ticket in `pending` goes back with the last one |
| `DbSession` | `mysql_connection.cpp`, `database.cpp`, the save in `water_repository.cpp`, the lease in `connection_pool.cpp` | one action per call that can fail separately; `lease` is the step of the borrower, `active`, `due`, `resetOk` the driver's record, `link`, `autocommit`, `open`, `rows` the external MySQL server |
| `DbSessionProofs` | - | theorems about `DbSession` |
| `Ordering` | `std::sort`, `std::stable_sort`, `ORDER BY`, filters that keep the order | operators that place an element by counting those before it, without recursion |
| `WaterDomain` | limits and defaults of the domain headers | constants; no state |
| `SeriesStatistics` | the column statistics both analysis files have | operators |
| `ForecastAnalysis`, `ClassificationAnalysis` | `forecast_data_analysis.cpp`, `classification_analysis.cpp` | operators that follow the code's loops, index pairs and running sums; the second half of each holds the definitions they are compared with (what a line, a mean, a rank or a bin is) |
| `ApiRequests` | `http_router.cpp` and the parsing half of `api_controller.cpp` | operators from a message to the parameters of an operation or an error |
| `WaterStore` | `water_repository.cpp` | operators from a store to the rows a query selects, in their order, and the store a save leaves; `SamplesAreSound` is what the keys of `000_base_schema.sql` keep |
| `AnalysisServer` | one request from router to reply, through the five services | `Accept`, `AnswerAtOnce`, then the load, the computation, the save and the answer as actions; `stage` is where the request is. Composes the five modules above |
| `Desktop` | the client's event loop and `ApiClient` | `boxes` is the stack of modal windows: each runs an event loop of its own inside the handler that opened it; endings of a request (answer, refusal, timeout, abort) |
| `DataPage`, `TracePage`, `PredictionPage`, `LogPage` | a page with its service | one action per slot: clicks, result and error handlers, timers, what runs when a box is closed |
| `Client` | `mainwindow.cpp` with the four pages | the pages of one visit side by side |
| `ClientProofs` | - | theorems about `Client` |
| `HttpSessionProofs` | - | theorems about `HttpSession` |
| `ConnectionPoolProofs` | - | theorems about `ConnectionPool` |
| `RequestPipelineProofs` | - | theorems about `RequestPipeline` |
| `CollectionProofs` | - | what sorting and selecting keep, least and greatest numbers, induction, sums: lemmas `ClientProofs` and `AnalysisServerProofs` use |
| `AnalysisServerProofs` | - | theorems about `AnalysisServer` |
| `MC*` | - | instances for TLC |

Some definitions are preceded by a faulty variant named for what is wrong with
it (`NotifyTaskNone`, `FreeSlotIgnoringCreating`, `CompleteOnly`, ...). No
specification uses one: put in the place of the definition it shows that a
property fails when the code does (`mutants` in `PROJECT.json`).

What the modules abstract from the code:

- *ThreadPool*: a task is an identity, with one submitting thread. `submit`,
  `trySubmit`, `submitFor`, `submitStoppable` are `enqueue` with a packaged
  task. A wait leaves the condition variable when notified or when its deadline
  passes; a spurious wake-up would evaluate the same predicate under the same
  mutex and is left out, so that no property leans on one. The exception
  `shutdown` throws in a worker of the same pool, blocking submissions from a
  worker to its own pool, and the statistics `rejected`, `uncaught` and `peak_*`
  are left out. A deadline may pass at any time.
- *ConnectionPool*: connections are interchangeable, so `idle` is a number. That a
  connection is too old, must be pinged or fails is a free choice each time the
  code asks; failures are bounded by `MaxMishaps`. `acquire` is called only
  after `start` returned, which `DbExecutor::start` guarantees.
- *HttpSession*: a request is header plus body, two fragments that messages cut
  or join freely; a malformed request never becomes decodable. A connection
  shares only the locked map of sessions with others, so one is modelled. From
  muduo comes only that `send` and `shutdown` do nothing on a connection that is
  closing.
- *RequestPipeline*: an answer is one of `ok`, `rejected` (arguments), `stopping`,
  `busy`, `failed`; the error codes in each class are not told apart. What the
  rows and the model make of a request is a free choice. Failing to lease a
  connection is one too: it is what `ConnectionPool` leaves possible. A save that is
  answered `failed` may be stored all the same (`mysql_connection.cpp:430-435`: COMMIT
  is executed, then its reply is lost or the call after it fails), which is why
  `AnswersAreTrue` promises nothing after `failed`; `DbSession` has the calls one by
  one. The deadline
  of the HTTP session does not stop a request here; it is in `HttpSession`. A
  completion does not throw. `shutdown` of a data service waits on a condition
  variable notified under its mutex, so it is a guard. `health` and
  `forecastModel`, which touch none of this, are left out.
- *DbSession*: one connection, because sessions share nothing but committed rows.
  The driver does not reconnect, so once the link is lost every call on it
  fails; on a live link INSERT and COMMIT may still be refused. A COMMIT cut
  off by a lost link may or may not have happened. That a lease's connection
  is too old is a free choice. The branch of `resetSession` that rolls back is
  modelled and never reached, since `Transaction` always clears the flag first.

- *Analysis*: the code computes in floating point; here samples are integers of
  a unit chosen by the instance so that every quotient is exact, or a quotient
  is kept as a numerator over a known denominator (each operator says which).
  Rounding, overflow and NaN are not modelled, and with them
  `INVALID_CLASSIFICATION_DATA` (422), which the schema rules out, and the check
  that cleaned values fit a 32-bit float. The features do not influence each
  other, so two stand for all of them.
- *WaterStore*: a query selects a set of rows in an order; SQL text, binding and
  conversion are left out. `loadForecastWindow` orders by id, the series of the
  data page by `sample_index`, as in the code.
- *AnalysisServer*: requests come one after another on the store the earlier
  ones left; queues, tickets and failing connections are `RequestPipeline` and
  `DbSession`. A model's prediction is any of `Predictions`, also an invalid one.
- *Client pages*: a result is named by what it is about: operation, selection and
  parameters. A reply ends in an answer, an error, a timeout or an abort, at any
  time its timer allows; the server may store a version before or after the page
  gave up. A page lives on while others are shown. The constructor's requests,
  the one fetch of the company list, and what a page leaves standing (a forecast
  task without company 7 keeps the rows of the last preview) are as in the code.
- *LogPage*: an entry is a time, a source and whether the keyword is in it. The
  rotated file is never read back, so rotation hides it. Opening, reading and
  renaming the log file may fail each time; a file that cannot be renamed grows up
  to `MaxFile`. The timer may refill the table while the export dialog is open; what
  is exported are the rows of the moment of writing, and no property is about the
  text of that file.

## Runs

| Run | Instance | Shows |
| --- | --- | --- |
| `thread_pool` | 4 tasks, 3 records, 1 core and 2 threads at most, 2 places, 1 failed creation | all safety properties and the refinement. Two tasks fill the deque while two run, so submitters block, steal places and time out, elastic threads retire and are replaced, and either shutdown meets all of it; the third record lets a thread that has left coexist with two live ones |
| `thread_pool_live` | 2 tasks, 2 records, 1 place | tasks settle; start, shutdown and blocked submitters return (`CallersReturn`) |
| `connection_pool` | 5 borrowers, 2 to 3 connections, 3 failures | `Bookkeeping` (types, accounting, limit, a drained pool is empty) and `Wakeups`: three leases, one waiter woken while another arrives, the maintenance thread restoring two at once |
| `connection_pool_live` | 3 borrowers, 1 to 2 connections, 2 failures | waiters, the minimum and shutdown make progress |
| `connection_pool_wakeup` | 2 borrowers, 1 connection | **violated**: see findings |
| `http_session` | streams of 4 requests of every kind | order, close, progress: a keep-alive request with a late answer, a timed-out one, a pipelined one and a malformed one all meet |
| `request_pipeline` | 3 requests of any kind, 2 event loops, pools of 1 worker and 1 place (2 tickets a service) | tickets, shutdown of the services, accepted work, answers: three requests fill a worker, its queue and the tickets, so each post can be refused, a save can find the queue full, and `main` may begin to stop at every point of all that |
| `request_pipeline_live` | 2 requests, the same pools | every request is answered; `main` returns |
| `db_session` | 2 versions of 1 + 2 INSERTs | a version after a failed one in the same session, with any call failing and the link lost anywhere |
| `db_session_reset` | the same | **violated**: see findings |
| `analysis` | one message of every route, operation and refusal, or one or two saves (of the same or of another company and split) and a request that names a version; stores of 0 to 7 rows | the analyses agree with their reference definitions, rows are those asked for (the right ones, once, in order, with the values of the table or of the named version rather than of another one of the same scope), failures are explained, saved versions can be used. The stores hold every pattern of missing, zero and repeated values of 3 to 5 rows, gaps and disorder of the sequence, and one row more than each limit |
| `client` | 4 clicks, 3 companies (one of each task type), 2 settings; a log file of at most 2 entries that is rotated from 1 on, entries and commits of equal and of different times; visits of the data and trace page, of the trace and prediction page, of the log page | no page waits in vain or for two results, selections are honoured, saves and exports are of one result, the table tells the log, pages come back. Four clicks allow preview, changed parameters, save and another request; two pages suffice because the pages share only the stack of boxes |

In `client` the action `DropStale` (a reply to a superseded request arrives) never
finds one, which is what `DataPageWaitsForOne` says: the disabled controls keep
requests from overlapping, and the sequence number is a second line of defence.

Safety runs use symmetry of tasks, records, borrowers, requests and versions;
runs with liveness properties do not. Deadlock is checked: a `Terminated` (`Quiet`
in `Client`) action stutters in the states in which everybody has returned, and
nowhere else (a `DbSession` has no end). Only `analysis` turns the check off, for
its client may stop sending after any answer.

Fairness. `ThreadPool`: threads that can run do, the mutex is fair, tasks
return. `ConnectionPool`: the same, driver calls return (the MySQL timeouts in
`MySqlConfig` bound them) and the maintenance interval passes; that leases are
returned is a premise of the one property that needs it. `HttpSession`: the
event loop runs its queue and its timers; nobody has to send, reply or
disconnect. `RequestPipeline`: handlers and workers run, and `main` goes on once
it has begun to stop; nobody has to send a request or the signal. `Client`: the
event loop delivers timers (15 s of a request, 12 s of the commits, the zero timer of the
prediction page); the server need not answer, the user need not act or close a
box. `DbSession` and `AnalysisServer` have no liveness property. No caller has
to submit, borrow or shut down, and no deadline of a caller has to pass: what
waits must be woken.

### Findings

1. *A borrower sleeps beside a free slot* (`connection_pool_wakeup`): a creation
   that fails in the maintenance thread gives its slot back without notifying
   `available`. The run `connection_pool` shows that this is the only way a
   wake-up of a borrower is lost (`BorrowerWakeupUntilKeeperFails`).
2. *A dead connection goes back to the pool* (`db_session_reset`): the rollback of
   a lost connection fails without being noticed and clears `transaction_active`,
   so the reset that should discard the connection finds nothing to do.
   `PooledSessionIsClean` shows that a live connection comes back clean all the same.

Differences between docs and code that were met while modelling and have no run:

- More connections than `max_connections` may be open for a moment: one that is
  discarded is uncounted before it is closed (`server/docs/connection_pool.md:8`
  and 19-20). What the pool counts stays within the limit (`WithinLimit`).
- After a 504 the next buffered request is dispatched while the first handler
  still runs (`server/docs/muduo_server.md:17-18`, one request at a time). Its late
  answer is dropped; `OneAtATime` is about what can still be answered.
- The warning of a smoothing preview says that only current and preceding samples
  are used (`server/src/analysis/forecast_data_analysis.cpp:368`); the interpolation
  that comes first uses later ones.
- A request answered 504, or given up by the client, may still store its version,
  and repeating it stores another. The docs say so
  (`server/docs/classification_preprocessing.md:103`); `SavesRepeatTheScreen` shows that
  the page never repeats a save without a new confirmed click.

## Proofs

`ThreadPoolProofs` proves, for any finite set of tasks and any sizes the
constructor accepts, `TypeCorrect` (`TypeOK`), `TasksAreConserved`
(`Conservation`) and `CountsAreExact` (`ThreadCounts`). The inductive invariant
is `Bookkeeping`: the three together with `Fresh` (records that do not exist are
in no count and hold no task, and before `start` there are none). None is
inductive alone: the bound on `active` comes from `ThreadCounts`, whose step for
a finishing worker needs the record to be where the count says it is.

The second part of the module builds on it and proves `NoWorkerOversleeps` (`WorkerWakeup`),
`NoSubmitterOversleeps` (`SpaceWakeup`) and `RecordsAreStable` (`RecordsStable`).
`WorkerWakeup` is not inductive, because a worker that takes a task uses up an
awake thread along with it. What is kept is stronger, `Wakeful`: workers fall
asleep only on an empty deque, so as long as any worker sleeps every queued task
has a notification or an awake worker of its own; and the same for submitters
and free places, who fall asleep only on a full deque.

The third part proves `PoolIsAnExecutor` (`ImplementsExecutor`): every step of
the pool is a step of `TaskExecutor` or one its callers do not see, so the theorems
about `RequestPipeline`, whose pools are that executor, carry over to `ThreadPool`. The
invariant says who has a task: the deque once (`Deque`), exactly one worker
(`Hands`), or the owner that drops it (`Ended`). That a draining pool empties its
deque before its last thread is joined rests on the core workers, which neither
retire nor leave while tasks are queued (`Staffed`); that a task can begin at all
without exceeding `max_threads`, on `ThreadCounts`. From the same invariant come
`StopsQuietly` (`StoppedIsQuiet`), `KeepsEnoughWorkers` (`Provisioned`) and
`IdleIsAnnounced` (`IdleWakeup`).

Assumptions: `OptionsAssumption` (what the constructor checks) and
`BoundsAssumption` (finite sets, at least `max_threads` records).

`ConnectionPoolProofs` proves `PoolIsAccounted` (`Bookkeeping`) by the invariant
`PoolInv`. `Accounting` alone is not inductive: `start` and the maintenance thread
count connections before they exist, so what each of them has reserved is part of
the invariant (`BeforeStart`, `ReservationIsUnderway`), and that a drained pool
stays empty needs that a closed pool has nothing idle (`ClosedHasNoIdle`) and that
nobody is on the way in (`DrainedStays`). The second half proves
`NobodyOversleeps` (`Wakeups`) by `WakeInv`: as long as anybody sleeps, every
available connection or slot has a promise of its own - a notification still to
come, or a borrower that is awake (`BorrowersWake`) - and the thread in `shutdownFor`
sleeps only after the maintenance thread has ended (`JoinedFirst`). Assumptions:
what the constructor checks, finitely many borrowers.

`HttpSessionProofs` proves, for any stream of requests, `TypeCorrect`,
`ResponsesAreInOrder` (`AnswersInOrder`), `HandlesOneAtATime` (`OneAtATime`) and
`NoRequestIsLeft` (`NothingStranded`). `SessionInv` ties together what the code keeps
apart: the generation counts the requests decoded, each call carries the number of
its request, and the length of what was sent, what was decoded and whether one is
in flight agree, the one in flight being in one place only.

`RequestPipelineProofs` proves, for any number of requests, pool threads, queue
places and admitted requests, `ServicesKeepAccount` (`ServicesAccount`), `AnswersHold`
(`AnswersAreTrue`), `NobodyIsForgotten` (`NoneForgotten`) and `WorkIsServed`
(`AcceptedWorkIsServed`). `AnswersAreTrue` forbids a second answer and ties
answers to what is stored, as far as the code can: `ok` is stored, a request turned away
is not. `NoneForgotten` is not inductive: that a worker's post cannot
meet a closing pool depends on the request's ticket, which keeps the shutdown of
its service, and so of every part that comes later in `StopOrder`, from finishing.
The invariant `PipelineInv` has what the argument needs: a pool's queue holds each
queued task once, and nothing is left in a stopped pool (`Pools`); for each request
who holds its completion, how far its tasks are and that it has no answer exactly
while one place will give it one (`Journey`); a service's counter is the number of
its requests somebody holds (`TicketsCounted`); and which parts are open and which
counters are zero at each step of `main` (`StopsInOrder`). Assumption:
`OptionsAssumption` (positive sizes, finitely many requests).

`DbSessionProofs` proves, for any set of versions and any number of INSERTs each,
`TypeCorrect` (`TypeOK`), `VersionsAreWhole` (`AllOrNothing`), `LendsCleanSessions`
(`PooledSessionIsClean`) and `AnswersAreReliable` (`AnswersMatchStore`). The invariant
`SessionInv` adds to what is proved that the driver's flag is set exactly during a
transaction (`DriverAgrees`), that a live server has autocommit off and open rows
only then (`ServerAgrees`), and that the open rows are the first `part` ones of
the job (`SaveProgress`): without it COMMIT could publish half a version.
`AnswerInv` relates what was told to the step of the lease (`AskedIsUnderway`) and
to the rows (`StoreAgrees`). Assumptions: `BatchesAssumption` (a version has
samples) and `ReadAssumption` (reads and saves are told apart).

`ClientProofs` proves, for any companies, settings, samples, visits and number of
clicks, `ClientKnowsItsRequests` (`PagesKnowTheirRequests`), `ClientHonoursSelection`
(`SelectionIsHonoured`), `ClientExportsOneResult` (`ExportsAreOneResult`),
`ClientSavesWhatItShows` (`SavesRepeatTheScreen`) and `ClientTellsTheLog`
(`TableTellsTheLog`). Each page has an inductive invariant
that the other pages' steps leave alone. What they share is the stack of boxes, of
which a page needs to know that a box opened by a click lies below all others and
what holds while it is open: with the question whether to save on the screen,
no request is under way and the preview is the table shown (`DataInv`), however
late the answer to the question comes. Of the log page (`LogInv`) every step that
changes a list or a filter that is applied fills the table again (`Rebuilt`). That a
filled table is right is `TableIsTold`: the rows of one time are, in their order, the
entries of that time that pass (`RowsOfOneTime`), because the table's order maps those
rows onto the positions of those entries one to one and upwards, and there is only one
way to put a set in order (`ArrangedIsUnique`).

`CollectionProofs` proves the facts about order and sums these proofs rest on. `ArrangedIsSorted`:
the sequence that puts the element with k - 1 before it at place k holds each element
of a finite set once, in the order of any strict total order. `Induction` states
induction with a set in the place of a predicate: no prover here can instantiate an
operator, but a set can be defined by what is to be shown, so recursive functions can
be reasoned about; `FiniteInduction` is the same over finite sets. With it the sums of the
community modules, which fold a set in an order of its own choice, are shown to be
independent of that order (`SumOfElement`), linear (`SumOfCombination`) and unmoved by
renumbering (`SumReindexed`). `SumOverPairs` is the identity between n times a sum of products
less the product of the sums, which the code computes, and the sum over all pairs of the
products of their differences, which says what it means.

`AnalysisServerProofs` proves, for any set of messages and any stores,
`RequestsReadTheirScope` (`RowsAreInScope`), `FailuresHaveReasons`
(`FailuresAreExplained`) and `VersionsStayUsable` (`SavedVersionsAreUsable`). None of
them is inductive. `RowsAreInScope` says which rows a request works on: the ids of its
scope (`IsInScope`), in strict order of company and id or of the series, so each once
(`AreInOrder`), with the values of the table, or as rows of the version it names, which is
of its company and split (`AreTheValuesAskedFor`). For a request that names a version this
needs that versions hold the rows of their scope in order, and that a version does needs
what the analysis was given and that it moved no row. `ServerInv` carries this from stage to
stage: what the schema's keys keep and that each version has the rows, in order, of
the samples it repairs (`StoreIsSound`), that the request is the parsed message
(`RequestIsParsed`), what the worker may rely on (`RowsAreLoaded`) and what is about to
be saved (`ResultIsReady`). Below it lie lemmas about each query (which rows, in which
order) and about the cleaning of a column (a median of numbers is a number, a column
with one value has no gap left), and `OutliersAreHeld`: the loop that replaces an
outlier by its predecessor in the cleaned column gives every cell the value of the
last row that is not one. `CleaningKeepsItsWord` (`CleaningIsReference`) puts these together
for every analysis that is reported (`AnalysisInv`): the median the quantile formula
interpolates is the middle of the two values with at most half of the column on either
side (`MedianIsInTheMiddle`, counting positions before and after sorting), and the window's
variance is that of its pairs (`OutlierIsFarOut`). `ForecastKeepsItsWord`
(`ForecastIsReference`) does the same for the forecast page. `interpolate()` bridges the
gaps one after the other: `IsBridged` says what holds after p of them, and that every
empty cell lies before the first known cell, after the last or in exactly one gap
(`NeighboursOf`) gives it the value on the line between its nearest known cells. The
running sum and count of `smooth()` add what enters the window and subtract what
leaves it; `SlidingSum` shows that this stays the sum over the window, however long the
series. The slope from centred sums is the mean of the slopes of all pairs, weighted by
the square of their distance (`CentredSums`, by `SumOverPairs`), over a denominator that
is positive from two values on; an autocorrelation is in [-1, 1] because squares are not
negative (`LaggedProducts`). `DistributionKeepsItsWord` (`DistributionAddsUp`) takes the
other two analyses. Which bin a value is in is decided by a division; it is the only one
whose edges surround the value (`BinIsWhereTheValueIs`), so the bins divide the values and
their counts add up (`PartitionAddsUp`). A value in the middle is between the quartiles, so
some value is no outlier, and those kept are a stretch of the sorted values: the outliers
are those beyond the whiskers (`WhiskersBound`). Twice the ranks of n values add up to
n * (n + 1) whatever the ties, because every pair counts twice and every value once
(`PlacesAddUp`, by induction over the positions), and a coefficient is at most 1 by the
inequality of Cauchy and Schwarz over the differences of pairs (`ProductsAreBounded`,
`PearsonIsBounded`). Where the unit of the readings is too coarse for a quotient,
it is the one rounded down (`IsQuotient`): the theorem holds for every unit, and the
run's unit is fine enough for all of its quotients. Assumptions: `MessagesAssumption` (what the messages are, JSON
fields of some type), `OptionalIdsAssumption` (an id that is not given is 0) and
`StoresAssumption`: a store is met as installed, its samples under the keys of the schema
and no version saved yet; "A row is immutable after import"
(`server/sql/000_base_schema.sql:8`), so samples do not change.

Only model-checked: all liveness, which is out of the prover's reach. Every invariant a
run checks is stated by a theorem.

## What is left

`RequestPipeline` with several connections' deadlines (`HttpSession`) in one model.

Not modelled:

- Inference: calls of ONNX Runtime on floating-point data, without state.
- Floating point (rounding, NaN), the grammar of HTTP headers and of JSON, SQL
  text: conversions of data the properties do not tell apart.
- `DbExecutor::start`, its future-returning `submit`, and the start-up of the server,
  which is sequential.
- Configuration: environment variables read once, whose checks are the
  constructor assumptions of the pool modules.
- Of the client the login window, home and settings pages and chart drawing: they
  have no state but their input fields.
- The offline tools: sequential programs run by hand.
