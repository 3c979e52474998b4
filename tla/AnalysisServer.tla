-------------------------- MODULE AnalysisServer --------------------------
(***************************************************************************)
(* One request through the server, from the router to the answer: which     *)
(* rows it reads, what it computes of them and what it is told.  Requests   *)
(* come one after another, each on the store the earlier ones left.         *)
(*                                                                         *)
(* RequestPipeline models the queues, tickets and deadlines between these   *)
(* steps and their failures; here every queue has room and every query is   *)
(* answered, so that an error below always has a cause in the request or in *)
(* the data.                                                               *)
(***************************************************************************)
EXTENDS ApiRequests, WaterStore, ForecastAnalysis, ClassificationAnalysis

CONSTANTS
    Messages,           \* the messages clients may send
    FirstMessages,      \* those a run starts with
    StoresFor(_),       \* the stores a first message may meet
    FollowUps(_),       \* what a client may send after a message
    Predictions,        \* what the classifier may answer: <<label, permille>>...
    MaxMessages         \* bound: messages of a behaviour

ASSUME MessagesAssumption ==
    /\ FirstMessages \subseteq Messages
    /\ \A m \in Messages : FollowUps(m) \subseteq Messages /\ FieldsAreTyped(m)

\* A store is met as it was installed: the samples are loaded, no version is
\* saved yet.
ASSUME StoresAssumption ==
    \A m \in FirstMessages : \A s \in StoresFor(m) :
      /\ DOMAIN s = {"companies", "samples", "runs", "models"}
      /\ SamplesAreSound(s.samples)
      /\ s.runs = <<>>

VARIABLES
    store,      \* the database, with the models that are loaded
    message,    \* the HTTP message being served
    stage,      \* "arrived", "accepted", "loaded", "saving" or "answered"
    request,    \* its parameters, once parsed
    rows,       \* the rows its database task selected
    result,     \* what the worker computed
    answer,     \* [status, error] of the reply
    served      \* messages answered before this one

vars == <<store, message, stage, request, rows, result, answer, served>>

Nothing == [kind |-> "none"]

Unanswered == [status |-> 0, error |-> "none"]

Init ==
    /\ \E m \in FirstMessages : message = m /\ store \in StoresFor(m)
    /\ stage = "arrived" /\ request = Nothing /\ rows = <<>>
    /\ result = Nothing /\ answer = Unanswered /\ served = 0

Answer(status, error) ==
    /\ answer' = [status |-> status, error |-> error]
    /\ stage' = "answered"

-----------------------------------------------------------------------------
(* dispatch() and the handler up to the posting of the database task.        *)

ModelOf(handler) == IF handler = "trace" THEN "classifier" ELSE "forecaster"

NotRouted ==
    /\ stage = "arrived"
    /\ \/ Route(message) = "404" /\ Answer(404, "NOT_FOUND")
       \/ Route(message) = "405" /\ Answer(405, "METHOD_NOT_ALLOWED")
    /\ UNCHANGED <<store, message, request, rows, result, served>>

\* health() and forecastModel() answer on the spot.
AnswerDirectly ==
    /\ stage = "arrived" /\ Route(message) \in {"health", "model"}
    /\ Answer(200, "none")
    /\ UNCHANGED <<store, message, request, rows, result, served>>

Refuse ==
    /\ stage = "arrived" /\ Route(message) \notin {"404", "405", "health", "model"}
    /\ LET parsed == Parse(Route(message), message)
       IN  \/ ~parsed.ok /\ Answer(400, "INVALID_ARGUMENT")
           \/ /\ parsed.ok /\ Route(message) \in {"trace", "predict"}
              /\ ModelOf(Route(message)) \notin store.models
              /\ Answer(503, "INFERENCE_UNAVAILABLE")
    /\ UNCHANGED <<store, message, request, rows, result, served>>

Accept ==
    /\ stage = "arrived" /\ Route(message) \notin {"404", "405", "health", "model"}
    /\ LET parsed == Parse(Route(message), message)
       IN  /\ parsed.ok
           /\ Route(message) \in {"trace", "predict"}
                => ModelOf(Route(message)) \in store.models
           /\ request' = parsed.request
    /\ stage' = "accepted"
    /\ UNCHANGED <<store, message, rows, result, answer, served>>

-----------------------------------------------------------------------------
(* The database task of each service.                                        *)

\* databaseError() of the data services: the exceptions of the repository.
AnswerFailure(error) ==
    CASE error = "length_error" -> Answer(413, "DATASET_TOO_LARGE")
      [] error = "out_of_range" -> Answer(404, "DATA_NOT_FOUND")
      [] OTHER                  -> Answer(500, "DATABASE_ERROR")

HandOver(found) ==
    /\ rows' = found
    /\ stage' = "loaded"
    /\ UNCHANGED answer

LoadList ==
    /\ stage = "accepted" /\ request.kind = "companies"
    /\ Answer(200, "none")
    /\ UNCHANGED <<store, message, request, rows, result, served>>

LoadPreview ==
    /\ stage = "accepted" /\ request.kind = "overview"
    /\ LET found == LoadOverview(store, request)
       IN  IF found.ok THEN Answer(200, "none") /\ rows' = found.rows
           ELSE AnswerFailure(found.error) /\ rows' = rows
    /\ UNCHANGED <<store, message, request, result, served>>

LoadForAnalysis ==
    /\ stage = "accepted" /\ request.kind \in {"forecast", "classification"}
    /\ IF FindCompany(store, request.company_id) = {}
       THEN Answer(404, "COMPANY_NOT_FOUND") /\ rows' = rows
       ELSE LET found == IF request.kind = "forecast"
                         THEN LoadForecastSamples(store, request)
                         ELSE LoadClassificationSamples(store, request)
            IN  IF ~found.ok THEN AnswerFailure(found.error) /\ rows' = rows
                ELSE IF request.kind = "forecast" /\ Len(found.rows) > ForecastRowLimit
                THEN Answer(413, "DATASET_TOO_LARGE") /\ rows' = rows
                ELSE HandOver(found.rows)
    /\ UNCHANGED <<store, message, request, result, served>>

\* classifySample(): every exception of its queries is answered 500.
LoadSample ==
    /\ stage = "accepted" /\ request.kind = "trace"
    /\ LET found == IF request.cleaning_run_id = 0 THEN FindSample(store, request)
                    ELSE FindCleanedSample(store, request)
       IN  IF ~found.ok THEN Answer(500, "DATABASE_ERROR") /\ rows' = rows
           ELSE IF found.rows = <<>>
           THEN Answer(404, "TRACE_SAMPLE_NOT_FOUND") /\ rows' = rows
           ELSE HandOver(found.rows)
    /\ UNCHANGED <<store, message, request, result, served>>

\* forecast(): the window must end at the end sample and be complete.
LoadHistory ==
    /\ stage = "accepted" /\ request.kind = "predict"
    /\ LET found == LoadForecastWindow(store, request)
       IN  IF FindCompany(store, request.company_id) = {}
           THEN Answer(404, "COMPANY_NOT_FOUND") /\ rows' = rows
           ELSE IF ~found.ok THEN Answer(500, "DATABASE_ERROR") /\ rows' = rows
           ELSE IF request.end_sample_id > 0
                     /\ (found.rows = <<>> \/ Last(found.rows).id # request.end_sample_id)
           THEN Answer(404, "FORECAST_SAMPLE_NOT_FOUND") /\ rows' = rows
           ELSE IF Len(found.rows) # Lookback
           THEN Answer(422, "INSUFFICIENT_HISTORY") /\ rows' = rows
           ELSE HandOver(found.rows)
    /\ UNCHANGED <<store, message, request, result, served>>

-----------------------------------------------------------------------------
(* The worker: analysis or inference on the rows it was handed.              *)

\* Exceptions of analyzeForecastData() and analyzeClassificationData().
RejectForecast ==
    /\ stage = "loaded" /\ request.kind = "forecast"
    /\ \/ rows = <<>>
       \/ \A company \in FindCompany(store, request.company_id) :
            ~ForecastRowsAreValid(request, company, rows)
    /\ Answer(422, "INVALID_FORECAST_DATA")
    /\ UNCHANGED <<store, message, request, rows, result, served>>

RejectClassification ==
    /\ stage = "loaded" /\ request.kind = "classification"
    /\ ~ClassificationRowsAreValid(request, rows) \/ TooManyGroups(request, rows)
    /\ IF ClassificationRowsAreValid(request, rows)
       THEN Answer(413, "DATASET_TOO_LARGE")
       ELSE Answer(422, "INVALID_CLASSIFICATION_DATA")
    /\ UNCHANGED <<store, message, request, rows, result, served>>

AnalyzeForecast ==
    /\ stage = "loaded" /\ request.kind = "forecast" /\ rows # <<>>
    /\ \E company \in FindCompany(store, request.company_id) :
         ForecastRowsAreValid(request, company, rows)
    /\ result' = AnalyzeForecastData(request, rows)
    /\ Answer(200, "none")
    /\ UNCHANGED <<store, message, request, rows, served>>

UnresolvedOnlyEverywhere(analysis) ==
    \A f \in DOMAIN analysis.features : analysis.features[f].missing_after # 0

\* A version that leaves a column empty cannot be saved for inference.
Unresolved(analysis) ==
    \E f \in DOMAIN analysis.features : analysis.features[f].missing_after # 0

AnalyzeClassification ==
    /\ stage = "loaded" /\ request.kind = "classification"
    /\ ClassificationRowsAreValid(request, rows) /\ ~TooManyGroups(request, rows)
    /\ result' = AnalyzeClassificationData(request, rows)
    /\ IF ~request.persist THEN Answer(200, "none")
       ELSE IF Unresolved(result') THEN Answer(422, "UNRESOLVED_MISSING_VALUES")
       ELSE stage' = "saving" /\ UNCHANGED answer
    /\ UNCHANGED <<store, message, request, rows, served>>

Save ==
    /\ stage = "saving"
    /\ IF SnapshotIsValid(request, rows, result.processed)
       THEN store' = SaveVersion(store, request, rows, result.processed)
              /\ Answer(200, "none")
       ELSE Answer(500, "DATABASE_ERROR") /\ UNCHANGED store
    /\ UNCHANGED <<message, request, rows, result, served>>

\* toFeatures() and toWindow(): inference takes no NULL.
IsComplete(row) == \A f \in DOMAIN row.values : row.values[f] # Missing

\* buildResult() of the trace service: by falling probability, equal ones in the
\* order of the model.
Ranked(prediction) ==
    LET Before(i, j) == \/ prediction[i][2] > prediction[j][2]
                        \/ prediction[i][2] = prediction[j][2] /\ i < j
        order == Arranged(DOMAIN prediction,
                          {p \in (DOMAIN prediction) \X (DOMAIN prediction) :
                             Before(p[1], p[2])})
    IN  [rank \in DOMAIN order |-> prediction[order[rank]]]

PredictionIsValid(prediction) ==
    /\ prediction # <<>>
    /\ \A i \in DOMAIN prediction :
         prediction[i][1] > 0 /\ prediction[i][2] \in 0..1000

Classify ==
    /\ stage = "loaded" /\ request.kind = "trace"
    /\ IF ~IsComplete(rows[1])
       THEN Answer(422, "INVALID_TRACE_SAMPLE") /\ UNCHANGED result
       ELSE \E prediction \in Predictions :
              IF PredictionIsValid(prediction)
              THEN /\ result' = [kind |-> "trace", prediction |-> prediction,
                                 candidates |-> Ranked(prediction)]
                   /\ Answer(200, "none")
              ELSE Answer(500, "INFERENCE_ERROR") /\ UNCHANGED result
    /\ UNCHANGED <<store, message, request, rows, served>>

\* The forecaster returns MaxSteps finite points or an invalid output; the
\* answer shows the first `horizon` of them.
Predict ==
    /\ stage = "loaded" /\ request.kind = "predict"
    /\ IF \A i \in DOMAIN rows : IsComplete(rows[i]) /\ (i > 1 => rows[i - 1].id < rows[i].id)
       THEN \E valid \in BOOLEAN :
              IF valid
              THEN /\ result' = [kind |-> "predict", first |-> Head(rows).id,
                                 last |-> Last(rows).id, history |-> Len(rows),
                                 steps |-> request.horizon]
                   /\ Answer(200, "none")
              ELSE Answer(500, "INFERENCE_ERROR") /\ UNCHANGED result
       ELSE Answer(422, "INVALID_FORECAST_HISTORY") /\ UNCHANGED result
    /\ UNCHANGED <<store, message, request, rows, served>>

-----------------------------------------------------------------------------
NextMessage ==
    /\ stage = "answered" /\ served + 1 < MaxMessages
    /\ \E m \in FollowUps(message) : message' = m
    /\ stage' = "arrived" /\ request' = Nothing /\ rows' = <<>>
    /\ result' = Nothing /\ answer' = Unanswered /\ served' = served + 1
    /\ UNCHANGED store

Next ==
    \/ NotRouted \/ AnswerDirectly \/ Refuse \/ Accept
    \/ LoadList \/ LoadPreview \/ LoadForAnalysis \/ LoadSample \/ LoadHistory
    \/ RejectForecast \/ RejectClassification \/ AnalyzeForecast \/ AnalyzeClassification \/ Save
    \/ Classify \/ Predict
    \/ NextMessage

Spec == Init /\ [][Next]_vars

-----------------------------------------------------------------------------
(* Properties.                                                               *)

Analysed(kind) == stage \in {"saving", "answered"} /\ result.kind = kind

\* The preview of the forecast page is what it says it is: a repaired cell lies
\* on the line between its known neighbours, a smoothed one is the mean of the
\* window that ends in it, nothing else changes; the cells counted as filled are
\* those that were empty and no longer are; the number of training windows is the
\* number of places one fits; no diagnosis divides by zero.  The code gets there
\* by index pairs, running sums and unsigned differences.
ForecastIsReference ==
    Analysed("forecast") => IsPreprocessedResult(request, rows, result)

\* Cleaning replaces every gap by the column's median and every value that is an
\* outlier among the `window` before it by the last value that is none, judged on
\* the repaired series: a run of outliers is held at the value before the run.
CleaningIsReference ==
    Analysed("classification") /\ request.operation \in {"missing", "clean"} =>
      \A f \in DOMAIN result.features :
        LET before == Column(rows, f)
            after  == Column(result.processed, f)
            stats  == result.features[f]
        IN  /\ IsCleaned(request, before, after)
            /\ stats.changed <= stats.filled + stats.outliers
            /\ stats.missing_after = (IF Known(before) = <<>> THEN Len(rows) ELSE 0)

\* One group for each company that has a row and for no other, over the bins of
\* the samples of all companies.
DescribesDistribution(req, found, groups) ==
    LET all  == Sorted(Known(Column(found, req.feature)))
        low  == IF all = <<>> THEN 0 ELSE Head(all)
        high == IF all = <<>> THEN 0 ELSE Last(all)
    IN  /\ DOMAIN groups = {found[i].company_id : i \in DOMAIN found}
        /\ \A company \in DOMAIN groups :
             DescribesGroup(groups[company], GroupValues(found, company, req.feature), low, high)

DescribesCorrelation(found, correlation) ==
    \A f, g \in DOMAIN correlation :
      /\ correlation[f][g] = correlation[g][f]
      /\ IsCoefficient(correlation[f][g].coefficient)
      /\ AreRanks(Ranks(Known(Column(found, f))), Known(Column(found, f)))

\* A distribution loses no sample: the bins, common to all companies, count every
\* value once, at its place, and the box plot's outliers are those beyond its
\* whiskers.  A correlation is symmetric, at most 1 in absolute value, over ranks
\* that add up whatever the ties.
DistributionAddsUp ==
    Analysed("classification") =>
      /\ request.operation = "distribution" =>
           DescribesDistribution(request, rows, result.groups)
      /\ request.operation = "correlation" =>
           DescribesCorrelation(rows, result.correlation)

\* The ids a request of this kind may read: its company's in its split, for a
\* trace every company's.
IdsInScope(st, req) ==
    {row.id : row \in {s \in st.samples :
       /\ s.split = SplitOf[req.dataset]
       /\ req.kind # "trace" => s.company_id = req.company_id}}

IsInScope(st, req, found) ==
    LET mine  == IdsInScope(st, req)
        known == {row.id : row \in {s \in st.samples : s.split = SplitOf[req.dataset]}}
        read  == {found[i].id : i \in DOMAIN found}
    IN  CASE req.kind = "trace" -> read = {req.sample_id} /\ read \subseteq mine
          [] req.kind = "predict" ->
               /\ read \subseteq mine /\ Cardinality(read) = Lookback
               /\ \A id \in mine \ read : id < Min(read) \/ id > Max(read)
               /\ IF req.end_sample_id > 0 THEN Max(read) = req.end_sample_id
                  ELSE Max(read) = Max(mine)
          [] OTHER -> read = IF IsComparison(req) THEN known ELSE mine

\* Each row once, in the order the computation takes it for: a series by its
\* place in the sequence, everything else by company and id.
AreInOrder(req, found) ==
    \A i, j \in DOMAIN found : i < j =>
      IF req.kind = "forecast" THEN found[i].sample_index < found[j].sample_index
      ELSE \/ found[i].company_id < found[j].company_id
           \/ found[i].company_id = found[j].company_id /\ found[i].id < found[j].id

\* A version is for the company and the split it was computed from.
AreOfTheVersion(run, req, found) ==
    /\ run.split = SplitOf[req.dataset]
    /\ req.kind = "classification" => run.company_id = req.company_id
    /\ \A i \in DOMAIN found : \E k \in DOMAIN run.rows : found[i] = run.rows[k]

AreOfTheTable(st, req, found) ==
    \A i \in DOMAIN found : \E s \in st.samples :
      /\ s.id = found[i].id /\ s.company_id = found[i].company_id
      /\ s.values = found[i].values
      /\ req.kind = "forecast" =>
           s.sample_index = found[i].sample_index /\ s.sampled_at = found[i].sampled_at

NamesAVersion(req) ==
    req.kind \in {"classification", "trace"} /\ req.cleaning_run_id > 0

\* The measurements of the table, or those of the version that is named, never
\* those of another version.
AreTheValuesAskedFor(st, req, found) ==
    IF NamesAVersion(req)
    THEN /\ req.cleaning_run_id \in DOMAIN st.runs
         /\ AreOfTheVersion(st.runs[req.cleaning_run_id], req, found)
    ELSE AreOfTheTable(st, req, found)

\* What an analysis or a prediction reads is what was asked for: the samples of
\* the company and the split, all of them (more than the limit are refused, and a
\* prediction takes its window), none twice, in order, with the values of the
\* table or of the version that is named; a comparison reads every company's.
RowsAreInScope ==
    stage \in {"loaded", "saving"} =>
      /\ IsInScope(store, request, rows)
      /\ AreInOrder(request, rows)
      /\ AreTheValuesAskedFor(store, request, rows)

\* A request can only fail for a reason it or its data gives: the exceptions that
\* would be answered 500 (a dataset without a table, a snapshot out of scope) are
\* out of reach of every message the controller accepts; only a model's invalid
\* output is left.
FailuresAreExplained ==
    answer.status = 500 => answer.error = "INFERENCE_ERROR"

IdsOf(st, run) ==
    {s.id : s \in {r \in st.samples : r.company_id = run.company_id /\ r.split = run.split}}

VersionIsUsable(st, id) ==
    LET run == st.runs[id]
    IN  /\ {run.rows[i].id : i \in DOMAIN run.rows} = IdsOf(st, run)
        /\ \A i \in DOMAIN run.rows : IsComplete(run.rows[i])
        /\ run.parent > 0 =>
             /\ run.parent < id
             /\ st.runs[run.parent].company_id = run.company_id
             /\ st.runs[run.parent].split = run.split

\* A saved version holds every sample it was computed from and no gap, so that a
\* trace of any of its samples is never refused for a missing value; it belongs
\* to the company and split whose samples it repairs, and its parent too.
SavedVersionsAreUsable ==
    /\ \A id \in DOMAIN store.runs : VersionIsUsable(store, id)
    /\ answer.error = "INVALID_TRACE_SAMPLE" => request.cleaning_run_id = 0

===========================================================================
