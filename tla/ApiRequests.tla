---------------------------- MODULE ApiRequests ----------------------------
(***************************************************************************)
(* net/http_router.cpp and the parsing half of controller/api_controller:   *)
(* from an HTTP message to the parameters of an operation or to an error.   *)
(*                                                                         *)
(* A message is [method, path, object, fields]: the path is the sequence of *)
(* what stands between its slashes ("" for a repeated or trailing slash),   *)
(* object tells whether the body is a JSON object, and fields maps the keys *)
(* of the body (of the query string, for GET) to values <<kind, value>>     *)
(* with kind "int", "string", "bool" or "other".  Texts of a query string   *)
(* that parse as an integer are of kind "int".                              *)
(***************************************************************************)
EXTENDS WaterDomain, Ordering, SequencesExt

\* An id that is not given is 0: no version, no end of the window.
ASSUME OptionalIdsAssumption ==
    /\ Defaults.classification.cleaning_run_id = 0
    /\ Defaults.trace.cleaning_run_id = 0
    /\ Defaults.predict.end_sample_id = 0

ForecastOperations == {"sequence", "missing", "smooth", "window", "diagnosis"}
ClassificationOperations == {"missing", "clean", "distribution", "correlation"}

-----------------------------------------------------------------------------
(* The router.                                                               *)

SplitPath(path) == AtPositions(path, {i \in DOMAIN path : path[i] # ""})

\* registerRoutes(): one handler per method and pattern.  No pattern of this
\* server has a ':' parameter.
Routes ==
    {<<"GET",  <<"api", "v1", "health">>, "health">>,
     <<"GET",  <<"api", "v1", "companies">>, "companies">>,
     <<"GET",  <<"api", "v1", "data", "overview">>, "overview">>,
     <<"POST", <<"api", "v1", "inference", "classify">>, "trace">>,
     <<"GET",  <<"api", "v1", "inference", "forecast", "model">>, "model">>,
     <<"POST", <<"api", "v1", "inference", "forecast">>, "predict">>}
    \cup {<<"POST", <<"api", "v1", "data", "classification", op>>, "classification">> :
            op \in ClassificationOperations}
    \cup {<<"POST", <<"api", "v1", "data", "forecast", op>>, "forecast">> :
            op \in ForecastOperations}

\* dispatch(): the handler, or the status of a path nobody knows (404) or knows
\* under another method (405).
Route(message) ==
    LET matching == {r \in Routes : r[2] = SplitPath(message.path)}
        exact == {r \in matching : r[1] = message.method}
    IN  IF exact # {} THEN (CHOOSE r \in exact : TRUE)[3]
        ELSE IF matching # {} THEN "405" ELSE "404"

-----------------------------------------------------------------------------
(* Reading fields.                                                           *)

Has(message, key) == key \in DOMAIN message.fields

Kind(message, key) == message.fields[key][1]

\* What is of kind "int" is an integer.
FieldsAreTyped(message) ==
    \A key \in DOMAIN message.fields :
      Kind(message, key) = "int" => message.fields[key][2] \in Int

\* An optional field, its default where it is absent.
Field(kind, message, key) ==
    IF Has(message, key) THEN message.fields[key][2] ELSE Defaults[kind][key]

Operation(message) == Last(SplitPath(message.path))

\* The parameters of a request, with its kind and the operation of that kind.
Fields(kind, message, keys) ==
    [key \in keys \cup {"kind", "operation"} |->
        CASE key = "kind"      -> kind
          [] key = "operation" -> Operation(message)
          [] OTHER             -> Field(kind, message, key)]

IsIntIn(message, key, low, high) ==
    /\ Kind(message, key) = "int"
    /\ low <= message.fields[key][2] /\ message.fields[key][2] <= high

OptionalIntIn(message, key, low, high) ==
    Has(message, key) => IsIntIn(message, key, low, high)

OptionalKind(message, key, kind) == Has(message, key) => Kind(message, key) = kind

\* jsonInteger(): a JSON integer of at least `low` within int64; the instance's
\* integers are all small.
IsIntFrom(message, key, low) ==
    Kind(message, key) = "int" /\ low <= message.fields[key][2]

OptionalIntFrom(message, key, low) ==
    Has(message, key) => IsIntFrom(message, key, low)

-----------------------------------------------------------------------------
(* forecastData() and validateForecastDataRequest().                         *)

ForecastRequestIsValid(r) ==
    /\ r.company_id = ForecastCompany
    /\ r.dataset \in {"train_data", "val_data", "test_data"}
    /\ r.feature \in Features
    /\ r.window \in 2..MaxForecastWindow
    /\ r.horizon \in 1..MaxHorizon
    /\ r.diagnostic \in {"trend", "seasonality", "stationarity"}

ParseForecastData(message) ==
    LET keys == {"company_id", "dataset", "feature", "window", "horizon", "diagnostic"}
        request == Fields("forecast", message, keys)
    IN  [ok |-> /\ message.object
                /\ Has(message, "company_id") /\ IsIntFrom(message, "company_id", 1)
                /\ DOMAIN message.fields \subseteq keys
                /\ \A key \in {"dataset", "feature", "diagnostic"} :
                     OptionalKind(message, key, "string")
                /\ \A key \in {"window", "horizon"} :
                     OptionalIntIn(message, key, 0, MaxForecastWindow)
                /\ ForecastRequestIsValid(request),
         request |-> request]

-----------------------------------------------------------------------------
(* classificationData() and validateClassificationRequest().                 *)

ClassificationRequestIsValid(r) ==
    /\ r.dataset \in {"train_data", "test_data"}
    /\ r.window \in 2..MaxCleanWindow
    /\ r.threshold \in 1..MaxThreshold
    /\ r.bins \in MinBins..MaxBins
    /\ r.method \in {"pearson", "spearman"}
    /\ r.view \in {"histogram", "boxplot", "comparison"}
    /\ r.feature \in Features
    /\ r.persist => r.operation \in {"missing", "clean"}
    /\ r.operation = "distribution" /\ r.view = "comparison"
         => r.cleaning_run_id = 0

ParseClassificationData(message) ==
    LET texts == {"dataset", "feature", "view", "method"}
        keys  == texts \cup {"company_id", "cleaning_run_id", "persist",
                             "window", "threshold", "bins"}
        request == Fields("classification", message, keys)
    IN  [ok |-> /\ message.object
                /\ Has(message, "company_id") /\ IsIntFrom(message, "company_id", 1)
                /\ DOMAIN message.fields \subseteq keys
                /\ \A key \in texts : OptionalKind(message, key, "string")
                /\ OptionalIntFrom(message, "cleaning_run_id", 0)
                /\ OptionalKind(message, "persist", "bool")
                /\ \A key \in {"window", "bins"} :
                     OptionalIntIn(message, key, 0, MaxCleanWindow)
                /\ OptionalKind(message, "threshold", "int")
                /\ ClassificationRequestIsValid(request),
         request |-> request]

-----------------------------------------------------------------------------
(* overview(), classifyTrace() and forecast().                               *)

ParseOverview(message) ==
    LET request == Fields("overview", message, {"company_id", "dataset", "limit"})
    IN  [ok |-> /\ Has(message, "company_id") /\ IsIntFrom(message, "company_id", 1)
                /\ OptionalKind(message, "dataset", "string")
                /\ request.dataset \in {"train_data", "val_data", "test_data"}
                /\ OptionalIntIn(message, "limit", 1, MaxPreview),
         request |-> request]

\* Unknown keys are ignored here and in forecast(); the dataset defaults to the
\* test set.
ParseTrace(message) ==
    LET request == Fields("trace", message, {"sample_id", "dataset", "cleaning_run_id"})
    IN  [ok |-> /\ message.object
                /\ Has(message, "sample_id") /\ IsIntFrom(message, "sample_id", 1)
                /\ OptionalKind(message, "dataset", "string")
                /\ request.dataset \in {"train_data", "test_data"}
                /\ OptionalIntFrom(message, "cleaning_run_id", 0),
         request |-> request]

ParsePredictionOfAnyDataset(message) ==
    LET request == Fields("predict", message,
                          {"company_id", "dataset", "end_sample_id", "horizon"})
    IN  [ok |-> /\ message.object
                /\ Has(message, "company_id") /\ IsIntFrom(message, "company_id", 1)
                /\ OptionalIntFrom(message, "end_sample_id", 0)
                /\ OptionalIntIn(message, "horizon", 1, MaxSteps),
         request |-> request]

\* The service repeats the check of the controller and adds the dataset's.
ParsePrediction(message) ==
    LET request == Fields("predict", message,
                          {"company_id", "dataset", "end_sample_id", "horizon"})
    IN  [ok |-> /\ message.object
                /\ Has(message, "company_id") /\ IsIntFrom(message, "company_id", 1)
                /\ OptionalIntFrom(message, "end_sample_id", 0)
                /\ OptionalIntIn(message, "horizon", 1, MaxSteps)
                /\ OptionalKind(message, "dataset", "string")
                /\ request.dataset \in {"train_data", "val_data", "test_data"},
         request |-> request]

\* What the chosen handler makes of the message.
Parse(handler, message) ==
    CASE handler = "forecast"       -> ParseForecastData(message)
      [] handler = "classification" -> ParseClassificationData(message)
      [] handler = "overview"       -> ParseOverview(message)
      [] handler = "trace"          -> ParseTrace(message)
      [] handler = "predict"        -> ParsePrediction(message)
      [] OTHER -> [ok |-> TRUE, request |-> [kind |-> handler]]
===========================================================================
