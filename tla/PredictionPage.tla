--------------------------- MODULE PredictionPage --------------------------
(***************************************************************************)
(* The prediction page of the Qt client with its PredictionService and a   *)
(* DataService of its own: reading the model and the companies, which are  *)
(* two requests at once, asking for a forecast, and exporting the last.    *)
(*                                                                         *)
(* A forecast is named by the number of its request; its horizon and its   *)
(* points are valid or not.                                                *)
(***************************************************************************)
EXTENDS Desktop, FiniteSets

VARIABLES
  started,           \* the zero timer of the constructor has gone off
  modelPending, companiesPending, loading,
  modelAvailable,
  listedCompanies,   \* companyBox has entries
  forecast,          \* the number of lastResult; 0 when it is empty
  forecasts,         \* how many have been asked for
  forecastFile,      \* the last file written
  predictionReplies  \* the page's requests whose replies have not finished

predictionVars == <<started, modelPending, companiesPending, loading,
                    modelAvailable, listedCompanies, forecast, forecasts,
                    forecastFile, predictionReplies>>

PredictionPageInit ==
  /\ started = FALSE
  /\ modelPending = FALSE /\ companiesPending = FALSE /\ loading = FALSE
  /\ modelAvailable = FALSE
  /\ listedCompanies = FALSE
  /\ forecast = 0 /\ forecasts = 0
  /\ forecastFile = 0
  /\ predictionReplies = {}

Ask(key) == [key |-> key, post |-> key = "forecast"]

\* updateControls
Idle == ~loading /\ ~modelPending /\ ~companiesPending

-----------------------------------------------------------------------------

\* refreshResources
RefreshResources ==
  IF Idle
  THEN /\ modelPending' = TRUE /\ companiesPending' = TRUE
       /\ modelAvailable' = FALSE
       /\ predictionReplies' = predictionReplies
                                 \cup {Ask("forecastModel"), Ask("companyList")}
  ELSE UNCHANGED <<modelPending, companiesPending, modelAvailable,
                   predictionReplies>>

FirstRefresh ==
  /\ ~started
  /\ started' = TRUE
  /\ RefreshResources
  /\ UNCHANGED <<desktopVars, loading, listedCompanies, forecast, forecasts,
                 forecastFile>>

PressRefresh ==
  /\ Click
  /\ Idle
  /\ RefreshResources
  /\ UNCHANGED <<boxes, started, loading, listedCompanies, forecast, forecasts,
                 forecastFile>>

MayPredict == Idle /\ modelAvailable /\ listedCompanies

\* startForecast refuses what is not a sample number.
RefuseEnd ==
  /\ Click
  /\ MayPredict
  /\ Open("forecast input")
  /\ UNCHANGED predictionVars

StartForecast ==
  /\ Click
  /\ MayPredict
  /\ loading' = TRUE
  /\ forecast' = 0
  /\ forecasts' = forecasts + 1
  /\ predictionReplies' = predictionReplies \cup {Ask("forecast")}
  /\ UNCHANGED <<boxes, started, modelPending, companiesPending, modelAvailable,
                 listedCompanies, forecastFile>>

-----------------------------------------------------------------------------
(* Replies.  PredictionService passes the key of a failure on.             *)

Arrives(r, ending) ==
  /\ r \in predictionReplies
  /\ TimedOut(ending) => Timed(r)
  /\ predictionReplies' = predictionReplies \ {r}
  /\ UNCHANGED <<desktopVars, started, forecasts, forecastFile>>

\* The model is of use only with the lookback and horizon the page has.
ModelReady(r, ending, fits) ==
  /\ Arrives(r, ending)
  /\ r.key = "forecastModel" /\ Delivers(ending)
  /\ modelPending' = FALSE
  /\ modelAvailable' = fits
  /\ UNCHANGED <<companiesPending, loading, listedCompanies, forecast>>

CompaniesReady(r, ending, some) ==
  /\ Arrives(r, ending)
  /\ r.key = "companyList" /\ Delivers(ending)
  /\ companiesPending' = FALSE
  /\ listedCompanies' = some
  /\ UNCHANGED <<modelPending, loading, modelAvailable, forecast>>

\* showResult: a forecast with a point missing or out of order is not shown.
ShowForecast(r, ending, valid) ==
  /\ Arrives(r, ending)
  /\ r.key = "forecast" /\ Delivers(ending)
  /\ loading' = FALSE
  /\ forecast' = IF valid THEN forecasts ELSE forecast
  /\ UNCHANGED <<modelPending, companiesPending, modelAvailable, listedCompanies>>

\* The serviceError of the two services.
PredictionErrorOfAnyKey(r, ending) ==
  /\ Arrives(r, ending)
  /\ ~Delivers(ending)
  /\ IF r.key = "companyList"
     THEN /\ companiesPending' = FALSE /\ listedCompanies' = FALSE
          /\ UNCHANGED <<loading, modelPending, modelAvailable>>
     ELSE /\ loading' = FALSE
          /\ UNCHANGED <<companiesPending, listedCompanies, modelPending,
                         modelAvailable>>
  /\ UNCHANGED forecast
PredictionError(r, ending) ==
  /\ Arrives(r, ending)
  /\ ~Delivers(ending)
  /\ \/ /\ r.key = "forecast"
        /\ loading' = FALSE
        /\ UNCHANGED <<companiesPending, listedCompanies, modelPending,
                       modelAvailable>>
     \/ /\ r.key = "forecastModel"
        /\ modelPending' = FALSE /\ modelAvailable' = FALSE
        /\ UNCHANGED <<loading, companiesPending, listedCompanies>>
     \/ /\ r.key = "companyList"
        /\ companiesPending' = FALSE /\ listedCompanies' = FALSE
        /\ UNCHANGED <<loading, modelPending, modelAvailable>>
  /\ UNCHANGED forecast

-----------------------------------------------------------------------------
(* exportResult                                                            *)

AskForForecastFile ==
  /\ Click
  /\ Idle /\ forecast # 0
  /\ Open("forecast file")
  /\ UNCHANGED predictionVars

WriteForecast ==
  /\ Replace("forecast file", "forecast written")
  /\ forecastFile' = forecast
  /\ UNCHANGED <<clicks, started, modelPending, companiesPending, loading,
                 modelAvailable, listedCompanies, forecast, forecasts,
                 predictionReplies>>

\* The dialog is cancelled, or a box says what failed.
ForecastNotWritten ==
  /\ Close("forecast file") \/ Replace("forecast file", "forecast failed")
  /\ UNCHANGED <<clicks, predictionVars>>

ClosePredictionBox ==
  /\ \/ Close("forecast input") \/ Close("forecast written")
     \/ Close("forecast failed")
  /\ UNCHANGED <<clicks, predictionVars>>

-----------------------------------------------------------------------------

PredictionUser == PressRefresh \/ RefuseEnd \/ StartForecast \/ AskForForecastFile

PredictionBoxes == WriteForecast \/ ForecastNotWritten \/ ClosePredictionBox

PredictionReplies ==
  \E r \in predictionReplies, ending \in Endings :
    \/ \E b \in BOOLEAN : \/ ModelReady(r, ending, b)
                          \/ CompaniesReady(r, ending, b)
                          \/ ShowForecast(r, ending, b)
    \/ PredictionError(r, ending)

PredictionTimer ==
  \E r \in predictionReplies, ending \in Endings :
    TimedOut(ending) /\ PredictionError(r, ending)

PredictionNext ==
  FirstRefresh \/ PredictionUser \/ PredictionBoxes \/ PredictionReplies

-----------------------------------------------------------------------------
(* Properties.                                                             *)

\* Each of the page's three flags says whether the request it stands for is
\* under way, and a forecast is never under way together with the resources
\* it depends on.
PredictionPageKnowsItsRequests ==
  /\ modelPending <=> Ask("forecastModel") \in predictionReplies
  /\ companiesPending <=> Ask("companyList") \in predictionReplies
  /\ loading <=> predictionReplies = {Ask("forecast")}

\* What is exported is the forecast on the screen, the last one asked for.
ExportsTheLastForecast ==
  /\ forecast \in {0, forecasts}
  /\ boxes # <<>> /\ Head(boxes) = "forecast file" => forecast # 0

=============================================================================
