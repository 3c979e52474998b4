----------------------------- MODULE DataPage ------------------------------
(***************************************************************************)
(* The data page of the Qt client with its DataService: choosing a task,   *)
(* a company and a dataset, previews and analyses of either task, and      *)
(* saving a previewed cleaning as a version of its own.                    *)
(*                                                                         *)
(* A selection is what the combo boxes say.  A subject is what a result is *)
(* about: an operation, the selection and the parameters it was asked      *)
(* with.  The server is the part of it the page can tell: it answers or    *)
(* not, and stores a version before or after the page has given up.        *)
(***************************************************************************)
EXTENDS Desktop, FiniteSets

CONSTANTS
  Companies,       \* what the server's list may hold
  Listings,        \* the sets of companies the list may arrive with
  TaskOf,          \* task_type of a company: "trace", "forecast" or ""
  ForecastCompany, \* company 7
  Parameters,      \* settings of the windows, thresholds, features and views
  Comparisons,     \* the settings whose view is the comparison of companies
  NoCompany,       \* the entry of an empty combo box: -1
  ClassificationOperations, ForecastOperations,  \* the buttons tried
  MaxRun           \* bound on the version number the user types

ASSUME DataPageAssumption ==
  /\ ForecastCompany \in Companies
  /\ NoCompany \notin Companies
  /\ ClassificationOperations \subseteq
       {"missing", "clean", "distribution", "correlation"}
  /\ ForecastOperations \subseteq
       {"sequence", "missing", "smooth", "window", "diagnosis"}
  /\ Listings \subseteq SUBSET Companies
  /\ TaskOf \in [Companies -> {"trace", "forecast", ""}]
  /\ Comparisons \subseteq Parameters
  /\ MaxRun \in Nat

Modes == {"classification", "forecast"}
Previewed == {"missing", "clean"}
Datasets(mode) ==
  IF mode = "forecast" THEN {"train_data", "val_data", "test_data"}
                       ELSE {"train_data", "test_data"}

VARIABLES
  taskMode,        \* taskModeComboBox
  companies,       \* the list as it arrived
  company,         \* companyComboBox
  dataset,         \* datasetComboBox
  cleaningRun,     \* cleaningRunInput
  typed,           \* the user has typed that number
  parameters,      \* the other inputs of the page
  busy,
  preview,         \* previewOperation and previewRequest
  table,           \* the subject of the preview table and of the summary
  chart,           \* the subject of currentChartPixmap
  requestSequence, \* DataService
  activeRequest,   \* DataService::activeDataRequest; 0 before the first
  replies,         \* the page's requests whose replies have not finished
  atServer,        \* requests to save that the server has yet to deal with
  stored           \* the versions it has stored, in order: their numbers

selectionVars == <<taskMode, companies, company, dataset>>
inputVars     == <<cleaningRun, typed, parameters>>
screenVars    == <<table, chart>>
serviceVars   == <<requestSequence, activeRequest, replies>>
serverVars    == <<atServer, stored>>
dataVars == <<selectionVars, inputVars, busy, preview, screenVars, serviceVars,
              serverVars>>

Subject(task, operation, c, d, run, p) ==
  [task |-> task, operation |-> operation, company |-> c, dataset |-> d,
   cleaningRun |-> run, parameters |-> p]

Nothing == Subject("nothing", "nothing", NoCompany, "none", 0, "none")

CompanyList == 0
IsList(r) == r.key = CompanyList

\* fetchCompanyList of the constructor; the first company arrives with it.
DataPageInit ==
  /\ taskMode = "classification"
  /\ companies = {}
  /\ company = NoCompany
  /\ dataset = "train_data"
  /\ cleaningRun = 0 /\ typed = FALSE
  /\ parameters \in Parameters
  /\ busy = TRUE
  /\ preview = Nothing
  /\ table = Nothing /\ chart = Nothing
  /\ requestSequence = 0 /\ activeRequest = 0
  /\ replies = {[key |-> CompanyList, post |-> FALSE, persist |-> FALSE,
                 subject |-> Nothing]}
  /\ atServer = {} /\ stored = <<>>

-----------------------------------------------------------------------------
(* Sending requests.                                                       *)

\* DataService::fetch...: the newest request is the one whose reply counts.
Send(open, subject, post, persist) ==
  LET request == [key |-> requestSequence + 1, post |-> post,
                  persist |-> persist, subject |-> subject]
  IN  /\ requestSequence' = requestSequence + 1
      /\ activeRequest' = requestSequence + 1
      /\ replies' = open \cup {request}
      /\ atServer' = IF persist THEN atServer \cup {request} ELSE atServer

\* loadOverviewData for the selection the combo boxes have come to.
RequestOverview(open, c, d) ==
  /\ preview' = Nothing
  /\ busy' = TRUE
  /\ chart' = Nothing
  /\ Send(open, Subject("overview", "overview", c, d, 0, parameters), FALSE, FALSE)
LoadOverview(c, d) ==
  IF c = NoCompany
  THEN UNCHANGED <<preview, busy, chart, serviceVars, atServer>>
  ELSE RequestOverview(replies, c, d)

\* configureModeSelectors: the first company that fits the task.
Choices(mode, listed) ==
  IF mode = "forecast" THEN listed \cap {ForecastCompany}
  ELSE {c \in listed : \/ TaskOf[c] = "trace"
                       \/ TaskOf[c] = "" /\ c # ForecastCompany}
FirstChoice(mode, listed) ==
  IF Choices(mode, listed) = {} THEN NoCompany
  ELSE CHOOSE c \in Choices(mode, listed) : TRUE

-----------------------------------------------------------------------------
(* The user's controls.  setBusy disables every one of them.               *)

UseControl == Click /\ ~busy /\ UNCHANGED boxes

ChooseTask(mode) ==
  /\ UseControl
  /\ mode # taskMode
  /\ taskMode' = mode
  /\ company' = FirstChoice(mode, companies)
  /\ dataset' = "train_data"
  /\ cleaningRun' = 0 /\ typed' = FALSE
  /\ IF company' # NoCompany THEN LoadOverview(company', dataset')
     ELSE /\ preview' = Nothing /\ chart' = Nothing
          /\ UNCHANGED <<busy, serviceVars, atServer>>
  /\ UNCHANGED <<companies, parameters, table, stored>>

ChooseCompanyKeepingTheRun(c) ==
  /\ UseControl
  /\ taskMode = "classification"
  /\ c \in Choices(taskMode, companies) \ {company}
  /\ company' = c
  /\ LoadOverview(c, dataset)
  /\ UNCHANGED <<inputVars, taskMode, companies, dataset, table, stored>>
ChooseCompany(c) ==
  /\ UseControl
  /\ taskMode = "classification"
  /\ c \in Choices(taskMode, companies) \ {company}
  /\ company' = c
  /\ cleaningRun' = 0 /\ typed' = FALSE
  /\ LoadOverview(c, dataset)
  /\ UNCHANGED <<taskMode, companies, dataset, parameters, table, stored>>

ChooseDataset(d) ==
  /\ UseControl
  /\ d \in Datasets(taskMode) \ {dataset}
  /\ dataset' = d
  /\ cleaningRun' = 0 /\ typed' = FALSE
  /\ LoadOverview(company, d)
  /\ UNCHANGED <<taskMode, companies, company, parameters, table, stored>>

\* refreshButton and overviewButton.
Refresh ==
  /\ UseControl
  /\ company # NoCompany
  /\ LoadOverview(company, dataset)
  /\ UNCHANGED <<selectionVars, inputVars, table, stored>>

\* None of these inputs tells anybody that it has changed.
TypeRun(run) ==
  /\ UseControl
  /\ taskMode = "classification"
  /\ cleaningRun' = run /\ typed' = TRUE
  /\ UNCHANGED <<selectionVars, parameters, busy, preview, screenVars,
                 serviceVars, serverVars>>

SetParameters(p) ==
  /\ UseControl
  /\ p # parameters
  /\ parameters' = p
  /\ UNCHANGED <<selectionVars, cleaningRun, typed, busy, preview, screenVars,
                 serviceVars, serverVars>>

-----------------------------------------------------------------------------
(* Classification: previews, analyses, and saving what was previewed.      *)

\* The subject made of what the controls say now.
AsSet(operation) ==
  LET compared == operation = "distribution" /\ parameters \in Comparisons
  IN  Subject("classification", operation, company, dataset,
              IF compared THEN 0 ELSE cleaningRun, parameters)

\* runClassification(operation, persist)
RunClassificationFromTheControls(operation, persist) ==
  IF busy \/ taskMode # "classification" \/ company = NoCompany
  THEN UNCHANGED <<preview, busy, serviceVars, atServer>>
  ELSE LET subject == AsSet(operation)
       IN  /\ preview' = IF ~persist /\ operation \in Previewed
                         THEN subject ELSE Nothing
           /\ busy' = TRUE
           /\ Send(replies, subject, TRUE, persist)
RunClassification(operation, persist) ==
  IF busy \/ taskMode # "classification" \/ company = NoCompany
  THEN UNCHANGED <<preview, busy, serviceVars, atServer>>
  ELSE LET subject == IF persist THEN preview ELSE AsSet(operation)
       IN  /\ preview' = IF ~persist /\ operation \in Previewed
                         THEN subject ELSE Nothing
           /\ busy' = TRUE
           /\ Send(replies, subject, TRUE, persist)

PressOperation(operation) ==
  /\ UseControl
  /\ taskMode = "classification"
  /\ RunClassification(operation, FALSE)
  /\ UNCHANGED <<selectionVars, inputVars, screenVars, stored>>

\* saveVersionButton
AskToSave ==
  /\ Click
  /\ ~busy /\ taskMode = "classification" /\ preview # Nothing
  /\ Open("save?")
  /\ UNCHANGED dataVars

ConfirmSave ==
  /\ Close("save?")
  /\ RunClassification(preview.operation, TRUE)
  /\ UNCHANGED <<clicks, selectionVars, inputVars, screenVars, stored>>

DeclineSave ==
  /\ Close("save?")
  /\ UNCHANGED <<clicks, dataVars>>

\* runForecastAnalysis
PressForecastOperation(operation) ==
  /\ UseControl
  /\ taskMode = "forecast" /\ company = ForecastCompany
  /\ busy' = TRUE
  /\ Send(replies, Subject("forecast", operation, company, dataset, 0,
                           parameters), TRUE, FALSE)
  /\ UNCHANGED <<selectionVars, inputVars, preview, screenVars, stored>>

\* saveChartButton: the file is written, or a box says that it was not.
AskForChartFile ==
  /\ Click
  /\ ~busy /\ chart # Nothing
  /\ Open("chart file")
  /\ UNCHANGED dataVars

CloseChartFile ==
  /\ Close("chart file") \/ Replace("chart file", "chart failed")
  /\ UNCHANGED <<clicks, dataVars>>

-----------------------------------------------------------------------------
(* The server, as the page gets to know it.                                *)

\* A version is stored, in time or after the page has stopped waiting.
ServerStores(r) ==
  /\ r \in atServer
  /\ atServer' = atServer \ {r}
  /\ stored' = Append(stored, r)
  /\ UNCHANGED <<desktopVars, selectionVars, inputVars, busy, preview,
                 screenVars, serviceVars>>

ServerRejects(r) ==
  /\ r \in atServer
  /\ atServer' = atServer \ {r}
  /\ UNCHANGED <<desktopVars, selectionVars, inputVars, busy, preview,
                 screenVars, serviceVars, stored>>

Versions == DOMAIN stored
VersionOf(r) == CHOOSE n \in Versions : stored[n] = r

\* A request that reads a version is answered only if it is of the company
\* and of the dataset asked for, one that saves only after it has been saved.
Answerable(r) ==
  /\ \/ IsList(r)
     \/ r.subject.cleaningRun = 0
     \/ \E n \in Versions : /\ n = r.subject.cleaningRun
                            /\ stored[n].subject.company = r.subject.company
                            /\ stored[n].subject.dataset = r.subject.dataset
  /\ r.persist => \E n \in Versions : stored[n] = r

-----------------------------------------------------------------------------
(* DataService: which signal a reply becomes.                              *)

\* The reply of a request that a newer one has replaced is dropped.
Stale(r) == ~IsList(r) /\ r.key # activeRequest

Finishes(r, ending) ==
  /\ r \in replies
  /\ TimedOut(ending) => Timed(r)
  /\ Delivers(ending) => Answerable(r)
  /\ replies' = replies \ {r}
  /\ UNCHANGED <<clicks, requestSequence, activeRequest>>

DropStale(r, ending) ==
  /\ Finishes(r, ending)
  /\ Stale(r)
  /\ UNCHANGED <<boxes, selectionVars, inputVars, busy, preview, screenVars,
                 serverVars>>

\* handleServiceError
HandleServiceError(r, ending) ==
  /\ Finishes(r, ending)
  /\ ~Stale(r)
  /\ ~Delivers(ending)
  /\ preview' = Nothing
  /\ busy' = FALSE
  /\ table' = Nothing /\ chart' = Nothing
  /\ Open("data error")
  /\ UNCHANGED <<selectionVars, inputVars, serverVars>>

\* handleCompanyListReady, with the overview of the first company.
HandleCompanyList(r, ending, listed) ==
  /\ r \in replies /\ IsList(r)
  /\ Delivers(ending)
  /\ companies' = listed
  /\ company' = FirstChoice(taskMode, listed)
  /\ dataset' = "train_data"
  /\ IF company' = NoCompany
     THEN /\ busy' = FALSE
          /\ replies' = replies \ {r}
          /\ UNCHANGED <<requestSequence, activeRequest, preview, chart, atServer>>
     ELSE RequestOverview(replies \ {r}, company', dataset')
  /\ UNCHANGED <<desktopVars, taskMode, inputVars, table, stored>>

\* The result a reply brings to the table, and to the chart unless it has no
\* rows to draw.
Show(r, empty) ==
  /\ table' = r.subject
  /\ chart' = IF empty THEN Nothing ELSE r.subject

\* handleOverviewReady, handleForecastReady
HandleSeries(r, ending, empty) ==
  /\ Finishes(r, ending)
  /\ ~IsList(r) /\ ~Stale(r)
  /\ Delivers(ending)
  /\ r.subject.task \in {"overview", "forecast"}
  /\ busy' = FALSE
  /\ Show(r, empty)
  /\ UNCHANGED <<boxes, selectionVars, inputVars, preview, serverVars>>

\* handleClassificationReady: a new version becomes the input of what follows.
HandleClassification(r, ending) ==
  /\ Finishes(r, ending)
  /\ ~IsList(r) /\ ~Stale(r)
  /\ Delivers(ending)
  /\ r.subject.task = "classification"
  /\ busy' = FALSE
  /\ Show(r, FALSE)
  /\ IF r.persist
     THEN /\ preview' = Nothing
          /\ cleaningRun' = VersionOf(r) /\ typed' = FALSE
     ELSE UNCHANGED <<preview, cleaningRun, typed>>
  /\ UNCHANGED <<boxes, selectionVars, parameters, serverVars>>

\* The page reacts to a reply in one of these ways.
HandleReply(r, ending) ==
  \/ DropStale(r, ending)
  \/ HandleServiceError(r, ending)
  \/ \E listed \in Listings : HandleCompanyList(r, ending, listed)
  \/ \E empty \in BOOLEAN : HandleSeries(r, ending, empty)
  \/ HandleClassification(r, ending)

CloseDataBox ==
  /\ Close("data error") \/ Close("chart failed")
  /\ UNCHANGED <<clicks, dataVars>>

-----------------------------------------------------------------------------

DataUser ==
  \/ \E mode \in Modes : ChooseTask(mode)
  \/ \E c \in Companies : ChooseCompany(c)
  \/ \E d \in Datasets("forecast") : ChooseDataset(d)
  \/ Refresh
  \/ \E run \in 0..MaxRun : TypeRun(run)
  \/ \E p \in Parameters : SetParameters(p)
  \/ \E o \in ClassificationOperations : PressOperation(o)
  \/ \E o \in ForecastOperations : PressForecastOperation(o)
  \/ AskToSave \/ AskForChartFile

DataBoxes == ConfirmSave \/ DeclineSave \/ CloseChartFile \/ CloseDataBox

DataReplies == \E r \in replies, ending \in Endings : HandleReply(r, ending)

DataServer == \E r \in atServer : ServerStores(r) \/ ServerRejects(r)

\* The timer of a reply goes off: 15 seconds at the latest.
DataTimer == \E r \in replies, ending \in Endings :
               TimedOut(ending) /\ HandleReply(r, ending)

DataNext == DataUser \/ DataBoxes \/ DataReplies \/ DataServer

-----------------------------------------------------------------------------
(* Properties.                                                             *)

\* The page is waiting exactly when one request of it is under way, and that
\* one is the newest: no two requests of the page ever overlap, so that no
\* result can overtake another on its way to the screen.
DataPageWaitsForOne ==
  /\ busy <=> replies # {}
  /\ Cardinality(replies) <= 1
  /\ \A r \in replies : ~Stale(r)

\* The drawing that can be saved to a file is of the task, the company and
\* the dataset the page names above it.
ChartIsOfTheSelection ==
  chart # Nothing =>
    /\ chart.company = company /\ chart.dataset = dataset
    /\ chart.task \in {"overview", taskMode}

\* The version number the page has entered by itself is a version of the
\* selected company and dataset, so that the next operation reads what its
\* title says.
EnteredRunIsOfTheSelection ==
  ~typed /\ cleaningRun # 0 =>
    /\ cleaningRun \in Versions
    /\ stored[cleaningRun].subject.company = company
    /\ stored[cleaningRun].subject.dataset = dataset

\* A request to save repeats, parameter for parameter, the preview that is on
\* the screen, for the selected company and dataset, whatever the inputs were
\* set to since ("the parameters of the preview just shown").
SavesRepeatTheScreen ==
  [][\A r \in replies' \ replies :
       r.persist => /\ r.subject = table /\ r.subject.operation \in Previewed
                    /\ r.subject.company = company
                    /\ r.subject.dataset = dataset]_dataVars

=============================================================================
