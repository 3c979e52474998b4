---------------------------- MODULE ClientProofs ----------------------------
(***************************************************************************)
(* Proofs about the Qt client, for every list of companies, every number   *)
(* of clicks and every set of pages that take part.                        *)
(*                                                                         *)
(* Each page has an inductive invariant of its own, which the steps of the *)
(* other pages leave alone: they share only the stack of boxes.  What a    *)
(* page needs to know of that stack is that a box it opens by a click lies *)
(* below all others, and what holds as long as it is open.                 *)
(***************************************************************************)
EXTENDS Client, TLAPS, FiniteSetTheorems, SequenceTheorems, CollectionProofs

-----------------------------------------------------------------------------
(* The stack of boxes.                                                     *)

BoxNames ==
  {"save?", "data error", "chart file", "chart failed",
   "trace input", "trace error", "report file", "report done", "report failed",
   "forecast input", "forecast file", "forecast written", "forecast failed",
   "log file", "log written", "log failed"}

BoxesOK == boxes \in Seq(BoxNames)

Shown(box) == \E i \in 1..Len(boxes) : boxes[i] = box

Lowest(box) == \A i \in 1..Len(boxes) : boxes[i] = box => i = Len(boxes)

\* A step of the stack that does not open this box.
Beside(box) ==
  \/ UNCHANGED boxes
  \/ \E c \in BoxNames : c # box /\ Open(c)
  \/ \E b \in BoxNames : Close(b)
  \/ \E b, c \in BoxNames : c # box /\ Replace(b, c)

\* A stack with one element more on its top.
LEMMA Pushed ==
  ASSUME NEW s \in Seq(BoxNames), NEW c \in BoxNames
  PROVE  /\ <<c>> \o s \in Seq(BoxNames)
         /\ Len(<<c>> \o s) = Len(s) + 1
         /\ (<<c>> \o s)[1] = c
         /\ \A i \in 2..Len(s) + 1 : (<<c>> \o s)[i] = s[i - 1]
<1>1. <<c>> \in Seq(BoxNames) /\ Len(<<c>>) = 1 /\ <<c>>[1] = c
  OBVIOUS
<1>2. Len(s) \in Nat
  BY LenProperties
<1> QED
  BY <1>1, <1>2, ConcatProperties

\* A box stays lowest, and is not opened, while others come and go.
LEMMA OtherBoxes ==
  ASSUME BoxesOK, NEW box, Lowest(box), Beside(box)
  PROVE  BoxesOK' /\ Lowest(box)' /\ (Shown(box)' => Shown(box))
<1> USE DEF BoxesOK
<1>1. Len(boxes) \in Nat
  BY LenProperties
<1>2. CASE UNCHANGED boxes
  BY <1>2 DEF Lowest, Shown
<1>3. ASSUME NEW c \in BoxNames, c # box, Open(c)
      PROVE  BoxesOK' /\ Lowest(box)' /\ (Shown(box)' => Shown(box))
  <2>1. /\ boxes' \in Seq(BoxNames) /\ Len(boxes') = Len(boxes) + 1
        /\ boxes'[1] = c
        /\ \A i \in 2..Len(boxes) + 1 : boxes'[i] = boxes[i - 1]
    BY <1>3, Pushed DEF Open
  <2>2. ASSUME NEW i \in 1..Len(boxes'), boxes'[i] = box
        PROVE  i - 1 \in 1..Len(boxes) /\ boxes[i - 1] = box
    BY <1>1, <1>3, <2>1, <2>2
  <2> QED
    BY <1>1, <2>1, <2>2 DEF Lowest, Shown
<1>4. ASSUME NEW b \in BoxNames, Close(b)
      PROVE  BoxesOK' /\ Lowest(box)' /\ (Shown(box)' => Shown(box))
  <2>1. /\ boxes' \in Seq(BoxNames) /\ Len(boxes') = Len(boxes) - 1
        /\ \A i \in 1..Len(boxes') : boxes'[i] = boxes[i + 1]
    BY <1>4, HeadTailProperties DEF Close
  <2>2. ASSUME NEW i \in 1..Len(boxes'), boxes'[i] = box
        PROVE  i + 1 \in 1..Len(boxes) /\ boxes[i + 1] = box
    BY <1>1, <2>1, <2>2
  <2> QED
    BY <1>1, <2>1, <2>2 DEF Lowest, Shown
<1>5. ASSUME NEW b \in BoxNames, NEW c \in BoxNames, c # box, Replace(b, c)
      PROVE  BoxesOK' /\ Lowest(box)' /\ (Shown(box)' => Shown(box))
  <2>1. /\ Tail(boxes) \in Seq(BoxNames) /\ Len(Tail(boxes)) = Len(boxes) - 1
        /\ \A i \in 1..Len(boxes) - 1 : Tail(boxes)[i] = boxes[i + 1]
    BY <1>5, HeadTailProperties DEF Replace
  <2>2. /\ boxes' \in Seq(BoxNames) /\ Len(boxes') = Len(boxes)
        /\ boxes'[1] = c
        /\ \A i \in 2..Len(boxes) : boxes'[i] = Tail(boxes)[i - 1]
    BY <1>1, <1>5, <2>1, Pushed DEF Replace
  <2>3. ASSUME NEW i \in 1..Len(boxes'), boxes'[i] = box
        PROVE  i \in 1..Len(boxes) /\ boxes[i] = box
    <3>1. i \in 2..Len(boxes) /\ i - 1 \in 1..Len(boxes) - 1
      BY <1>1, <1>5, <2>2, <2>3
    <3> QED
      BY <1>1, <2>1, <2>2, <2>3, <3>1
  <2> QED
    BY <1>1, <2>2, <2>3 DEF Lowest, Shown
<1> QED
  BY <1>2, <1>3, <1>4, <1>5 DEF Beside

\* The handler of the lowest box goes on, when there is no box left above it.
LEMMA LowestCloses ==
  ASSUME BoxesOK, NEW box \in BoxNames, Lowest(box),
         Close(box) \/ \E c \in BoxNames : c # box /\ Replace(box, c)
  PROVE  BoxesOK' /\ Lowest(box)' /\ Shown(box) /\ ~Shown(box)'
<1> USE DEF BoxesOK
<1>1. boxes # <<>> /\ boxes[1] = box /\ Len(boxes) \in Nat \ {0}
  <2>1. boxes # <<>> /\ Head(boxes) = box
    BY DEF Close, Replace
  <2> QED
    BY <2>1, EmptySeq
<1>2. Len(boxes) = 1
  <2>1. 1 \in 1..Len(boxes)
    BY <1>1
  <2> QED
    BY <1>1, <2>1 DEF Lowest
<1>3. Tail(boxes) \in Seq(BoxNames) /\ Len(Tail(boxes)) = 0
  BY <1>1, <1>2, HeadTailProperties
<1>4. CASE Close(box)
  BY <1>1, <1>2, <1>3, <1>4 DEF Close, Lowest, Shown
<1>5. ASSUME NEW c \in BoxNames, c # box, Replace(box, c)
      PROVE  BoxesOK' /\ Lowest(box)' /\ Shown(box) /\ ~Shown(box)'
  <2>1. boxes' \in Seq(BoxNames) /\ Len(boxes') = 1 /\ boxes'[1] = c
    BY <1>3, <1>5, Pushed DEF Replace
  <2> QED
    BY <1>1, <1>2, <1>5, <2>1 DEF Lowest, Shown
<1> QED
  BY <1>4, <1>5

\* A box that a click opens is lowest, and there is no other.
LEMMA ClickOpens ==
  ASSUME boxes = <<>>, NEW c \in BoxNames, Open(c)
  PROVE  /\ BoxesOK' /\ Shown(c)'
         /\ \A box : Lowest(box)' /\ (box # c => ~Shown(box)')
<1>1. boxes' \in Seq(BoxNames) /\ Len(boxes') = 1 /\ boxes'[1] = c
  BY EmptySeq, Pushed DEF Open
<1> QED
  BY <1>1 DEF BoxesOK, Lowest, Shown

\* The controls of a page can be used only when there is no box.
LEMMA NoBoxes ==
  ASSUME boxes = <<>>
  PROVE  \A box : ~Shown(box)
BY DEF Shown

LEMMA Topmost ==
  ASSUME BoxesOK, boxes # <<>>
  PROVE  Shown(Head(boxes))
<1>1. Len(boxes) \in Nat \ {0} /\ Head(boxes) = boxes[1]
  BY EmptySeq DEF BoxesOK
<1> QED
  BY <1>1 DEF Shown

LEMMA InitialBoxes ==
  ASSUME DesktopInit
  PROVE  BoxesOK /\ \A box : Lowest(box) /\ ~Shown(box)
<1>1. boxes = <<>> /\ Len(boxes) = 0 /\ boxes \in Seq(BoxNames)
  BY EmptySeq DEF DesktopInit
<1> QED
  BY <1>1 DEF BoxesOK, Lowest, Shown

-----------------------------------------------------------------------------
(* The data page: its inductive invariant.                                 *)

Operations ==
  ClassificationOperations \cup ForecastOperations \cup {"overview", "nothing"}

DatasetNames == Datasets("forecast") \cup {"none"}

Subjects ==
  [task : {"nothing", "overview", "classification", "forecast"},
   operation : Operations, company : Companies \cup {NoCompany},
   dataset : DatasetNames, cleaningRun : Nat,
   parameters : Parameters \cup {"none"}]

DataRequests == [key : Nat, post : BOOLEAN, persist : BOOLEAN, subject : Subjects]

DataTypeOK ==
  /\ taskMode \in Modes
  /\ companies \in SUBSET Companies
  /\ company \in Companies \cup {NoCompany}
  /\ dataset \in Datasets("forecast")
  /\ cleaningRun \in Nat
  /\ parameters \in Parameters
  /\ preview \in Subjects /\ table \in Subjects /\ chart \in Subjects
  /\ requestSequence \in Nat /\ activeRequest = requestSequence
  /\ replies \in SUBSET DataRequests
  /\ atServer \in SUBSET DataRequests
  /\ stored \in Seq(DataRequests)

OneReply ==
  /\ busy <=> replies # {}
  /\ \A r, s \in replies : r = s
  /\ \A r \in replies : ~IsList(r) => r.key = requestSequence

\* What is under way is about the selection; before the list of companies has
\* arrived there is nothing else.
RepliesFit ==
  \A r \in replies :
    /\ ~IsList(r) => /\ r.subject.company = company /\ company # NoCompany
                     /\ r.subject.dataset = dataset
                     /\ r.subject.task \in {"overview", taskMode}
    /\ IsList(r) => chart = Nothing /\ cleaningRun = 0

\* A preview that could be saved is on its way to the screen or on it.
PreviewFits ==
  preview # Nothing =>
    /\ preview.operation \in Previewed
    /\ preview.company = company /\ company # NoCompany
    /\ preview.dataset = dataset
    /\ preview.task = "classification" /\ taskMode = "classification"
    /\ ~busy => table = preview
    /\ \A r \in replies : ~IsList(r) /\ ~r.persist /\ r.subject = preview

ChartFits == ChartIsOfTheSelection /\ (chart # Nothing => company # NoCompany)

DataState ==
  /\ DataTypeOK
  /\ OneReply
  /\ RepliesFit
  /\ PreviewFits
  /\ ChartFits
  /\ EnteredRunIsOfTheSelection

\* While the page asks for a confirmation, what it would save stays.
DataInv ==
  /\ DataState
  /\ BoxesOK /\ Lowest("save?")
  /\ Shown("save?") => ~busy /\ preview # Nothing

-----------------------------------------------------------------------------
(* The trace page: its inductive invariant.                                *)

\* While the page asks for a file, the result it has named the file after stays.
TraceInv ==
  /\ traceBusy <=> traceReplies # {}
  /\ \A r, s \in traceReplies : r = s
  /\ ReportIsOneResult
  /\ ShowsTheLastSample
  /\ BoxesOK /\ Lowest("report file")
  /\ Shown("report file") => reportName = lastResult /\ traceReplies = {}

-----------------------------------------------------------------------------
(* The prediction page: its inductive invariant.                           *)

Resources == {Ask("forecastModel"), Ask("companyList")}

PredictionInv ==
  /\ predictionReplies \subseteq Resources \/ predictionReplies = {Ask("forecast")}
  /\ modelPending <=> Ask("forecastModel") \in predictionReplies
  /\ companiesPending <=> Ask("companyList") \in predictionReplies
  /\ loading <=> Ask("forecast") \in predictionReplies
  /\ forecasts \in Nat /\ forecast \in {0, forecasts}
  /\ loading => forecasts # 0
  /\ BoxesOK /\ Lowest("forecast file")
  /\ Shown("forecast file") => forecast # 0

-----------------------------------------------------------------------------
(* The data page: sending requests.                                        *)

LEMMA SubjectFields ==
  ASSUME NEW task \in {"nothing", "overview", "classification", "forecast"},
         NEW operation \in Operations, NEW c \in Companies \cup {NoCompany},
         NEW d \in DatasetNames, NEW run \in Nat,
         NEW p \in Parameters \cup {"none"},
         NEW s, s = Subject(task, operation, c, d, run, p)
  PROVE  /\ s \in Subjects
         /\ s.task = task /\ s.operation = operation /\ s.company = c
         /\ s.dataset = d /\ s.cleaningRun = run
BY DEF Subject, Subjects

LEMMA NothingFields == Nothing \in Subjects /\ Nothing.task = "nothing"
<1>1. "nothing" \in Operations /\ "none" \in DatasetNames
  BY DEF Operations, DatasetNames
<1> QED
  BY <1>1, SubjectFields DEF Nothing

\* A request about the selection, sent when nothing else is under way, is the
\* one request of the page.
LEMMA Sent ==
  ASSUME requestSequence \in Nat, atServer \in SUBSET DataRequests,
         NEW subject \in Subjects, NEW post \in BOOLEAN, NEW persist \in BOOLEAN,
         Send({}, subject, post, persist), busy',
         subject.company = company', company' # NoCompany,
         subject.dataset = dataset', subject.task \in {"overview", taskMode'}
  PROVE  /\ requestSequence' \in Nat /\ activeRequest' = requestSequence'
         /\ replies' \in SUBSET DataRequests
         /\ atServer' \in SUBSET DataRequests
         /\ OneReply' /\ RepliesFit'
         /\ \A r \in replies' : /\ ~IsList(r) /\ r.subject = subject
                                /\ r.persist <=> persist
<1> DEFINE r == [key |-> requestSequence + 1, post |-> post,
                 persist |-> persist, subject |-> subject]
<1>1. /\ r \in DataRequests /\ r.key = requestSequence + 1
      /\ r.subject = subject /\ r.persist = persist
  BY DEF DataRequests
<1>2. /\ requestSequence' = requestSequence + 1
      /\ activeRequest' = requestSequence + 1
      /\ replies' = {r}
      /\ atServer' = IF persist THEN atServer \cup {r} ELSE atServer
  BY DEF Send
<1>3. ~IsList(r)
  BY <1>1 DEF IsList, CompanyList
<1> HIDE DEF r
<1>4. OneReply'
  BY <1>2, <1>3, <1>1 DEF OneReply
<1>5. RepliesFit'
  BY <1>1, <1>2, <1>3 DEF RepliesFit
<1> QED
  BY <1>1, <1>2, <1>3, <1>4, <1>5

LEMMA OverviewRequested ==
  ASSUME DataTypeOK, RequestOverview({}, company', dataset'),
         company' \in Companies, dataset' \in Datasets("forecast"),
         taskMode' \in Modes, companies' \in SUBSET Companies,
         cleaningRun' \in Nat, EnteredRunIsOfTheSelection',
         UNCHANGED <<table, parameters, stored>>
  PROVE  DataState'
<1> DEFINE subject == Subject("overview", "overview", company', dataset', 0, parameters)
<1>1. dataset' \in DatasetNames /\ "overview" \in Operations /\ company' # NoCompany
  BY DataPageAssumption DEF DatasetNames, Operations
<1>2. /\ subject \in Subjects /\ subject.task = "overview"
      /\ subject.company = company' /\ subject.dataset = dataset'
  <2>1. parameters \in Parameters \cup {"none"}
    BY DEF DataTypeOK
  <2> QED
    BY <1>1, <2>1, SubjectFields
<1>3. preview' = Nothing /\ chart' = Nothing /\ busy' /\ Send({}, subject, FALSE, FALSE)
  BY DEF RequestOverview
<1> HIDE DEF subject
<1>4. /\ requestSequence' \in Nat /\ activeRequest' = requestSequence'
      /\ replies' \in SUBSET DataRequests
      /\ atServer' \in SUBSET DataRequests
      /\ OneReply' /\ RepliesFit'
  BY <1>1, <1>2, <1>3, Sent DEF DataTypeOK
<1>5. DataTypeOK'
  BY <1>1, <1>3, <1>4, NothingFields DEF DataTypeOK
<1>6. PreviewFits' /\ ChartFits'
  BY <1>3 DEF PreviewFits, ChartFits, ChartIsOfTheSelection
<1> QED
  BY <1>4, <1>5, <1>6 DEF DataState

\* A version number that has been reset is of no selection.
LEMMA NoRunEntered ==
  ASSUME cleaningRun' = 0
  PROVE  cleaningRun' \in Nat /\ EnteredRunIsOfTheSelection'
BY DEF EnteredRunIsOfTheSelection

\* What a page that waits for nothing shows stays, and so does its state.
LEMMA NothingUnderWay ==
  ASSUME DataState, ~busy
  PROVE  replies = {}
BY DEF DataState, OneReply

\* The first company that fits a task is one of the list.
LEMMA FirstChoices ==
  ASSUME NEW mode \in Modes, NEW listed \in SUBSET Companies
  PROVE  FirstChoice(mode, listed) \in listed \cup {NoCompany}
<1>1. Choices(mode, listed) \subseteq listed
  BY DEF Choices
<1> QED
  BY <1>1 DEF FirstChoice

LEMMA TaskChosen ==
  ASSUME DataState, NEW mode \in Modes, ChooseTask(mode)
  PROVE  DataState'
<1>1. ~busy /\ replies = {}
  BY NothingUnderWay DEF ChooseTask, UseControl
<1>2. /\ taskMode' \in Modes /\ companies' \in SUBSET Companies
      /\ company' \in Companies \cup {NoCompany}
      /\ dataset' = "train_data" /\ cleaningRun' = 0
      /\ UNCHANGED <<table, parameters, stored>>
  BY FirstChoices DEF ChooseTask, DataState, DataTypeOK
<1>3. CASE company' # NoCompany
  <2>1. RequestOverview({}, company', dataset')
    BY <1>1, <1>3 DEF ChooseTask, LoadOverview
  <2>2. dataset' \in Datasets("forecast") /\ company' \in Companies
    BY <1>2, <1>3 DEF Datasets
  <2> QED
    BY <1>2, <2>1, <2>2, NoRunEntered, OverviewRequested DEF DataState
<1>4. CASE company' = NoCompany
  <2>1. /\ preview' = Nothing /\ chart' = Nothing
        /\ UNCHANGED <<busy, requestSequence, activeRequest, replies, atServer>>
    BY <1>4 DEF ChooseTask, serviceVars
  <2>2. DataTypeOK'
    BY <1>2, <2>1, NothingFields DEF DataState, DataTypeOK, Datasets
  <2>3. OneReply' /\ RepliesFit'
    BY <1>1, <2>1 DEF OneReply, RepliesFit
  <2>4. PreviewFits' /\ ChartFits' /\ EnteredRunIsOfTheSelection'
    BY <1>2, <2>1 DEF PreviewFits, ChartFits, ChartIsOfTheSelection,
                      EnteredRunIsOfTheSelection
  <2> QED
    BY <2>2, <2>3, <2>4 DEF DataState
<1> QED
  BY <1>3, <1>4

LEMMA CompanyChosen ==
  ASSUME DataState, NEW c \in Companies, ChooseCompany(c)
  PROVE  DataState'
<1>1. ~busy /\ replies = {}
  BY NothingUnderWay DEF ChooseCompany, UseControl
<1>2. company' = c /\ c # NoCompany /\ UNCHANGED <<taskMode, companies, dataset>>
  BY DataPageAssumption DEF ChooseCompany
<1>3. RequestOverview({}, company', dataset')
  BY <1>1, <1>2 DEF ChooseCompany, LoadOverview
<1>4. cleaningRun' = 0 /\ UNCHANGED <<table, parameters, stored>>
  BY DEF ChooseCompany
<1>5. dataset' \in Datasets("forecast")
  BY <1>2 DEF DataState, DataTypeOK
<1> QED
  BY <1>2, <1>3, <1>4, <1>5, NoRunEntered, OverviewRequested
     DEF DataState, DataTypeOK

LEMMA DatasetChosen ==
  ASSUME DataState, NEW d \in Datasets("forecast"), ChooseDataset(d)
  PROVE  DataState'
<1>1. ~busy /\ replies = {}
  BY NothingUnderWay DEF ChooseDataset, UseControl
<1>2. /\ dataset' = d /\ cleaningRun' = 0
      /\ UNCHANGED <<taskMode, companies, company, table, parameters, stored>>
  BY DEF ChooseDataset
<1>3. CASE company # NoCompany
  <2>1. RequestOverview({}, company', dataset')
    BY <1>1, <1>2, <1>3 DEF ChooseDataset, LoadOverview
  <2> QED
    BY <1>2, <1>3, <2>1, NoRunEntered, OverviewRequested DEF DataState, DataTypeOK
<1>4. CASE company = NoCompany
  <2>1. UNCHANGED <<preview, chart, busy, requestSequence, activeRequest, replies,
                    atServer>>
    BY <1>4 DEF ChooseDataset, LoadOverview, serviceVars
  <2>2. preview = Nothing /\ chart = Nothing
    BY <1>4 DEF DataState, PreviewFits, ChartFits
  <2>3. DataTypeOK'
    BY <1>2, <2>1 DEF DataState, DataTypeOK
  <2>4. OneReply' /\ RepliesFit'
    BY <1>1, <2>1 DEF DataState, OneReply, RepliesFit
  <2>5. Nothing' = Nothing
    BY DEF Nothing
  <2>6. PreviewFits' /\ ChartFits' /\ EnteredRunIsOfTheSelection'
    BY <1>2, <2>1, <2>2, <2>5 DEF PreviewFits, ChartFits, ChartIsOfTheSelection,
                      EnteredRunIsOfTheSelection
  <2> QED
    BY <2>3, <2>4, <2>6 DEF DataState
<1> QED
  BY <1>3, <1>4

LEMMA Refreshed ==
  ASSUME DataState, Refresh
  PROVE  DataState'
<1>1. ~busy /\ replies = {}
  BY NothingUnderWay DEF Refresh, UseControl
<1>2. company # NoCompany /\ UNCHANGED <<selectionVars, inputVars, table, stored>>
  BY DEF Refresh
<1>3. RequestOverview({}, company', dataset')
  BY <1>1, <1>2 DEF Refresh, LoadOverview, selectionVars
<1>4. EnteredRunIsOfTheSelection'
  BY <1>2 DEF DataState, EnteredRunIsOfTheSelection, selectionVars, inputVars, Versions
<1> QED
  BY <1>2, <1>3, <1>4, OverviewRequested
     DEF DataState, DataTypeOK, selectionVars, inputVars

\* None of the other inputs disturbs anything.
LEMMA InputsChanged ==
  ASSUME DataState,
         \/ \E run \in 0..MaxRun : TypeRun(run)
         \/ \E p \in Parameters : SetParameters(p)
  PROVE  DataState'
<1>1. /\ UNCHANGED <<taskMode, companies, company, dataset, busy, preview, table,
                      chart, requestSequence, activeRequest, replies, atServer,
                      stored>>
      /\ parameters' \in Parameters
      /\ replies = {} /\ cleaningRun' \in Nat
      /\ typed' = TRUE \/ UNCHANGED <<cleaningRun, typed>>
  <2>1. ~busy /\ replies = {}
    BY NothingUnderWay DEF TypeRun, SetParameters, UseControl
  <2>2. ASSUME NEW run \in 0..MaxRun, TypeRun(run)
        PROVE  /\ UNCHANGED <<selectionVars, parameters, busy, preview, screenVars,
                              serviceVars, serverVars>>
               /\ typed' = TRUE /\ cleaningRun' \in Nat
    <3>1. MaxRun \in Nat
      BY DataPageAssumption
    <3> QED
      BY <2>2, <3>1 DEF TypeRun
  <2>3. ASSUME NEW p \in Parameters, SetParameters(p)
        PROVE  /\ UNCHANGED <<selectionVars, cleaningRun, typed, busy, preview,
                              screenVars, serviceVars, serverVars>>
               /\ parameters' \in Parameters
    BY <2>3 DEF SetParameters
  <2>4. cleaningRun \in Nat /\ parameters \in Parameters
    BY DEF DataState, DataTypeOK
  <2> QED
    BY <2>1, <2>2, <2>3, <2>4 DEF selectionVars, screenVars, serviceVars, serverVars
<1>2. Nothing' = Nothing
  BY DEF Nothing
<1>3. DataTypeOK'
  BY <1>1 DEF DataState, DataTypeOK
<1>4. OneReply' /\ RepliesFit'
  <2>1. replies' = {} /\ busy' = busy
    BY <1>1
  <2> QED
    BY <1>1, <2>1 DEF DataState, OneReply, RepliesFit
<1>5. PreviewFits'
  BY <1>1, <1>2 DEF DataState, PreviewFits
<1>6. ChartFits'
  BY <1>1, <1>2 DEF DataState, ChartFits, ChartIsOfTheSelection
<1>7. EnteredRunIsOfTheSelection'
  BY <1>1 DEF DataState, EnteredRunIsOfTheSelection, Versions
<1> QED
  BY <1>3, <1>4, <1>5, <1>6, <1>7 DEF DataState

LEMMA DataStateStays ==
  ASSUME DataState, UNCHANGED dataVars
  PROVE  DataState'
<1>1. UNCHANGED <<taskMode, companies, company, dataset, cleaningRun, typed,
                  parameters, busy, preview, table, chart, requestSequence,
                  activeRequest, replies, atServer, stored>>
  BY DEF dataVars, selectionVars, inputVars, screenVars, serviceVars, serverVars
<1>2. Nothing' = Nothing
  BY DEF Nothing
<1>3. DataTypeOK'
  BY <1>1 DEF DataState, DataTypeOK
<1>4. OneReply' /\ RepliesFit'
  BY <1>1, <1>2 DEF DataState, OneReply, RepliesFit
<1>5. PreviewFits'
  BY <1>1, <1>2 DEF DataState, PreviewFits
<1>6. ChartFits'
  BY <1>1, <1>2 DEF DataState, ChartFits, ChartIsOfTheSelection
<1>7. EnteredRunIsOfTheSelection'
  BY <1>1 DEF DataState, EnteredRunIsOfTheSelection, Versions
<1> QED
  BY <1>3, <1>4, <1>5, <1>6, <1>7 DEF DataState

LEMMA OperationPressed ==
  ASSUME DataState, NEW o \in ClassificationOperations, PressOperation(o)
  PROVE  DataState'
<1>1. /\ ~busy /\ replies = {} /\ taskMode = "classification"
      /\ RunClassification(o, FALSE)
      /\ UNCHANGED <<taskMode, companies, company, dataset, cleaningRun, typed,
                     parameters, table, chart, stored>>
  BY NothingUnderWay
     DEF PressOperation, UseControl, selectionVars, inputVars, screenVars
<1>2. CASE company = NoCompany
  <2>1. UNCHANGED dataVars
    BY <1>1, <1>2 DEF RunClassification, dataVars, selectionVars, inputVars,
                      screenVars, serviceVars, serverVars
  <2> QED
    BY <2>1, DataStateStays
<1>3. CASE company # NoCompany
  <2> DEFINE subject == AsSet(o)
  <2>1. /\ preview' = IF o \in Previewed THEN subject ELSE Nothing
        /\ busy' /\ Send({}, subject, TRUE, FALSE)
    BY <1>1, <1>3 DEF RunClassification
  <2>2. /\ subject \in Subjects
        /\ subject.task = "classification" /\ subject.operation = o
        /\ subject.company = company /\ subject.dataset = dataset
    <3> DEFINE run == IF o = "distribution" /\ parameters \in Comparisons
                      THEN 0 ELSE cleaningRun
    <3>1. subject = Subject("classification", o, company, dataset, run, parameters)
      BY DEF AsSet
    <3>2. /\ o \in Operations /\ company \in Companies \cup {NoCompany}
          /\ dataset \in DatasetNames /\ run \in Nat
          /\ parameters \in Parameters \cup {"none"}
      BY DEF Operations, DatasetNames, DataState, DataTypeOK
    <3> QED
      BY <3>1, <3>2, SubjectFields
  <2> HIDE DEF subject
  <2>3. /\ requestSequence' \in Nat /\ activeRequest' = requestSequence'
        /\ replies' \in SUBSET DataRequests
        /\ atServer' \in SUBSET DataRequests
        /\ OneReply' /\ RepliesFit'
        /\ \A r \in replies' : ~IsList(r) /\ r.subject = subject /\ ~r.persist
    BY <1>1, <1>3, <2>1, <2>2, Sent DEF DataState, DataTypeOK
  <2>4. DataTypeOK'
    BY <1>1, <2>1, <2>2, <2>3, NothingFields DEF DataState, DataTypeOK
  <2>5. Nothing' = Nothing
    BY DEF Nothing
  <2>6. PreviewFits'
    BY <1>1, <1>3, <2>1, <2>2, <2>3, <2>5 DEF PreviewFits
  <2>7. ChartFits'
    BY <1>1, <2>5 DEF DataState, ChartFits, ChartIsOfTheSelection
  <2>8. EnteredRunIsOfTheSelection'
    BY <1>1 DEF DataState, EnteredRunIsOfTheSelection, Versions
  <2> QED
    BY <2>3, <2>4, <2>6, <2>7, <2>8 DEF DataState
<1> QED
  BY <1>2, <1>3

LEMMA ForecastOperationPressed ==
  ASSUME DataState, NEW o \in ForecastOperations, PressForecastOperation(o)
  PROVE  DataState'
<1> DEFINE subject == Subject("forecast", o, company, dataset, 0, parameters)
<1>1. /\ ~busy /\ replies = {} /\ taskMode = "forecast"
      /\ busy' /\ Send({}, subject, TRUE, FALSE)
      /\ company # NoCompany
      /\ UNCHANGED <<taskMode, companies, company, dataset, cleaningRun, typed,
                     parameters, preview, table, chart, stored>>
  <2>1. ForecastCompany # NoCompany
    BY DataPageAssumption
  <2>2. ~busy /\ replies = {}
    BY NothingUnderWay DEF PressForecastOperation, UseControl
  <2> QED
    BY <2>1, <2>2 DEF PressForecastOperation, selectionVars, inputVars, screenVars
<1>2. /\ subject \in Subjects /\ subject.task = "forecast"
      /\ subject.company = company /\ subject.dataset = dataset
  <2>1. /\ o \in Operations /\ company \in Companies \cup {NoCompany}
        /\ dataset \in DatasetNames /\ parameters \in Parameters \cup {"none"}
    BY DEF Operations, DatasetNames, DataState, DataTypeOK
  <2> QED
    BY <2>1, SubjectFields
<1> HIDE DEF subject
<1>3. /\ requestSequence' \in Nat /\ activeRequest' = requestSequence'
      /\ replies' \in SUBSET DataRequests
      /\ atServer' \in SUBSET DataRequests
      /\ OneReply' /\ RepliesFit'
  BY <1>1, <1>2, Sent DEF DataState, DataTypeOK
<1>4. DataTypeOK'
  BY <1>1, <1>3 DEF DataState, DataTypeOK
<1>5. Nothing' = Nothing
  BY DEF Nothing
<1>6. preview = Nothing
  BY <1>1 DEF DataState, PreviewFits
<1>7. PreviewFits' /\ ChartFits'
  BY <1>1, <1>5, <1>6 DEF DataState, PreviewFits, ChartFits, ChartIsOfTheSelection
<1>8. EnteredRunIsOfTheSelection'
  BY <1>1 DEF DataState, EnteredRunIsOfTheSelection, Versions
<1> QED
  BY <1>3, <1>4, <1>7, <1>8 DEF DataState

\* What is saved is the preview, and the preview is on the screen.
LEMMA SaveConfirmed ==
  ASSUME DataInv, ConfirmSave
  PROVE  /\ DataState'
         /\ \A r \in replies' : r.persist => r.subject = preview
         /\ table = preview /\ preview # Nothing
<1>1. Shown("save?")
  <2>1. "save?" \in BoxNames
    BY DEF BoxNames
  <2> QED
    BY <2>1, LowestCloses DEF ConfirmSave, DataInv
<1>2. /\ ~busy /\ replies = {} /\ preview # Nothing /\ table = preview
      /\ preview.company = company /\ company # NoCompany
      /\ preview.dataset = dataset /\ preview \in Subjects
      /\ preview.task = "classification" /\ taskMode = "classification"
  BY <1>1, NothingUnderWay DEF DataInv, DataState, PreviewFits, DataTypeOK
<1>3. /\ preview' = Nothing /\ busy' /\ Send({}, preview, TRUE, TRUE)
      /\ UNCHANGED <<taskMode, companies, company, dataset, cleaningRun, typed,
                     parameters, table, chart, stored>>
  BY <1>2 DEF ConfirmSave, RunClassification, selectionVars, inputVars, screenVars
<1>4. /\ requestSequence' \in Nat /\ activeRequest' = requestSequence'
      /\ replies' \in SUBSET DataRequests
      /\ atServer' \in SUBSET DataRequests
      /\ OneReply' /\ RepliesFit'
      /\ \A r \in replies' : r.subject = preview
  BY <1>2, <1>3, Sent DEF DataInv, DataState, DataTypeOK
<1>5. DataTypeOK'
  BY <1>3, <1>4, NothingFields DEF DataInv, DataState, DataTypeOK
<1>6. Nothing' = Nothing
  BY DEF Nothing
<1>7. PreviewFits' /\ ChartFits'
  BY <1>3, <1>6 DEF DataInv, DataState, PreviewFits, ChartFits, ChartIsOfTheSelection
<1>8. EnteredRunIsOfTheSelection'
  BY <1>3 DEF DataInv, DataState, EnteredRunIsOfTheSelection, Versions
<1> QED
  BY <1>2, <1>4, <1>5, <1>7, <1>8 DEF DataState

-----------------------------------------------------------------------------
(* The data page: what arrives.                                            *)

\* A version that is stored is added to the others.
LEMMA VersionStored ==
  ASSUME DataState, NEW r \in atServer, ServerStores(r) \/ ServerRejects(r)
  PROVE  DataState'
<1>1. /\ UNCHANGED <<taskMode, companies, company, dataset, cleaningRun, typed,
                     parameters, busy, preview, table, chart, requestSequence,
                     activeRequest, replies>>
      /\ atServer' = atServer \ {r}
      /\ stored' \in {stored, Append(stored, r)}
  BY DEF ServerStores, ServerRejects, selectionVars, inputVars, screenVars,
         serviceVars
<1>2. r \in DataRequests /\ stored \in Seq(DataRequests)
  BY DEF DataState, DataTypeOK
<1>3. /\ stored' \in Seq(DataRequests) /\ Versions \subseteq Versions'
      /\ \A n \in Versions : stored'[n] = stored[n]
  BY <1>1, <1>2, AppendProperties, LenProperties DEF Versions
<1>4. Nothing' = Nothing
  BY DEF Nothing
<1>5. DataTypeOK'
  BY <1>1, <1>3 DEF DataState, DataTypeOK
<1>6. OneReply' /\ RepliesFit'
  BY <1>1, <1>4 DEF DataState, OneReply, RepliesFit
<1>7. PreviewFits'
  BY <1>1, <1>4 DEF DataState, PreviewFits
<1>8. ChartFits'
  BY <1>1, <1>4 DEF DataState, ChartFits, ChartIsOfTheSelection
<1>9. EnteredRunIsOfTheSelection'
  BY <1>1, <1>3 DEF DataState, EnteredRunIsOfTheSelection
<1> QED
  BY <1>5, <1>6, <1>7, <1>8, <1>9 DEF DataState

\* A reply is the only one, and is not stale.
LEMMA OnlyReply ==
  ASSUME DataState, NEW r \in replies
  PROVE  /\ replies \ {r} = {} /\ replies = {r} /\ busy /\ ~Stale(r)
         /\ r \in DataRequests /\ r.subject \in Subjects
<1>1. \A s \in replies : s = r
  BY DEF DataState, OneReply
<1>2. r \in DataRequests /\ r.subject \in Subjects
  BY DEF DataState, DataTypeOK, DataRequests
<1> QED
  BY <1>1, <1>2 DEF DataState, OneReply, DataTypeOK, Stale

LEMMA ListArrives ==
  ASSUME DataState, NEW r \in replies, NEW ending, NEW listed \in Listings,
         HandleCompanyList(r, ending, listed)
  PROVE  DataState'
<1>1. /\ IsList(r) /\ replies \ {r} = {}
      /\ chart = Nothing /\ preview = Nothing /\ cleaningRun = 0
  BY OnlyReply DEF HandleCompanyList, DataState, RepliesFit, PreviewFits
<1>2. /\ listed \in SUBSET Companies
      /\ company' \in listed \cup {NoCompany}
      /\ companies' = listed /\ dataset' = "train_data"
      /\ UNCHANGED <<taskMode, cleaningRun, typed, parameters, table, stored>>
  <2>1. listed \in SUBSET Companies
    BY DataPageAssumption
  <2>2. taskMode \in Modes
    BY DEF DataState, DataTypeOK
  <2> QED
    BY <2>1, <2>2, FirstChoices DEF HandleCompanyList, inputVars
<1>3. CASE company' # NoCompany
  <2>1. RequestOverview({}, company', dataset')
    BY <1>1, <1>3 DEF HandleCompanyList
  <2>2. dataset' \in Datasets("forecast") /\ company' \in Companies
    BY <1>2, <1>3 DEF Datasets
  <2> QED
    BY <1>1, <1>2, <2>1, <2>2, NoRunEntered, OverviewRequested
       DEF DataState, DataTypeOK
<1>4. CASE company' = NoCompany
  <2>1. /\ ~busy' /\ replies' = {}
        /\ UNCHANGED <<requestSequence, activeRequest, preview, chart, atServer>>
    BY <1>1, <1>4 DEF HandleCompanyList
  <2>2. Nothing' = Nothing
    BY DEF Nothing
  <2>3. dataset' \in Datasets("forecast")
    BY <1>2 DEF Datasets
  <2>4. DataTypeOK'
    BY <1>2, <2>1, <2>3 DEF DataState, DataTypeOK
  <2>5. OneReply' /\ RepliesFit'
    BY <2>1 DEF OneReply, RepliesFit
  <2>6. PreviewFits' /\ ChartFits' /\ EnteredRunIsOfTheSelection'
    BY <1>1, <1>2, <2>1, <2>2 DEF PreviewFits, ChartFits, ChartIsOfTheSelection,
                                  EnteredRunIsOfTheSelection
  <2> QED
    BY <2>4, <2>5, <2>6 DEF DataState
<1> QED
  BY <1>3, <1>4

LEMMA SeriesArrives ==
  ASSUME DataState, NEW r \in replies, NEW ending, NEW empty \in BOOLEAN,
         HandleSeries(r, ending, empty)
  PROVE  DataState'
<1>1. /\ ~IsList(r) /\ r.subject \in Subjects
      /\ r.subject.company = company /\ r.subject.dataset = dataset
      /\ company # NoCompany /\ r.subject.task \in {"overview", taskMode}
  BY OnlyReply DEF HandleSeries, DataState, RepliesFit
<1>2. /\ replies' = {} /\ ~busy'
      /\ table' = r.subject /\ chart' \in {Nothing, r.subject}
      /\ UNCHANGED <<taskMode, companies, company, dataset, cleaningRun, typed,
                     parameters, preview, requestSequence, activeRequest, atServer,
                     stored>>
  BY OnlyReply DEF HandleSeries, Finishes, Show, selectionVars, inputVars, serverVars
<1>3. preview = Nothing
  <2>1. ASSUME preview # Nothing
        PROVE  r.subject.task = "classification"
    BY <2>1 DEF DataState, PreviewFits
  <2> QED
    BY <2>1 DEF HandleSeries
<1>4. Nothing' = Nothing
  BY DEF Nothing
<1>5. DataTypeOK'
  BY <1>1, <1>2, NothingFields DEF DataState, DataTypeOK
<1>6. OneReply' /\ RepliesFit'
  BY <1>2 DEF OneReply, RepliesFit
<1>7. PreviewFits' /\ ChartFits'
  BY <1>1, <1>2, <1>3, <1>4 DEF PreviewFits, ChartFits, ChartIsOfTheSelection
<1>8. EnteredRunIsOfTheSelection'
  BY <1>2 DEF DataState, EnteredRunIsOfTheSelection, Versions
<1> QED
  BY <1>5, <1>6, <1>7, <1>8 DEF DataState

\* The number of a version just saved is that of a version of the selection.
LEMMA ClassificationArrives ==
  ASSUME DataState, NEW r \in replies, NEW ending, HandleClassification(r, ending)
  PROVE  DataState'
<1>1. /\ ~IsList(r) /\ r.subject \in Subjects
      /\ r.subject.company = company /\ r.subject.dataset = dataset
      /\ company # NoCompany /\ r.subject.task \in {"overview", taskMode}
  BY OnlyReply DEF HandleClassification, DataState, RepliesFit
<1>2. /\ replies' = {} /\ ~busy'
      /\ table' = r.subject /\ chart' = r.subject
      /\ UNCHANGED <<taskMode, companies, company, dataset, parameters,
                     requestSequence, activeRequest, atServer, stored>>
  BY OnlyReply
     DEF HandleClassification, Finishes, Show, selectionVars, serverVars
<1>3. Nothing' = Nothing
  BY DEF Nothing
<1>4. OneReply' /\ RepliesFit'
  BY <1>2 DEF OneReply, RepliesFit
<1>5. ChartFits'
  BY <1>1, <1>2 DEF ChartFits, ChartIsOfTheSelection
<1>6. CASE r.persist
  <2>1. preview' = Nothing /\ cleaningRun' = VersionOf(r)
    BY <1>6 DEF HandleClassification
  <2>2. VersionOf(r) \in Versions /\ stored[VersionOf(r)] = r
    <3>1. \E n \in Versions : stored[n] = r
      BY <1>6 DEF HandleClassification, Finishes, Answerable
    <3> QED
      BY <3>1 DEF VersionOf
  <2>3. cleaningRun' \in Nat
    BY <2>1, <2>2, LenProperties DEF Versions, DataState, DataTypeOK
  <2>4. DataTypeOK'
    BY <1>1, <1>2, <2>1, <2>3, NothingFields DEF DataState, DataTypeOK
  <2>5. PreviewFits'
    BY <1>3, <2>1 DEF PreviewFits
  <2>6. EnteredRunIsOfTheSelection'
    BY <1>1, <1>2, <2>1, <2>2 DEF EnteredRunIsOfTheSelection, Versions
  <2> QED
    BY <1>4, <1>5, <2>4, <2>5, <2>6 DEF DataState
<1>7. CASE ~r.persist
  <2>1. UNCHANGED <<preview, cleaningRun, typed>>
    BY <1>7 DEF HandleClassification
  <2>2. DataTypeOK'
    BY <1>1, <1>2, <2>1 DEF DataState, DataTypeOK
  <2>3. PreviewFits'
    BY <1>2, <1>3, <2>1 DEF DataState, PreviewFits
  <2>4. EnteredRunIsOfTheSelection'
    BY <1>2, <2>1 DEF DataState, EnteredRunIsOfTheSelection, Versions
  <2> QED
    BY <1>4, <1>5, <2>2, <2>3, <2>4 DEF DataState
<1> QED
  BY <1>6, <1>7

LEMMA ErrorArrives ==
  ASSUME DataState, NEW r \in replies, NEW ending, HandleServiceError(r, ending)
  PROVE  DataState'
<1>1. /\ replies' = {} /\ ~busy'
      /\ preview' = Nothing /\ table' = Nothing /\ chart' = Nothing
      /\ UNCHANGED <<taskMode, companies, company, dataset, cleaningRun, typed,
                     parameters, requestSequence, activeRequest, atServer, stored>>
  BY OnlyReply
     DEF HandleServiceError, Finishes, selectionVars, inputVars, serverVars
<1>2. Nothing' = Nothing
  BY DEF Nothing
<1>3. DataTypeOK'
  BY <1>1, NothingFields DEF DataState, DataTypeOK
<1>4. OneReply' /\ RepliesFit'
  BY <1>1 DEF OneReply, RepliesFit
<1>5. PreviewFits' /\ ChartFits'
  BY <1>1, <1>2 DEF PreviewFits, ChartFits, ChartIsOfTheSelection
<1>6. EnteredRunIsOfTheSelection'
  BY <1>1 DEF DataState, EnteredRunIsOfTheSelection, Versions
<1> QED
  BY <1>3, <1>4, <1>5, <1>6 DEF DataState

-----------------------------------------------------------------------------
(* The data page: its steps.                                               *)

LEMMA DataStateStep ==
  ASSUME DataInv, DataNext
  PROVE  DataState'
<1> USE DEF DataInv
<1>1. CASE DataUser
  <2>1. CASE \E mode \in Modes : ChooseTask(mode)
    BY <2>1, TaskChosen
  <2>2. CASE \E c \in Companies : ChooseCompany(c)
    BY <2>2, CompanyChosen
  <2>3. CASE \E d \in Datasets("forecast") : ChooseDataset(d)
    BY <2>3, DatasetChosen
  <2>4. CASE Refresh
    BY <2>4, Refreshed
  <2>5. CASE \/ \E run \in 0..MaxRun : TypeRun(run)
             \/ \E p \in Parameters : SetParameters(p)
    BY <2>5, InputsChanged
  <2>6. CASE \E o \in ClassificationOperations : PressOperation(o)
    BY <2>6, OperationPressed
  <2>7. CASE \E o \in ForecastOperations : PressForecastOperation(o)
    BY <2>7, ForecastOperationPressed
  <2>8. CASE AskToSave \/ AskForChartFile
    BY <2>8, DataStateStays DEF AskToSave, AskForChartFile
  <2> QED
    BY <1>1, <2>1, <2>2, <2>3, <2>4, <2>5, <2>6, <2>7, <2>8 DEF DataUser
<1>2. CASE DataBoxes
  <2>1. CASE ConfirmSave
    BY <2>1, SaveConfirmed
  <2>2. CASE DeclineSave \/ CloseChartFile \/ CloseDataBox
    BY <2>2, DataStateStays DEF DeclineSave, CloseChartFile, CloseDataBox
  <2> QED
    BY <1>2, <2>1, <2>2 DEF DataBoxes
<1>3. ASSUME NEW r \in replies, NEW ending \in Endings, HandleReply(r, ending)
      PROVE  DataState'
  <2>1. ~DropStale(r, ending)
    BY OnlyReply DEF DropStale
  <2> QED
    BY <1>3, <2>1, ErrorArrives, ListArrives, SeriesArrives, ClassificationArrives
       DEF HandleReply
<1>4. CASE DataServer
  BY <1>4, VersionStored DEF DataServer
<1> QED
  BY <1>1, <1>2, <1>3, <1>4 DEF DataNext, DataReplies

\* The controls of the page leave the stack of boxes empty.
LEMMA DataControls ==
  ASSUME DataUser
  PROVE  \/ boxes = <<>> /\ UNCHANGED boxes
         \/ AskToSave \/ AskForChartFile
<1> USE DEF UseControl, Click
<1>1. ASSUME NEW mode \in Modes, ChooseTask(mode)
      PROVE  boxes = <<>> /\ UNCHANGED boxes
  BY <1>1 DEF ChooseTask
<1>2. ASSUME NEW c \in Companies, ChooseCompany(c)
      PROVE  boxes = <<>> /\ UNCHANGED boxes
  BY <1>2 DEF ChooseCompany
<1>3. ASSUME NEW d \in Datasets("forecast"), ChooseDataset(d)
      PROVE  boxes = <<>> /\ UNCHANGED boxes
  BY <1>3 DEF ChooseDataset
<1>4. CASE Refresh
  BY <1>4 DEF Refresh
<1>5. CASE \/ \E run \in 0..MaxRun : TypeRun(run)
           \/ \E p \in Parameters : SetParameters(p)
  BY <1>5 DEF TypeRun, SetParameters
<1>6. CASE \E o \in ClassificationOperations : PressOperation(o)
  BY <1>6 DEF PressOperation
<1>7. CASE \E o \in ForecastOperations : PressForecastOperation(o)
  BY <1>7 DEF PressForecastOperation
<1> QED
  BY <1>1, <1>2, <1>3, <1>4, <1>5, <1>6, <1>7 DEF DataUser

LEMMA DataReplyBoxes ==
  ASSUME NEW r, NEW ending, HandleReply(r, ending)
  PROVE  UNCHANGED boxes \/ Open("data error")
<1>1. CASE DropStale(r, ending)
  BY <1>1 DEF DropStale
<1>2. CASE HandleServiceError(r, ending)
  BY <1>2 DEF HandleServiceError
<1>3. CASE \E listed \in Listings : HandleCompanyList(r, ending, listed)
  BY <1>3 DEF HandleCompanyList, desktopVars
<1>4. CASE \E empty \in BOOLEAN : HandleSeries(r, ending, empty)
  BY <1>4 DEF HandleSeries
<1>5. CASE HandleClassification(r, ending)
  BY <1>5 DEF HandleClassification
<1> QED
  BY <1>1, <1>2, <1>3, <1>4, <1>5 DEF HandleReply

\* The page opens no box of another page, and its confirmation only when asked.
LEMMA DataBeside ==
  ASSUME DataNext, NEW box \in {"save?", "report file", "forecast file"},
         ~AskToSave \/ box # "save?"
  PROVE  Beside(box)
<1> USE DEF BoxNames
<1>1. CASE DataUser
  BY <1>1, DataControls DEF Beside, AskToSave, AskForChartFile, Click
<1>2. CASE DataBoxes
  BY <1>2 DEF DataBoxes, ConfirmSave, DeclineSave, CloseChartFile, CloseDataBox,
              Beside
<1>3. CASE DataReplies
  BY <1>3, DataReplyBoxes DEF DataReplies, Beside
<1>4. CASE DataServer
  BY <1>4 DEF DataServer, ServerStores, ServerRejects, desktopVars, Beside
<1> QED
  BY <1>1, <1>2, <1>3, <1>4 DEF DataNext

\* A step of another page leaves the page as it is, and its confirmation lowest.
LEMMA DataStays ==
  ASSUME DataInv, UNCHANGED dataVars, Beside("save?")
  PROVE  DataInv'
<1>1. DataState'
  BY DataStateStays DEF DataInv
<1>2. BoxesOK' /\ Lowest("save?")' /\ (Shown("save?")' => Shown("save?"))
  BY OtherBoxes DEF DataInv
<1>3. UNCHANGED <<busy, preview>>
  BY DEF dataVars
<1> QED
  BY <1>1, <1>2, <1>3 DEF DataInv, Nothing

LEMMA DataStep ==
  ASSUME DataInv, DataNext
  PROVE  DataInv'
<1>1. DataState'
  BY DataStateStep
<1>2. CASE AskToSave
  <2>1. boxes = <<>> /\ Open("save?") /\ ~busy /\ preview # Nothing
        /\ UNCHANGED <<busy, preview>>
    BY <1>2 DEF AskToSave, Click, dataVars
  <2>2. BoxesOK' /\ Lowest("save?")'
    BY <2>1, ClickOpens DEF BoxNames
  <2> QED
    BY <1>1, <2>1, <2>2 DEF DataInv, Nothing
<1>3. CASE ~AskToSave
  <2>1. Beside("save?")
    BY <1>3, DataBeside
  <2>2. BoxesOK' /\ Lowest("save?")' /\ (Shown("save?")' => Shown("save?"))
    BY <2>1, OtherBoxes DEF DataInv
  <2>3. CASE ~Shown("save?")
    BY <1>1, <2>2, <2>3 DEF DataInv
  <2>4. CASE Shown("save?")
    <3>1. ~busy /\ preview # Nothing /\ replies = {} /\ boxes # <<>>
      BY <2>4, NothingUnderWay, NoBoxes DEF DataInv
    <3>2. ~DataReplies
      BY <3>1 DEF DataReplies
    <3>3. ~DataUser
      BY <1>3, <3>1, DataControls DEF AskForChartFile, Click
    <3>4. CASE ConfirmSave \/ DeclineSave
      <4>1. ~Shown("save?")'
        BY <3>4, LowestCloses DEF ConfirmSave, DeclineSave, DataInv, BoxNames
      <4> QED
        BY <1>1, <2>2, <4>1 DEF DataInv
    <3>5. CASE CloseChartFile \/ CloseDataBox
      <4>1. UNCHANGED dataVars
        BY <3>5 DEF CloseChartFile, CloseDataBox
      <4> QED
        BY <2>1, <4>1, DataStays
    <3>6. CASE DataServer
      <4>1. UNCHANGED <<busy, preview>>
        BY <3>6 DEF DataServer, ServerStores, ServerRejects
      <4> QED
        BY <1>1, <2>2, <3>1, <4>1 DEF DataInv, Nothing
    <3> QED
      BY <3>2, <3>3, <3>4, <3>5, <3>6 DEF DataNext, DataBoxes
  <2> QED
    BY <2>3, <2>4
<1> QED
  BY <1>2, <1>3

LEMMA DataInit ==
  ASSUME DataPageInit, DesktopInit
  PROVE  DataInv
<1> DEFINE list == [key |-> CompanyList, post |-> FALSE, persist |-> FALSE,
                    subject |-> Nothing]
<1>1. list \in DataRequests /\ IsList(list) /\ replies = {list}
  BY NothingFields DEF DataRequests, CompanyList, IsList, DataPageInit
<1> HIDE DEF list
<1>2. DataTypeOK
  BY <1>1, NothingFields, EmptySeq DEF DataPageInit, DataTypeOK, Modes, Datasets
<1>3. OneReply /\ RepliesFit
  BY <1>1 DEF DataPageInit, OneReply, RepliesFit
<1>4. PreviewFits /\ ChartFits /\ EnteredRunIsOfTheSelection
  BY DEF DataPageInit, PreviewFits, ChartFits, ChartIsOfTheSelection,
         EnteredRunIsOfTheSelection
<1>5. BoxesOK /\ Lowest("save?") /\ ~Shown("save?")
  BY InitialBoxes
<1> QED
  BY <1>2, <1>3, <1>4, <1>5 DEF DataInv, DataState

-----------------------------------------------------------------------------
(* The trace page.                                                         *)

\* The page opens no box of another page, and its file dialog only when asked.
LEMMA TraceBeside ==
  ASSUME NEW box \in {"save?", "report file", "forecast file"},
         \/ RefuseSample \/ (\E sample \in Samples : StartTrace(sample))
         \/ TraceBoxes \/ TraceReplies
         \/ AskForReportFile /\ box # "report file"
  PROVE  Beside(box)
<1> USE DEF BoxNames
<1>1. CASE RefuseSample \/ \E sample \in Samples : StartTrace(sample)
  BY <1>1 DEF RefuseSample, StartTrace, Beside
<1>2. CASE AskForReportFile /\ box # "report file"
  BY <1>2 DEF AskForReportFile, Beside
<1>3. CASE TraceBoxes
  BY <1>3 DEF TraceBoxes, CancelReport, WriteReport, ReportFails, CloseTraceBox,
              Beside
<1>4. CASE TraceReplies
  BY <1>4 DEF TraceReplies, HandleTraceReady, HandleTraceError, Beside
<1> QED
  BY <1>1, <1>2, <1>3, <1>4

LEMMA TraceStays ==
  ASSUME TraceInv, UNCHANGED traceVars, Beside("report file")
  PROVE  TraceInv'
<1>1. BoxesOK' /\ Lowest("report file")' /\ (Shown("report file")' => Shown("report file"))
  BY OtherBoxes DEF TraceInv
<1>2. UNCHANGED <<traceBusy, lastResult, exportEnabled, reportName, report,
                  traceReplies>>
  BY DEF traceVars
<1> QED
  BY <1>1, <1>2 DEF TraceInv, ReportIsOneResult, ShowsTheLastSample, NoSample

\* The page waits for one reply at a time, and only while it has asked for no
\* file: nothing comes between the name of the file and its rows.
LEMMA TraceStep ==
  ASSUME TraceInv, TraceNext
  PROVE  TraceInv'
<1> DEFINE Boxes == /\ BoxesOK' /\ Lowest("report file")'
                    /\ Shown("report file")' => Shown("report file")
<1>1. boxes = <<>> => ~Shown("report file")
  BY NoBoxes
<1>2. CASE RefuseSample \/ CloseTraceBox
  <2>1. UNCHANGED traceVars /\ Beside("report file")
    BY <1>2, TraceBeside DEF RefuseSample, CloseTraceBox, TraceBoxes
  <2> QED
    BY <2>1, TraceStays
<1>3. ASSUME NEW sample \in Samples, StartTrace(sample)
      PROVE  TraceInv'
  <2>1. Boxes
    BY <1>3, TraceBeside, OtherBoxes DEF TraceInv
  <2>2. /\ ~traceBusy /\ traceReplies = {} /\ ~Shown("report file")
        /\ traceBusy' /\ traceReplies' = {Request(sample)}
        /\ lastResult' = NoSample /\ UNCHANGED report
    BY <1>1, <1>3 DEF StartTrace, Click, TraceInv
  <2> QED
    BY <2>1, <2>2 DEF TraceInv, ReportIsOneResult, ShowsTheLastSample, NoSample
<1>4. CASE AskForReportFile
  <2>1. BoxesOK' /\ Lowest("report file")'
    BY <1>4, ClickOpens DEF AskForReportFile, Click, BoxNames
  <2>2. /\ lastResult # NoSample /\ reportName' = lastResult
        /\ UNCHANGED <<traceBusy, lastResult, exportEnabled, report, traceReplies>>
    BY <1>4 DEF AskForReportFile
  <2> QED
    BY <2>1, <2>2 DEF TraceInv, ReportIsOneResult, ShowsTheLastSample, NoSample
<1>5. CASE CancelReport \/ WriteReport \/ ReportFails
  <2>1. /\ BoxesOK' /\ Lowest("report file")'
        /\ Shown("report file") /\ ~Shown("report file")'
    BY <1>5, LowestCloses
       DEF CancelReport, WriteReport, ReportFails, BoxNames, TraceInv
  <2>2. /\ UNCHANGED <<traceBusy, lastResult, exportEnabled, traceReplies>>
        /\ \/ UNCHANGED report
           \/ report' = [name |-> reportName, rows |-> lastResult]
    BY <1>5 DEF CancelReport, WriteReport, ReportFails
  <2>3. ReportIsOneResult'
    <3>1. reportName = lastResult /\ report.name = report.rows
      BY <2>1 DEF TraceInv, ReportIsOneResult
    <3>2. CASE UNCHANGED report
      BY <3>1, <3>2 DEF ReportIsOneResult
    <3>3. CASE report' = [name |-> reportName, rows |-> lastResult]
      BY <3>1, <3>3 DEF ReportIsOneResult
    <3> QED
      BY <2>2, <3>2, <3>3
  <2>4. ShowsTheLastSample'
    BY <2>2 DEF TraceInv, ShowsTheLastSample, NoSample
  <2> QED
    BY <2>1, <2>2, <2>3, <2>4 DEF TraceInv
<1>6. CASE TraceReplies
  <2>1. Boxes
    BY <1>6, TraceBeside, OtherBoxes DEF TraceInv
  <2>2. PICK r \in traceReplies, ending \in Endings :
          HandleTraceReady(r, ending) \/ HandleTraceError(r, ending)
    BY <1>6 DEF TraceReplies
  <2>3. traceReplies \ {r} = {} /\ ~Shown("report file")
    BY <2>2 DEF TraceInv
  <2>4. /\ ~traceBusy' /\ traceReplies' = {} /\ UNCHANGED report
        /\ lastResult' # NoSample => exportEnabled'
    BY <2>2, <2>3 DEF HandleTraceReady, HandleTraceError, TraceFinishes, NoSample
  <2> QED
    BY <2>1, <2>3, <2>4 DEF TraceInv, ReportIsOneResult, ShowsTheLastSample, NoSample
<1> QED
  BY <1>2, <1>3, <1>4, <1>5, <1>6 DEF TraceNext, TraceUser, TraceBoxes

LEMMA TraceInit ==
  ASSUME TracePageInit, DesktopInit
  PROVE  TraceInv
<1>1. BoxesOK /\ Lowest("report file") /\ ~Shown("report file")
  BY InitialBoxes
<1> QED
  BY <1>1 DEF TracePageInit, TraceInv, ReportIsOneResult, ShowsTheLastSample

-----------------------------------------------------------------------------
(* The prediction page.                                                    *)

LEMMA Keys == \A key : Ask(key).key = key
BY DEF Ask

\* The page opens no box of another page, and its file dialog only when asked.
LEMMA PredictionBeside ==
  ASSUME NEW box \in {"save?", "report file", "forecast file"},
         \/ FirstRefresh \/ PressRefresh \/ RefuseEnd \/ StartForecast
         \/ PredictionBoxes \/ PredictionReplies
         \/ AskForForecastFile /\ box # "forecast file"
  PROVE  Beside(box)
<1> USE DEF BoxNames
<1>1. CASE FirstRefresh \/ PressRefresh \/ RefuseEnd \/ StartForecast
  BY <1>1 DEF FirstRefresh, PressRefresh, RefuseEnd, StartForecast, desktopVars, Beside
<1>2. CASE AskForForecastFile /\ box # "forecast file"
  BY <1>2 DEF AskForForecastFile, Beside
<1>3. CASE PredictionBoxes
  BY <1>3 DEF PredictionBoxes, WriteForecast, ForecastNotWritten,
              ClosePredictionBox, Beside
<1>4. CASE PredictionReplies
  BY <1>4 DEF PredictionReplies, ModelReady, CompaniesReady, ShowForecast,
              PredictionError, Arrives, desktopVars, Beside
<1> QED
  BY <1>1, <1>2, <1>3, <1>4

LEMMA PredictionStays ==
  ASSUME PredictionInv, UNCHANGED predictionVars, Beside("forecast file")
  PROVE  PredictionInv'
<1>1. /\ BoxesOK' /\ Lowest("forecast file")'
      /\ Shown("forecast file")' => Shown("forecast file")
  BY OtherBoxes DEF PredictionInv
<1>2. UNCHANGED <<modelPending, companiesPending, loading, forecast, forecasts,
                  predictionReplies>>
  BY DEF predictionVars
<1> QED
  BY <1>1, <1>2 DEF PredictionInv, Resources, Ask

LEMMA OneForecast ==
  ASSUME PredictionInv
  PROVE  /\ PredictionPageKnowsItsRequests
         /\ \A r \in predictionReplies :
              r \in {Ask("forecastModel"), Ask("companyList"), Ask("forecast")}
<1>1. Ask("forecast") \notin Resources
  BY Keys DEF Resources
<1>2. predictionReplies \subseteq Resources \/ predictionReplies = {Ask("forecast")}
  BY DEF PredictionInv
<1>3. loading <=> predictionReplies = {Ask("forecast")}
  BY <1>1, <1>2 DEF PredictionInv
<1> QED
  BY <1>2, <1>3 DEF PredictionInv, PredictionPageKnowsItsRequests, Resources

LEMMA PredictionStep ==
  ASSUME PredictionInv, PredictionNext
  PROVE  PredictionInv'
<1> DEFINE Boxes == /\ BoxesOK' /\ Lowest("forecast file")'
                    /\ Shown("forecast file")' => Shown("forecast file")
<1>1. boxes = <<>> => ~Shown("forecast file")
  BY NoBoxes
<1>2. /\ forecasts \in Nat /\ forecast \in {0, forecasts}
      /\ loading => forecasts # 0
      /\ Shown("forecast file") => forecast # 0
  BY DEF PredictionInv
<1>3. Idle => predictionReplies = {} /\ ~loading
  BY DEF Idle, PredictionInv, Resources
<1>4. CASE RefuseEnd \/ ForecastNotWritten \/ ClosePredictionBox
  <2>1. UNCHANGED predictionVars /\ Beside("forecast file")
    BY <1>4, PredictionBeside
       DEF RefuseEnd, ForecastNotWritten, ClosePredictionBox, PredictionBoxes
  <2> QED
    BY <2>1, PredictionStays
<1>5. CASE FirstRefresh \/ PressRefresh
  <2>1. Boxes
    BY <1>5, PredictionBeside, OtherBoxes DEF PredictionInv
  <2>2. UNCHANGED <<loading, forecast, forecasts>>
    BY <1>5 DEF FirstRefresh, PressRefresh
  <2>3. CASE Idle
    <3>1. /\ modelPending' = TRUE /\ companiesPending' = TRUE
          /\ predictionReplies' = Resources
      BY <1>3, <1>5, <2>3
         DEF FirstRefresh, PressRefresh, RefreshResources, Resources
    <3>2. Ask("forecast") \notin Resources
      BY Keys DEF Resources
    <3> QED
      BY <1>2, <1>3, <2>1, <2>2, <2>3, <3>1, <3>2 DEF PredictionInv, Resources
  <2>4. CASE ~Idle
    <3>1. UNCHANGED <<modelPending, companiesPending, predictionReplies>>
      BY <1>5, <2>4 DEF FirstRefresh, PressRefresh, RefreshResources
    <3> QED
      BY <2>1, <2>2, <3>1 DEF PredictionInv, Resources
  <2> QED
    BY <2>3, <2>4
<1>6. CASE StartForecast
  <2>1. Boxes
    BY <1>6, PredictionBeside, OtherBoxes DEF PredictionInv
  <2>2. ~Shown("forecast file") /\ predictionReplies = {} /\ ~modelPending /\ ~companiesPending
    BY <1>1, <1>3, <1>6 DEF StartForecast, Click, MayPredict, Idle
  <2>3. /\ loading' = TRUE /\ forecast' = 0 /\ forecasts' = forecasts + 1
        /\ predictionReplies' = {Ask("forecast")}
        /\ UNCHANGED <<modelPending, companiesPending>>
    BY <1>6, <2>2 DEF StartForecast
  <2>4. /\ Ask("forecastModel") # Ask("forecast")
        /\ Ask("companyList") # Ask("forecast")
    BY Keys
  <2>5. forecasts' \in Nat /\ forecasts' # 0 /\ forecast' \in {0, forecasts'}
    <3>1. forecasts \in Nat /\ forecasts' = forecasts + 1 /\ forecast' = 0
      BY <1>2, <2>3
    <3> QED
      BY <3>1
  <2>6. /\ ~modelPending' /\ ~companiesPending' /\ loading'
        /\ Ask("forecastModel") \notin predictionReplies'
        /\ Ask("companyList") \notin predictionReplies'
        /\ Ask("forecast") \in predictionReplies'
    BY <2>2, <2>3, <2>4
  <2> QED
    BY <2>1, <2>2, <2>3, <2>5, <2>6 DEF PredictionInv
<1>7. CASE AskForForecastFile
  <2>1. BoxesOK' /\ Lowest("forecast file")'
    BY <1>7, ClickOpens DEF AskForForecastFile, Click, BoxNames
  <2>2. /\ forecast # 0
        /\ UNCHANGED <<modelPending, companiesPending, loading, forecast, forecasts,
                       predictionReplies>>
    BY <1>7 DEF AskForForecastFile, predictionVars
  <2> QED
    BY <2>1, <2>2 DEF PredictionInv, Resources
<1>8. CASE WriteForecast
  <2>1. Boxes
    BY <1>8, PredictionBeside, OtherBoxes DEF PredictionInv, PredictionBoxes
  <2>2. UNCHANGED <<modelPending, companiesPending, loading, forecast, forecasts,
                    predictionReplies>>
    BY <1>8 DEF WriteForecast
  <2> QED
    BY <2>1, <2>2 DEF PredictionInv, Resources
<1>9. CASE PredictionReplies
  <2>1. Boxes
    BY <1>9, PredictionBeside, OtherBoxes DEF PredictionInv
  <2>2. PICK r \in predictionReplies :
          \E ending \in Endings :
            \/ \E b \in BOOLEAN : \/ ModelReady(r, ending, b)
                                  \/ CompaniesReady(r, ending, b)
                                  \/ ShowForecast(r, ending, b)
            \/ PredictionError(r, ending)
    BY <1>9 DEF PredictionReplies
  <2>3. predictionReplies' = predictionReplies \ {r} /\ UNCHANGED forecasts
    BY <2>2 DEF ModelReady, CompaniesReady, ShowForecast, PredictionError, Arrives
  <2>4. \/ /\ r.key = "forecastModel" /\ ~modelPending'
           /\ UNCHANGED <<companiesPending, loading, forecast>>
        \/ /\ r.key = "companyList" /\ ~companiesPending'
           /\ UNCHANGED <<modelPending, loading, forecast>>
        \/ /\ r.key = "forecast" /\ ~loading'
           /\ UNCHANGED <<modelPending, companiesPending>>
           /\ forecast' \in {forecast, forecasts}
    BY <2>2 DEF ModelReady, CompaniesReady, ShowForecast, PredictionError
  <2>5. r = Ask(r.key)
    BY OneForecast, Keys
  <2>6. /\ r.key = "forecast" => loading /\ forecasts # 0
        /\ \A key : Ask(key) \in predictionReplies' <=>
                      Ask(key) \in predictionReplies /\ key # r.key
    BY <1>2, <2>3, <2>5, Keys DEF PredictionInv
  <2>7. predictionReplies' \subseteq Resources \/ predictionReplies' = {Ask("forecast")}
    <3>1. predictionReplies = {Ask("forecast")} => predictionReplies' = {}
      BY <2>3
    <3> QED
      BY <2>3, <3>1 DEF PredictionInv
  <2>8. /\ modelPending' <=> Ask("forecastModel") \in predictionReplies'
        /\ companiesPending' <=> Ask("companyList") \in predictionReplies'
        /\ loading' <=> Ask("forecast") \in predictionReplies'
    <3>1. /\ modelPending <=> Ask("forecastModel") \in predictionReplies
          /\ companiesPending <=> Ask("companyList") \in predictionReplies
          /\ loading <=> Ask("forecast") \in predictionReplies
      BY DEF PredictionInv
    <3>2. CASE r.key = "forecastModel"
      BY <2>4, <2>6, <3>1, <3>2
    <3>3. CASE r.key = "companyList"
      BY <2>4, <2>6, <3>1, <3>3
    <3>4. CASE r.key = "forecast"
      BY <2>4, <2>6, <3>1, <3>4
    <3> QED
      BY <2>4, <3>2, <3>3, <3>4
  <2>9. /\ forecasts' \in Nat /\ forecast' \in {0, forecasts'}
        /\ loading' => forecasts' # 0
        /\ Shown("forecast file")' => forecast' # 0
    <3>1. forecasts' = forecasts /\ (Shown("forecast file")' => Shown("forecast file"))
      BY <2>1, <2>3
    <3>2. \/ UNCHANGED <<loading, forecast>>
          \/ /\ r.key = "forecast" /\ ~loading'
             /\ forecast' \in {forecast, forecasts}
      BY <2>4
    <3>3. r.key = "forecast" => forecasts # 0
      BY <2>6
    <3>4. CASE UNCHANGED <<loading, forecast>>
      <4>1. loading' = loading /\ forecast' = forecast
        BY <3>4
      <4> QED
        BY <1>2, <3>1, <4>1
    <3>5. CASE r.key = "forecast" /\ ~loading' /\ forecast' \in {forecast, forecasts}
      <4>1. forecasts # 0
        BY <3>3, <3>5
      <4> QED
        BY <1>2, <3>1, <3>5, <4>1
    <3> QED
      BY <3>2, <3>4, <3>5
  <2> QED
    BY <2>1, <2>7, <2>8, <2>9 DEF PredictionInv, Resources
<1> QED
  BY <1>4, <1>5, <1>6, <1>7, <1>8, <1>9
     DEF PredictionNext, PredictionUser, PredictionBoxes

LEMMA PredictionInit ==
  ASSUME PredictionPageInit, DesktopInit
  PROVE  PredictionInv
<1>1. BoxesOK /\ Lowest("forecast file") /\ ~Shown("forecast file")
  BY InitialBoxes
<1> QED
  BY <1>1 DEF PredictionPageInit, PredictionInv

-----------------------------------------------------------------------------
(* The log page touches nothing of the other pages but the stack.          *)

LEMMA LogBeside ==
  ASSUME LogNext, NEW box \in {"save?", "report file", "forecast file"}
  PROVE  Beside(box)
<1> USE DEF BoxNames
<1>1. CASE OtherPartLogs \/ AutoRefresh \/ GitReplies
  BY <1>1 DEF OtherPartLogs, AutoRefresh, GitReplies, HandleGitCommits,
              HandleGitError, desktopVars, Beside
<1>2. CASE LogUser
  BY <1>2 DEF LogUser, PressRefreshLogs, ShowLogPage, TypeKeyword, ClearKeyword,
              Query, ChooseSource, AskForLogFile, Beside
<1>3. CASE LogBoxes
  BY <1>3 DEF LogBoxes, LogFileNotWritten, WriteLogFile, LogFileWritten,
              CloseLogBox, Beside
<1> QED
  BY <1>1, <1>2, <1>3 DEF LogNext

-----------------------------------------------------------------------------
(* The client.                                                             *)

ClientInv == DataInv /\ TraceInv /\ PredictionInv

LEMMA ClientInit ==
  ASSUME Init
  PROVE  ClientInv
BY DataInit, TraceInit, PredictionInit DEF Init, ClientInv

\* Every step is one of a page, which leaves the others to their variables.
LEMMA ClientStep ==
  ASSUME ClientInv, [Next]_vars
  PROVE  ClientInv'
<1> USE DEF ClientInv
<1>1. CASE Data
  <2>1. DataNext /\ UNCHANGED <<traceVars, predictionVars>>
    BY <1>1 DEF Data
  <2>2. Beside("report file") /\ Beside("forecast file")
    BY <2>1, DataBeside
  <2> QED
    BY <2>1, <2>2, DataStep, TraceStays, PredictionStays
<1>2. CASE Trace
  <2>1. TraceNext /\ UNCHANGED <<dataVars, predictionVars>>
    BY <1>2 DEF Trace
  <2>2. Beside("save?") /\ Beside("forecast file")
    BY <2>1, TraceBeside DEF TraceNext, TraceUser
  <2> QED
    BY <2>1, <2>2, DataStays, TraceStep, PredictionStays
<1>3. CASE Prediction
  <2>1. PredictionNext /\ UNCHANGED <<dataVars, traceVars>>
    BY <1>3 DEF Prediction
  <2>2. Beside("save?") /\ Beside("report file")
    BY <2>1, PredictionBeside DEF PredictionNext, PredictionUser
  <2> QED
    BY <2>1, <2>2, DataStays, TraceStays, PredictionStep
<1>4. CASE Logs
  <2>1. LogNext /\ UNCHANGED <<dataVars, traceVars, predictionVars>>
    BY <1>4 DEF Logs
  <2>2. Beside("save?") /\ Beside("report file") /\ Beside("forecast file")
    BY <2>1, LogBeside
  <2> QED
    BY <2>1, <2>2, DataStays, TraceStays, PredictionStays
<1>5. CASE Quiet \/ UNCHANGED vars
  <2>1. UNCHANGED <<desktopVars, dataVars, traceVars, predictionVars>>
    BY <1>5 DEF Quiet, vars
  <2>2. Beside("save?") /\ Beside("report file") /\ Beside("forecast file")
    BY <2>1 DEF desktopVars, Beside
  <2> QED
    BY <2>1, <2>2, DataStays, TraceStays, PredictionStays
<1> QED
  BY <1>1, <1>2, <1>3, <1>4, <1>5 DEF Next

LEMMA Invariance == Spec => []ClientInv
<1>1. Init => ClientInv
  BY ClientInit
<1>2. ClientInv /\ [Next]_vars => ClientInv'
  BY ClientStep
<1> QED
  BY <1>1, <1>2, PTL DEF Spec

-----------------------------------------------------------------------------
(* What it means.                                                          *)

LEMMA AtMostOne ==
  ASSUME NEW S, \A r, s \in S : r = s
  PROVE  Cardinality(S) <= 1
<1>1. CASE S = {}
  BY <1>1, FS_EmptySet
<1>2. ASSUME NEW r \in S
      PROVE  Cardinality(S) = 1
  <2>1. S = {r}
    BY <1>2
  <2> QED
    BY <2>1, FS_Singleton
<1> QED
  BY <1>1, <1>2

LEMMA RequestsAreKnown ==
  ASSUME ClientInv
  PROVE  PagesKnowTheirRequests
<1>1. DataPageWaitsForOne
  <2>1. Cardinality(replies) <= 1
    BY AtMostOne DEF ClientInv, DataInv, DataState, OneReply
  <2>2. \A r \in replies : ~Stale(r)
    BY OnlyReply DEF ClientInv, DataInv
  <2> QED
    BY <2>1, <2>2 DEF DataPageWaitsForOne, ClientInv, DataInv, DataState, OneReply
<1>2. TracePageWaitsForOne
  <2>1. Cardinality(traceReplies) <= 1
    BY AtMostOne DEF ClientInv, TraceInv
  <2> QED
    BY <2>1 DEF TracePageWaitsForOne, ClientInv, TraceInv
<1>3. PredictionPageKnowsItsRequests
  BY OneForecast DEF ClientInv
<1> QED
  BY <1>1, <1>2, <1>3 DEF PagesKnowTheirRequests

\* However many companies, settings and clicks there are, and whichever boxes
\* are open when a reply or a timer arrives: no page of the client waits for
\* two results, or for none, at a time.
THEOREM ClientKnowsItsRequests == Spec => []PagesKnowTheirRequests
<1>1. ClientInv => PagesKnowTheirRequests
  BY RequestsAreKnown
<1> QED
  BY <1>1, Invariance, PTL

\* The chart that can be saved and the version number entered by the page are
\* always those of the company and dataset selected (datapage.cpp).
THEOREM ClientHonoursSelection == Spec => []SelectionIsHonoured
<1>1. ClientInv => SelectionIsHonoured
  BY DEF ClientInv, DataInv, DataState, ChartFits, SelectionIsHonoured
<1> QED
  BY <1>1, Invariance, PTL

\* A file the trace or the prediction page exports is of one result, although
\* replies and other boxes arrive while its dialog is open.
THEOREM ClientExportsOneResult == Spec => []ExportsAreOneResult
<1>1. ClientInv => ExportsAreOneResult
  <2>1. ASSUME ClientInv
        PROVE  ExportsTheLastForecast
    <3>1. boxes # <<>> => Shown(Head(boxes))
      BY <2>1, Topmost DEF ClientInv, DataInv
    <3> QED
      BY <2>1, <3>1 DEF ClientInv, PredictionInv, ExportsTheLastForecast
  <2> QED
    BY <2>1 DEF ClientInv, TraceInv, ExportsAreOneResult
<1> QED
  BY <1>1, Invariance, PTL

\* Whatever else the page sends is not stored.
LEMMA SendsToRead ==
  ASSUME NEW open \in SUBSET replies, NEW subject, NEW post,
         Send(open, subject, post, FALSE)
  PROVE  \A r \in replies' \ replies : ~r.persist
BY DEF Send

LEMMA OtherStepsSaveNothing ==
  ASSUME DataNext, ~ConfirmSave
  PROVE  \A r \in replies' \ replies : ~r.persist
<1> DEFINE SavesNothing == \A r \in replies' \ replies : ~r.persist
<1>1. ASSUME NEW c, NEW d, LoadOverview(c, d)
      PROVE  SavesNothing
  <2>1. CASE c = NoCompany
    BY <1>1, <2>1 DEF LoadOverview, serviceVars
  <2>2. CASE c # NoCompany
    BY <1>1, <2>2, SendsToRead DEF LoadOverview, RequestOverview
  <2> QED
    BY <2>1, <2>2
<1>2. CASE DataUser
  <2>1. ASSUME NEW mode \in Modes, ChooseTask(mode)
        PROVE  SavesNothing
    BY <1>1, <2>1 DEF ChooseTask, serviceVars
  <2>2. ASSUME NEW c \in Companies, ChooseCompany(c)
        PROVE  SavesNothing
    BY <1>1, <2>2 DEF ChooseCompany
  <2>3. ASSUME NEW d \in Datasets("forecast"), ChooseDataset(d)
        PROVE  SavesNothing
    BY <1>1, <2>3 DEF ChooseDataset
  <2>4. CASE Refresh
    BY <1>1, <2>4 DEF Refresh
  <2>5. ASSUME NEW o \in ClassificationOperations, PressOperation(o)
        PROVE  SavesNothing
    BY <2>5, SendsToRead DEF PressOperation, RunClassification, serviceVars
  <2>6. ASSUME NEW o \in ForecastOperations, PressForecastOperation(o)
        PROVE  SavesNothing
    BY <2>6, SendsToRead DEF PressForecastOperation
  <2>7. CASE \/ \E run \in 0..MaxRun : TypeRun(run)
             \/ \E p \in Parameters : SetParameters(p)
             \/ AskToSave \/ AskForChartFile
    BY <2>7 DEF TypeRun, SetParameters, AskToSave, AskForChartFile, dataVars,
                serviceVars
  <2> QED
    BY <1>2, <2>1, <2>2, <2>3, <2>4, <2>5, <2>6, <2>7 DEF DataUser
<1>3. CASE DataReplies
  <2>1. PICK r \in replies, ending \in Endings : HandleReply(r, ending)
    BY <1>3 DEF DataReplies
  <2>2. ASSUME NEW listed \in Listings, HandleCompanyList(r, ending, listed)
        PROVE  SavesNothing
    <3>1. CASE company' = NoCompany
      BY <2>2, <3>1 DEF HandleCompanyList
    <3>2. CASE company' # NoCompany
      BY <2>2, <3>2, SendsToRead DEF HandleCompanyList, RequestOverview
    <3> QED
      BY <3>1, <3>2
  <2>3. CASE ~\E listed \in Listings : HandleCompanyList(r, ending, listed)
    BY <2>1, <2>3 DEF HandleReply, DropStale, HandleServiceError, HandleSeries,
                      HandleClassification, Finishes
  <2> QED
    BY <2>2, <2>3
<1>4. CASE DataServer
  BY <1>4 DEF DataServer, ServerStores, ServerRejects, serviceVars
<1>5. CASE DataBoxes
  BY <1>5 DEF DataBoxes, DeclineSave, CloseChartFile, CloseDataBox, dataVars,
              serviceVars
<1> QED
  BY <1>2, <1>3, <1>4, <1>5 DEF DataNext

\* Only a confirmed save sends a request that stores, and it repeats the
\* preview on the screen, whatever was typed into the inputs since.
THEOREM ClientSavesWhatItShows == Spec => SavesRepeatTheScreen
<1> DEFINE Repeats == \A r \in replies' \ replies :
              r.persist => /\ r.subject = table /\ r.subject.operation \in Previewed
                           /\ r.subject.company = company
                           /\ r.subject.dataset = dataset
<1>1. ASSUME ClientInv, [Next]_vars
      PROVE  [Repeats]_dataVars
  <2>1. CASE Data
    <3>1. DataInv /\ DataNext
      BY <1>1, <2>1 DEF Data, ClientInv
    <3>2. CASE ConfirmSave
      <4>1. /\ \A r \in replies' : r.persist => r.subject = preview
            /\ table = preview /\ preview # Nothing
        BY <3>1, <3>2, SaveConfirmed
      <4>2. /\ preview.operation \in Previewed
            /\ preview.company = company /\ preview.dataset = dataset
        BY <3>1, <4>1 DEF DataInv, DataState, PreviewFits
      <4> QED
        BY <4>1, <4>2
    <3>3. CASE ~ConfirmSave
      BY <3>1, <3>3, OtherStepsSaveNothing
    <3> QED
      BY <3>2, <3>3
  <2>2. CASE ~Data
    BY <1>1, <2>2 DEF Next, Trace, Prediction, Logs, Quiet, vars
  <2> QED
    BY <2>1, <2>2
<1>2. Spec => [][Repeats]_dataVars
  BY <1>1, Invariance, PTL DEF Spec
<1> QED
  BY <1>2 DEF SavesRepeatTheScreen

-----------------------------------------------------------------------------
(* The log page: its table tells the log.                                  *)

\* Entries as the page keeps them; the table and the label are what the last
\* handler made of them.
LogInv ==
  /\ clock \in Int
  /\ logFile \in Seq(LogEntries)
  /\ runtimeEntries \in Seq(LogEntries)
  /\ githubEntries \in Seq(LogEntries)
  /\ logTable = Fill(runtimeEntries, githubEntries, sourceBox, keywordApplied)
  /\ statusLabel = Status(runtimeEntries, githubEntries, gitLoading, gitError,
                          Len(logTable))

\* Newest first, and first come first among equals: a strict total order on the
\* positions of any entries.
LEMMA NewestFirstOrders ==
  ASSUME NEW s \in Seq(LogEntries), NEW I \in SUBSET DOMAIN s
  PROVE  /\ Orders(NewestFirst(s), I)
         /\ \A i, j \in I : <<i, j>> \in NewestFirst(s) => s[i].time >= s[j].time
<1>1. ASSUME NEW i \in I
      PROVE  i \in Int /\ i \in DOMAIN s /\ s[i].time \in Int
  <2>1. i \in 1..Len(s) /\ i \in DOMAIN s /\ s[i] \in LogEntries
    OBVIOUS
  <2> QED
    BY <2>1 DEF LogEntries
<1>2. \A i, j \in I : <<i, j>> \in NewestFirst(s)
                        <=> \/ s[i].time > s[j].time
                            \/ s[i].time = s[j].time /\ i < j
  BY <1>1 DEF NewestFirst
<1> QED
  BY <1>1, <1>2 DEF Orders

FillOrder(all, source, keyword) ==
  Arranged(Passing(all, source, keyword), NewestFirst(all))

\* What Fill() does in terms of the positions it chooses.
LEMMA Filled ==
  ASSUME NEW r \in Seq(LogEntries), NEW g \in Seq(LogEntries),
         NEW source, NEW keyword
  PROVE  LET all  == r \o g
             I    == Passing(all, source, keyword)
             o    == FillOrder(all, source, keyword)
             n    == Cardinality(I)
         IN  /\ all \in Seq(LogEntries)
             /\ IsFiniteSet(I) /\ n \in Nat
             /\ o \in [1..n -> I]
             /\ \A i \in I : \E k \in 1..n : o[k] = i
             /\ \A i, j \in 1..n : o[i] = o[j] => i = j
             /\ \A i, j \in 1..n : i < j => all[o[i]].time >= all[o[j]].time
             /\ Fill(r, g, source, keyword) = [k \in 1..n |-> all[o[k]]]
             /\ Fill(r, g, source, keyword) \in Seq(LogEntries)
             /\ Len(Fill(r, g, source, keyword)) = n
<1> DEFINE all == r \o g
           I   == Passing(all, source, keyword)
           o   == FillOrder(all, source, keyword)
           n   == Cardinality(I)
<1>1. all \in Seq(LogEntries)
  OBVIOUS
<1>2. I \in SUBSET DOMAIN all /\ DOMAIN all = 1..Len(all) /\ Len(all) \in Nat
  BY <1>1 DEF Passing
<1>3. IsFiniteSet(I)
  <2>1. I \in SUBSET (1..Len(all)) /\ IsFiniteSet(1..Len(all))
    BY <1>2, FS_Interval
  <2> HIDE DEF I
  <2> QED
    BY <2>1, FS_Subset
<1>4. /\ n \in Nat /\ o \in [1..n -> I]
      /\ \A i \in I : \E k \in 1..n : o[k] = i
      /\ \A i, j \in 1..n : o[i] = o[j] => i = j
      /\ \A i, j \in 1..n : i < j => <<o[i], o[j]>> \in NewestFirst(all)
  BY <1>1, <1>2, <1>3, NewestFirstOrders, ArrangedIsSorted DEF FillOrder
<1>5. \A i, j \in 1..n : i < j => all[o[i]].time >= all[o[j]].time
  <2>1. \A i, j \in I : <<i, j>> \in NewestFirst(all) => all[i].time >= all[j].time
    BY <1>1, <1>2, NewestFirstOrders
  <2> HIDE DEF all, I, o, n
  <2> QED
    BY <1>4, <2>1
<1>6. Fill(r, g, source, keyword) = [k \in DOMAIN o |-> all[o[k]]]
  BY DEF Fill, FillOrder
<1> HIDE DEF o, n, I
<1>7. DOMAIN o = 1..n
  BY <1>4
<1>8. Fill(r, g, source, keyword) = [k \in 1..n |-> all[o[k]]]
  BY <1>6, <1>7
<1>9. \A k \in 1..n : all[o[k]] \in LogEntries
  BY <1>1, <1>2, <1>4
<1>10. Fill(r, g, source, keyword) \in Seq(LogEntries)
  <2>1. Fill(r, g, source, keyword) \in [1..n -> LogEntries]
    BY <1>8, <1>9
  <2> QED
    BY <1>4, <2>1
<1>11. Len(Fill(r, g, source, keyword)) = n
  BY <1>4, <1>8, <1>10
<1> QED
  BY <1>1, <1>3, <1>4, <1>5, <1>8, <1>10, <1>11 DEF o, n, I

LEMMA SameSize ==
  ASSUME NEW S, NEW T, IsFiniteSet(S), NEW f \in [S -> T],
         \A x, y \in S : f[x] = f[y] => x = y,
         \A t \in T : \E x \in S : f[x] = t
  PROVE  IsFiniteSet(T) /\ Cardinality(T) = Cardinality(S)
<1>1. f \in Bijection(S, T)
  BY DEF Bijection, Injection, Surjection, IsInjective
<1> QED
  BY <1>1, FS_Bijection DEF ExistsBijection

\* The entries of one time.
At(s, time) == {i \in DOMAIN s : s[i].time = time}

\* The rows of one time are, in their order, the entries of that time that pass.
LEMMA RowsOfOneTime ==
  ASSUME NEW r \in Seq(LogEntries), NEW g \in Seq(LogEntries),
         NEW source, NEW keyword, NEW time
  PROVE  LET all  == r \o g
             rows == Fill(r, g, source, keyword)
         IN  AtPositions(rows, At(rows, time)) =
               AtPositions(all, At(all, time) \cap Passing(all, source, keyword))
<1> DEFINE all == r \o g
           rows == Fill(r, g, source, keyword)
           P == Passing(all, source, keyword)
           o == FillOrder(all, source, keyword)
           n == Cardinality(P)
           K == At(rows, time)
           I == At(all, time) \cap P
           f == [k \in K |-> o[k]]
           m == Cardinality(K)
           a == Arranged(K, Ascending(K))
           b == Arranged(I, Ascending(I))
           c == [j \in 1..m |-> o[a[j]]]
<1>1. all \in Seq(LogEntries) /\ IsFiniteSet(P) /\ n \in Nat
  <2>1. all \in Seq(LogEntries) BY Filled
  <2>2. IsFiniteSet(P) BY Filled
  <2>3. n \in Nat BY Filled
  <2> QED BY <2>1, <2>2, <2>3
<1>2. /\ o \in [1..n -> P]
      /\ \A i \in P : \E k \in 1..n : o[k] = i
      /\ \A i, j \in 1..n : o[i] = o[j] => i = j
  <2>1. o \in [1..n -> P] BY Filled
  <2>2. \A i \in P : \E k \in 1..n : o[k] = i  BY Filled
  <2>3. \A i, j \in 1..n : o[i] = o[j] => i = j BY Filled
  <2> QED BY <2>1, <2>2, <2>3
<1>3. \A i, j \in 1..n : i < j => <<o[i], o[j]>> \in NewestFirst(all)
  <2>1. P \in SUBSET DOMAIN all
    BY DEF Passing
  <2>2. Orders(NewestFirst(all), P)
    BY <1>1, <2>1, NewestFirstOrders
  <2> QED BY <1>1, <2>2, ArrangedIsSorted DEF FillOrder
<1>4. rows = [k \in 1..n |-> all[o[k]]]
  BY Filled
<1>5. P \subseteq Int /\ P \subseteq DOMAIN all
  <2>1. DOMAIN all = 1..Len(all) /\ Len(all) \in Nat
    BY <1>1
  <2> HIDE DEF all
  <2> QED BY <2>1 DEF Passing
<1> HIDE DEF all, rows, P, o, n
<1>6. /\ DOMAIN rows = 1..n
      /\ \A k \in 1..n : rows[k] = all[o[k]]
  BY <1>4
<1>7. K \subseteq 1..n /\ I \subseteq P
  BY <1>6 DEF At
<1>8. \A k \in 1..n : k \in K <=> o[k] \in I
  BY <1>2, <1>5, <1>6 DEF At
<1>9. IsFiniteSet(K) /\ IsFiniteSet(I) /\ K \subseteq Int /\ I \subseteq Int
  <2>1. IsFiniteSet(1..n)
    BY <1>1, FS_Interval
  <2>2. K \in SUBSET (1..n) /\ I \in SUBSET P
    BY <1>7
  <2>3. 1..n \subseteq Int
    OBVIOUS
  <2> HIDE DEF K, I
  <2>4. IsFiniteSet(K)
    BY <2>1, <2>2, FS_Subset
  <2>5. IsFiniteSet(I)
    BY <1>1, <2>2, FS_Subset
  <2> QED BY <1>5, <2>2, <2>3, <2>4, <2>5
<1>10. Cardinality(I) = m
  <2>1. f \in [K -> I]
    BY <1>7, <1>8
  <2>2. \A j, k \in K : f[j] = f[k] => j = k
    BY <1>2, <1>7
  <2>3. ASSUME NEW i \in I
        PROVE  \E k \in K : f[k] = i
    <3>1. PICK k \in 1..n : o[k] = i
      BY <1>2, <1>7
    <3> QED BY <1>8, <3>1
  <2> HIDE DEF f, K, I
  <2> QED BY <1>9, <2>1, <2>2, <2>3, SameSize
<1>11. /\ m \in Nat /\ a \in [1..m -> K]
       /\ \A i, j \in 1..m : i < j => <<a[i], a[j]>> \in Ascending(K)
  <2> HIDE DEF K
  <2>1. Orders(Ascending(K), K)
    BY <1>9, AscendingOrders
  <2> QED BY <1>9, <2>1, ArrangedIsSorted
<1> HIDE DEF a, m
<1>12. c \in [1..m -> I]
  BY <1>7, <1>8, <1>11
<1>13. ASSUME NEW i \in 1..m, NEW j \in 1..m, i < j
       PROVE  <<c[i], c[j]>> \in Ascending(I)
  <2>1. a[i] \in K /\ a[j] \in K /\ a[i] < a[j]
    <3> HIDE DEF K
    <3>1. <<a[i], a[j]>> \in Ascending(K)
      BY <1>11, <1>13
    <3> QED BY <1>11, <3>1 DEF Ascending
  <2>2. <<o[a[i]], o[a[j]]>> \in NewestFirst(all)
    BY <1>3, <1>7, <2>1
  <2>3. all[o[a[i]]].time = time /\ all[o[a[j]]].time = time
    BY <1>6, <1>7, <2>1 DEF At
  <2>4. time \in Int
    <3>1. o[a[i]] \in DOMAIN all
      BY <1>2, <1>5, <1>7, <2>1
    <3>2. all[o[a[i]]] \in LogEntries
      BY <1>1, <3>1, ElementOfSeq
    <3> QED BY <2>3, <3>2 DEF LogEntries
  <2>5. o[a[i]] < o[a[j]]
    BY <2>2, <2>3, <2>4 DEF NewestFirst
  <2>6. c[i] \in I /\ c[j] \in I
    BY <1>12
  <2> HIDE DEF I
  <2> QED BY <2>5, <2>6 DEF Ascending
<1>14. c = b
  <2>1. Orders(Ascending(I), I)
    <3> HIDE DEF I
    <3> QED BY <1>9, AscendingOrders
  <2> HIDE DEF c, I
  <2> QED BY <1>9, <1>10, <1>12, <1>13, <2>1, ArrangedIsUnique
<1>15. AtPositions(rows, K) = [j \in DOMAIN a |-> rows[a[j]]]
  BY DEF AtPositions, a
<1>16. AtPositions(all, I) = [j \in DOMAIN b |-> all[b[j]]]
  BY DEF AtPositions
<1>17. \A j \in 1..m : rows[a[j]] = all[c[j]]
  BY <1>6, <1>7, <1>11
<1>18. DOMAIN a = 1..m /\ DOMAIN c = 1..m
  BY <1>11, <1>12
<1> HIDE DEF b, c, K, I
<1>19. AtPositions(all, I) = [j \in 1..m |-> all[c[j]]]
  BY <1>14, <1>16, <1>18
<1>20. AtPositions(rows, K) = [j \in 1..m |-> all[c[j]]]
  BY <1>15, <1>17, <1>18
<1> QED BY <1>19, <1>20 DEF K, I, all, rows, P

LEMMA LogInit ==
  ASSUME LogPageInit
  PROVE  LogInv
<1>1. Entry(0, FALSE) \in LogEntries
  BY DEF Entry, LogEntries
<1>2. <<Entry(0, FALSE)>> \in Seq(LogEntries) /\ <<>> \in Seq(LogEntries)
  <2>1. ASSUME NEW e \in LogEntries
        PROVE  <<e>> \in Seq(LogEntries)
    OBVIOUS
  <2>2. <<>> \in Seq(LogEntries)
    OBVIOUS
  <2> QED BY <1>1, <2>1, <2>2, Zenon
<1>3. logFile = <<Entry(0, FALSE)>> /\ runtimeEntries = logFile /\ githubEntries = <<>>
  BY Zenon DEF LogPageInit
<1>4. /\ logFile \in Seq(LogEntries) /\ runtimeEntries \in Seq(LogEntries)
      /\ githubEntries \in Seq(LogEntries)
  BY <1>2, <1>3, Zenon
<1>5. clock \in Int
  <2>1. clock = 0
    BY Zenon DEF LogPageInit
  <2> QED BY <2>1
<1>6. keywordEdit = keywordApplied
  BY Zenon DEF LogPageInit
<1>7. logTable = Fill(runtimeEntries, githubEntries, sourceBox, keywordApplied)
  <2>1. logTable = Fill(runtimeEntries, githubEntries, sourceBox, keywordEdit)
    BY Zenon DEF LogPageInit
  <2> QED BY <1>6, <2>1, Zenon
<1>8. statusLabel = Status(runtimeEntries, githubEntries, gitLoading, gitError,
                           Len(logTable))
  BY Zenon DEF LogPageInit
<1> QED
  BY <1>4, <1>5, <1>7, <1>8, Zenon DEF LogInv

\* Writing to the log, and reading its end, keeps it a log.
LEMMA Logged ==
  ASSUME LogInv, NEW found \in BOOLEAN, Log(found)
  PROVE  clock' \in Int /\ logFile' \in Seq(LogEntries)
<1>1. PICK time \in {clock, clock + 1} \cap 0..MaxTime, kept \in Rotated(logFile),
           open \in BOOLEAN :
        /\ clock' = time
        /\ logFile' = IF open THEN Append(kept, Entry(time, found)) ELSE kept
  BY DEF Log
<1>2. clock' \in Int /\ Entry(time, found) \in LogEntries
  BY <1>1 DEF LogInv, Entry, LogEntries
<1>3. kept \in Seq(LogEntries)
  <2>1. kept \in {<<>>, logFile}
    BY DEF Rotated
  <2>2. logFile \in Seq(LogEntries)
    BY Zenon DEF LogInv
  <2>3. <<>> \in Seq(LogEntries)
    OBVIOUS
  <2> QED BY <2>1, <2>2, <2>3
<1>4. Append(kept, Entry(time, found)) \in Seq(LogEntries)
  BY <1>2, <1>3
<1> QED
  BY <1>1, <1>2, <1>3, <1>4

LEMMA Loaded ==
  ASSUME NEW file \in Seq(LogEntries), NEW recent \in LoadRecent(file)
  PROVE  recent \in Seq(LogEntries)
<1>1. RecentLimit \in Nat \ {0}
  BY LogPageAssumption
<1>2. ASSUME Len(file) > RecentLimit
      PROVE  SubSeq(file, Len(file) - RecentLimit + 1, Len(file)) \in Seq(LogEntries)
  <2>1. \A i \in Len(file) - RecentLimit + 1..Len(file) : file[i] \in LogEntries
    BY <1>1, <1>2
  <2> QED
    BY <1>1, <1>2, <2>1
<1>3. \/ recent = <<>>
      \/ recent = file
      \/ /\ Len(file) > RecentLimit
         /\ recent = SubSeq(file, Len(file) - RecentLimit + 1, Len(file))
  BY <1>1 DEF LoadRecent
<1>4. <<>> \in Seq(LogEntries)
  OBVIOUS
<1> QED
  BY <1>2, <1>3, <1>4

\* A handler that ends by filling the table leaves it, and the label, right.
LEMMA Rebuilt ==
  ASSUME Rebuild, clock' \in Int, logFile' \in Seq(LogEntries),
         runtimeEntries' \in Seq(LogEntries), githubEntries' \in Seq(LogEntries)
  PROVE  LogInv'
BY DEF Rebuild, LogInv

LEMMA LogStays ==
  ASSUME LogInv, UNCHANGED <<runtimeEntries, githubEntries, sourceBox,
                             keywordApplied, logTable, statusLabel, gitLoading,
                             gitError>>,
         clock' \in Int, logFile' \in Seq(LogEntries)
  PROVE  LogInv'
BY DEF LogInv

LEMMA LogStep ==
  ASSUME LogInv, LogNext
  PROVE  LogInv'
<1> USE DEF LogInv
<1>1. CASE OtherPartLogs
  <2>1. Log(TRUE)
    BY <1>1 DEF OtherPartLogs
  <2>2. clock' \in Int /\ logFile' \in Seq(LogEntries)
    BY <2>1, Logged
  <2> QED
    BY <1>1, <2>2, LogStays DEF OtherPartLogs
<1>2. CASE AutoRefresh \/ PressRefreshLogs
  <2>1. RefreshLogs
    BY <1>2 DEF AutoRefresh, PressRefreshLogs
  <2> QED
    BY <2>1, Loaded, Rebuilt DEF RefreshLogs
<1>3. CASE ShowLogPage \/ LogFileWritten
  BY <1>3, Loaded, Rebuilt DEF ShowLogPage, LogFileWritten
<1>4. ASSUME NEW commits \in CommitLists, HandleGitCommits(commits)
      PROVE  LogInv'
  <2>1. Log(FALSE) /\ Rebuild /\ runtimeEntries' \in LoadRecent(logFile')
        /\ githubEntries' = commits
    BY <1>4 DEF HandleGitCommits
  <2>2. clock' \in Int /\ logFile' \in Seq(LogEntries)
    BY <2>1, Logged
  <2>3. commits \in Seq(LogEntries)
    BY LogPageAssumption
  <2> QED
    BY <2>1, <2>2, <2>3, Loaded, Rebuilt
<1>5. CASE HandleGitError
  <2>1. Log(FALSE) /\ Rebuild /\ runtimeEntries' \in LoadRecent(logFile')
        /\ githubEntries' = githubEntries
    BY <1>5 DEF HandleGitError
  <2>2. clock' \in Int /\ logFile' \in Seq(LogEntries)
    BY <2>1, Logged
  <2> QED
    BY <2>1, <2>2, Loaded, Rebuilt
<1>6. ASSUME NEW source, ChooseSource(source)
      PROVE  LogInv'
  BY <1>6, Rebuilt DEF ChooseSource
<1>7. CASE ClearKeyword \/ Query
  BY <1>7, Rebuilt DEF ClearKeyword, Query
<1>8. CASE TypeKeyword
  BY <1>8, LogStays DEF TypeKeyword
<1>9. CASE AskForLogFile \/ LogFileNotWritten \/ CloseLogBox
  BY <1>9, LogStays DEF AskForLogFile, LogFileNotWritten, CloseLogBox, logVars
<1>10. CASE WriteLogFile
  <2>1. Log(FALSE)
    BY <1>10 DEF WriteLogFile
  <2>2. clock' \in Int /\ logFile' \in Seq(LogEntries)
    BY <2>1, Logged
  <2> QED
    BY <1>10, <2>2, LogStays DEF WriteLogFile
<1> QED
  BY <1>1, <1>2, <1>3, <1>4, <1>5, <1>6, <1>7, <1>8, <1>9, <1>10
     DEF LogNext, LogUser, LogBoxes, GitReplies

\* In every state of the invariant the table and the label are what they should.
LEMMA TableIsTold ==
  ASSUME LogInv
  PROVE  TableTellsTheLog
<1> USE DEF LogInv
<1> DEFINE all == runtimeEntries \o githubEntries
           I   == Passing(all, sourceBox, keywordApplied)
           o   == FillOrder(all, sourceBox, keywordApplied)
           n   == Cardinality(I)
<1>1. logTable = [k \in 1..n |-> all[o[k]]]
  BY Filled
<1>2. \A i, j \in 1..n : i < j => all[o[i]].time >= all[o[j]].time
  BY Filled
<1>3. o \in [1..n -> I]
  BY Filled
<1> HIDE DEF all, o, n
<1>4. DOMAIN logTable = 1..n /\ \A k \in 1..n : logTable[k] = all[o[k]]
  BY <1>1
<1>5. \A i, j \in DOMAIN logTable : i < j => logTable[i].time >= logTable[j].time
  BY <1>2, <1>4
<1>6. \A k \in DOMAIN logTable : \E i \in DOMAIN all : logTable[k].time = all[i].time
  BY <1>3, <1>4 DEF Passing
<1>7. \A time : AtPositions(logTable, At(logTable, time)) =
                  AtPositions(all, At(all, time) \cap Passing(all, sourceBox, keywordApplied))
  BY RowsOfOneTime DEF all
<1> HIDE DEF LogInv
<1>8. statusLabel = Status(runtimeEntries, githubEntries, gitLoading, gitError,
                           Len(logTable))
  BY DEF LogInv
<1> QED
  BY <1>5, <1>6, <1>7, <1>8 DEF TableTellsTheLog, At, all

LEMMA LogInvariance == Spec => []LogInv
<1>1. Init => LogInv
  BY LogInit DEF Init
<1>2. LogInv /\ [Next]_vars => LogInv'
  <2> SUFFICES ASSUME LogInv, [Next]_vars
               PROVE  LogInv'
    OBVIOUS
  <2>1. CASE Logs
    BY <2>1, LogStep DEF Logs
  <2>2. CASE UNCHANGED logVars
    <3>1. clock' \in Int /\ logFile' \in Seq(LogEntries)
      BY <2>2 DEF LogInv, logVars
    <3> QED
      BY <2>2, <3>1, LogStays DEF logVars
  <2> QED
    BY <2>1, <2>2 DEF Next, Data, Trace, Prediction, Quiet, vars
<1> QED
  BY <1>1, <1>2, PTL DEF Spec

\* Whatever the log file, the commits, the filters and the order of refreshes,
\* answers, errors and boxes: the log page shows every entry that passes its
\* filters as often as its sources have it and no other, newest first and the
\* entries of one time in the order they were logged, and labels it so.
THEOREM ClientTellsTheLog == Spec => []TableTellsTheLog
<1>1. LogInv => TableTellsTheLog
  BY TableIsTold
<1> QED
  BY <1>1, LogInvariance, PTL

=============================================================================
