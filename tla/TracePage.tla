----------------------------- MODULE TracePage -----------------------------
(***************************************************************************)
(* The trace page of the Qt client with its TraceService: asking for the   *)
(* sources of a sample, and exporting the candidates shown.                *)
(*                                                                         *)
(* A result is named by the sample it was asked for.  exportReport takes   *)
(* the name of the file from the last result before the file dialog runs,  *)
(* and the rows after it.                                                  *)
(***************************************************************************)
EXTENDS Desktop, FiniteSets

CONSTANT Samples  \* what the user types and the page accepts

NoSample == "no sample"

VARIABLES
  traceBusy,
  lastResult,     \* the sample of lastResult; the ranking shows its candidates
  exportEnabled,  \* exportButton
  reportName,     \* the result a file dialog open now proposes a name for
  report,         \* the last file written: the results of its name and rows
  traceSequence,  \* tells the requests apart; they all have the same key
  traceReplies    \* the page's requests whose replies have not finished

traceVars == <<traceBusy, lastResult, exportEnabled, reportName, report,
               traceSequence, traceReplies>>

TracePageInit ==
  /\ traceBusy = FALSE
  /\ lastResult = NoSample
  /\ exportEnabled = FALSE
  /\ reportName = NoSample
  /\ report = [name |-> NoSample, rows |-> NoSample]
  /\ traceSequence = 0
  /\ traceReplies = {}

Request(sample) ==
  [number |-> traceSequence + 1, post |-> TRUE, sample |-> sample]

-----------------------------------------------------------------------------

\* startTrace refuses what is not a sample number.
RefuseSample ==
  /\ Click
  /\ ~traceBusy
  /\ Open("trace input")
  /\ UNCHANGED traceVars

\* startTrace, from the button or the return key; setBusy disables both.
StartTraceKeepingTheResult(sample) ==
  /\ Click
  /\ ~traceBusy
  /\ sample \in Samples
  /\ traceBusy' = TRUE
  /\ traceSequence' = traceSequence + 1
  /\ traceReplies' = traceReplies \cup {Request(sample)}
  /\ UNCHANGED <<boxes, lastResult, exportEnabled, reportName, report>>
StartTrace(sample) ==
  /\ Click
  /\ ~traceBusy
  /\ sample \in Samples
  /\ traceBusy' = TRUE
  /\ lastResult' = NoSample
  /\ exportEnabled' = FALSE
  /\ traceSequence' = traceSequence + 1
  /\ traceReplies' = traceReplies \cup {Request(sample)}
  /\ UNCHANGED <<boxes, reportName, report>>

TraceFinishes(r, ending) ==
  /\ r \in traceReplies
  /\ TimedOut(ending) => Timed(r)
  /\ traceReplies' = traceReplies \ {r}
  /\ traceBusy' = FALSE
  /\ UNCHANGED <<clicks, reportName, report, traceSequence>>

HandleTraceReady(r, ending) ==
  /\ TraceFinishes(r, ending)
  /\ Delivers(ending)
  /\ lastResult' = r.sample
  /\ exportEnabled' = TRUE
  /\ UNCHANGED boxes

HandleTraceError(r, ending) ==
  /\ TraceFinishes(r, ending)
  /\ ~Delivers(ending)
  /\ lastResult' = NoSample
  /\ exportEnabled' = FALSE
  /\ Open("trace error")

-----------------------------------------------------------------------------
(* exportReport                                                            *)

AskForReportFile ==
  /\ Click
  /\ exportEnabled /\ lastResult # NoSample
  /\ reportName' = lastResult
  /\ Open("report file")
  /\ UNCHANGED <<traceBusy, lastResult, exportEnabled, report, traceSequence,
                 traceReplies>>

CancelReport ==
  /\ Close("report file")
  /\ reportName' = NoSample
  /\ UNCHANGED <<clicks, traceBusy, lastResult, exportEnabled, report,
                 traceSequence, traceReplies>>

\* QSaveFile leaves either the whole file or none.
WriteReport ==
  /\ Replace("report file", "report done")
  /\ report' = [name |-> reportName, rows |-> lastResult]
  /\ reportName' = NoSample
  /\ UNCHANGED <<clicks, traceBusy, lastResult, exportEnabled, traceSequence,
                 traceReplies>>

ReportFails ==
  /\ Replace("report file", "report failed")
  /\ reportName' = NoSample
  /\ UNCHANGED <<clicks, traceBusy, lastResult, exportEnabled, report,
                 traceSequence, traceReplies>>

CloseTraceBox ==
  /\ \/ Close("trace input") \/ Close("trace error")
     \/ Close("report done") \/ Close("report failed")
  /\ UNCHANGED <<clicks, traceVars>>

-----------------------------------------------------------------------------

TraceUser ==
  \/ RefuseSample
  \/ \E sample \in Samples : StartTrace(sample)
  \/ AskForReportFile

TraceBoxes == CancelReport \/ WriteReport \/ ReportFails \/ CloseTraceBox

TraceReplies ==
  \E r \in traceReplies, ending \in Endings :
    HandleTraceReady(r, ending) \/ HandleTraceError(r, ending)

TraceTimer ==
  \E r \in traceReplies, ending \in Endings :
    TimedOut(ending) /\ HandleTraceError(r, ending)

TraceNext == TraceUser \/ TraceBoxes \/ TraceReplies

-----------------------------------------------------------------------------
(* Properties.                                                             *)

\* The page is waiting exactly when one request of it is under way: the
\* service has no way to tell a late reply from the one it waits for.
TracePageWaitsForOne ==
  /\ traceBusy <=> traceReplies # {}
  /\ Cardinality(traceReplies) <= 1

\* A report holds the candidates of the sample it is named after, although
\* replies keep arriving while the user chooses the file.
ReportIsOneResult == report.name = report.rows

\* The candidates the page shows and exports are those of the sample that was
\* asked for last: nothing of an earlier sample survives its being replaced.
ShowsTheLastSample ==
  lastResult # NoSample => traceReplies = {} /\ exportEnabled

=============================================================================
