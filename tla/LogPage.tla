------------------------------ MODULE LogPage ------------------------------
(***************************************************************************)
(* The log page of the Qt client with AppLogger, whose file it shows, and  *)
(* GitLogService, whose commits it mixes in.                               *)
(*                                                                         *)
(* An entry is a time, a source and whether the typed keyword is found in  *)
(* it; the type and level boxes filter the way the source box does.  The   *)
(* page's label is recomputed by the handlers that call updateStatus, so   *)
(* it is state of its own.                                                 *)
(***************************************************************************)
EXTENDS Desktop, Ordering

CONSTANTS
  FileCapacity,  \* entries in kMaximumLogBytes
  RecentLimit,   \* what loadRecent is asked for
  CommitLists,   \* what the repository's commits may be
  MaxTime,       \* bound on the times of entries
  MaxFile        \* bound on a file that cannot be renamed, in entries

LogEntries == [time : Int, source : {"client", "github"}, found : BOOLEAN]

ASSUME LogPageAssumption ==
  /\ {FileCapacity, RecentLimit, MaxTime, MaxFile} \subseteq Nat \ {0}
  /\ CommitLists \subseteq Seq(LogEntries)

VARIABLES
  clock,
  logFile,         \* water-client.jsonl; the rotated file is never read
  runtimeEntries, githubEntries,
  sourceBox,       \* "all", or the one source shown
  keywordEdit,     \* a keyword has been typed
  keywordApplied,  \* it had been when the table was filled
  logTable,
  statusLabel,     \* how many local entries, the commits' state, how many rows
  gitLoading,      \* LogPage::gitLoading and GitLogService::loading
  gitError

logVars == <<clock, logFile, runtimeEntries, githubEntries, sourceBox,
             keywordEdit, keywordApplied, logTable, statusLabel, gitLoading,
             gitError>>

-----------------------------------------------------------------------------
(* AppLogger                                                               *)

Entry(time, found) == [time |-> time, source |-> "client", found |-> found]

\* rotateIfNeeded(): a file that has become too long starts again, unless
\* it cannot be renamed.
Rotated(file) ==
  IF Len(file) < FileCapacity THEN {file}
  ELSE {<<>>} \cup {kept \in {file} : Len(kept) < MaxFile}

\* log(): a file that cannot be opened is passed over in silence.
Log(found) ==
  \E time \in {clock, clock + 1} \cap 0..MaxTime, kept \in Rotated(logFile),
     open \in BOOLEAN :
    /\ clock' = time
    /\ logFile' = IF open THEN Append(kept, Entry(time, found)) ELSE kept

\* What loadRecent(RecentLimit) may yield: nothing where the file cannot be
\* opened.
LoadRecent(file) ==
  {<<>>, IF Len(file) <= RecentLimit THEN file
         ELSE SubSeq(file, Len(file) - RecentLimit + 1, Len(file))}

-----------------------------------------------------------------------------
(* Filling the table.                                                      *)

\* A sort that is not stable.
NewestFirstUnstably(s) ==
  {p \in (DOMAIN s) \X (DOMAIN s) :
     \/ s[p[1]].time > s[p[2]].time
     \/ s[p[1]].time = s[p[2]].time /\ p[1] > p[2]}

\* std::stable_sort by time, the newest first: which positions come before
\* which.
NewestFirst(s) ==
  {p \in (DOMAIN s) \X (DOMAIN s) :
     \/ s[p[1]].time > s[p[2]].time
     \/ s[p[1]].time = s[p[2]].time /\ p[1] < p[2]}

\* matchesFilters
Matches(entry, source, keyword) ==
  /\ source \in {"all", entry.source}
  /\ keyword => entry.found

Passing(s, source, keyword) ==
  {i \in DOMAIN s : Matches(s[i], source, keyword)}

\* rebuildEntries and applyFilters, with the controls as they are now.
Fill(runtime, github, source, keyword) ==
  LET entries == runtime \o github
      order == Arranged(Passing(entries, source, keyword), NewestFirst(entries))
  IN  [k \in DOMAIN order |-> entries[order[k]]]

\* updateStatus
Status(runtime, github, loading, error, rows) ==
  [local |-> Len(runtime),
   git   |-> IF loading THEN "loading" ELSE IF error THEN "error" ELSE "loaded",
   count |-> IF loading \/ error THEN 0 ELSE Len(github),
   shown |-> rows]

\* What every handler ends with that changes entries or filters.
Rebuild ==
  /\ logTable' = Fill(runtimeEntries', githubEntries', sourceBox', keywordEdit')
  /\ keywordApplied' = keywordEdit'
  /\ statusLabel' = Status(runtimeEntries', githubEntries', gitLoading',
                           gitError', Len(logTable'))

\* The constructor: the page has logged its own opening, read it back and
\* asked for the commits.
LogPageInit ==
  /\ clock = 0
  /\ logFile = <<Entry(0, FALSE)>>
  /\ runtimeEntries = logFile
  /\ githubEntries = <<>>
  /\ sourceBox = "all"
  /\ keywordEdit = FALSE /\ keywordApplied = FALSE
  /\ gitLoading = TRUE
  /\ gitError = FALSE
  /\ logTable = Fill(runtimeEntries, githubEntries, sourceBox, keywordEdit)
  /\ statusLabel = Status(runtimeEntries, githubEntries, gitLoading, gitError,
                          Len(logTable))

-----------------------------------------------------------------------------

\* Any other part of the client logs something.  The keyword the user types
\* is found in such entries, and not in those of the log page itself.
OtherPartLogs ==
  /\ Log(TRUE)
  /\ UNCHANGED <<desktopVars, runtimeEntries, githubEntries, sourceBox,
                 keywordEdit, keywordApplied, logTable, statusLabel,
                 gitLoading, gitError>>

\* refreshLogs, from the timer, which goes off inside modal boxes too, or
\* from the button: fetchRecentCommits does nothing while it is loading.
RefreshLogs ==
  /\ runtimeEntries' \in LoadRecent(logFile)
  /\ gitError' = FALSE
  /\ gitLoading' = TRUE
  /\ UNCHANGED <<clock, logFile, githubEntries, sourceBox, keywordEdit>>
  /\ Rebuild

AutoRefresh == RefreshLogs /\ UNCHANGED desktopVars
PressRefreshLogs == Click /\ ~gitLoading /\ RefreshLogs /\ UNCHANGED boxes

\* showEvent: the user comes to the page.
ShowLogPage ==
  /\ Click
  /\ runtimeEntries' \in LoadRecent(logFile)
  /\ UNCHANGED <<boxes, clock, logFile, githubEntries, sourceBox, keywordEdit,
                 gitLoading, gitError>>
  /\ Rebuild

\* handleGitCommits; the log entry it writes is in what it reloads.
HandleGitCommits(commits) ==
  /\ gitLoading
  /\ gitLoading' = FALSE
  /\ githubEntries' = commits
  /\ gitError' = FALSE
  /\ Log(FALSE)
  /\ runtimeEntries' \in LoadRecent(logFile')
  /\ UNCHANGED <<desktopVars, sourceBox, keywordEdit>>
  /\ Rebuild

\* handleGitError: the commits shown so far stay.
HandleGitErrorQuietly ==
  /\ gitLoading
  /\ gitLoading' = FALSE
  /\ gitError' = TRUE
  /\ Log(FALSE)
  /\ statusLabel' = Status(runtimeEntries, githubEntries, FALSE, FALSE,
                           Len(logTable))
  /\ UNCHANGED <<desktopVars, runtimeEntries, githubEntries, sourceBox,
                 keywordEdit, keywordApplied, logTable>>
HandleGitError ==
  /\ gitLoading
  /\ gitLoading' = FALSE
  /\ gitError' = TRUE
  /\ Log(FALSE)
  /\ runtimeEntries' \in LoadRecent(logFile')
  /\ UNCHANGED <<desktopVars, githubEntries, sourceBox, keywordEdit>>
  /\ Rebuild

ChooseSource(source) ==
  /\ Click
  /\ source # sourceBox
  /\ sourceBox' = source
  /\ UNCHANGED <<boxes, clock, logFile, runtimeEntries, githubEntries,
                 keywordEdit, gitLoading, gitError>>
  /\ Rebuild

\* Typing changes the table only when it empties the field.
TypeKeyword ==
  /\ Click
  /\ ~keywordEdit /\ keywordEdit' = TRUE
  /\ UNCHANGED <<boxes, clock, logFile, runtimeEntries, githubEntries,
                 sourceBox, keywordApplied, logTable, statusLabel, gitLoading,
                 gitError>>

ClearKeyword ==
  /\ Click
  /\ keywordEdit /\ keywordEdit' = FALSE
  /\ UNCHANGED <<boxes, clock, logFile, runtimeEntries, githubEntries,
                 sourceBox, gitLoading, gitError>>
  /\ Rebuild

Query ==
  /\ Click
  /\ UNCHANGED <<boxes, clock, logFile, runtimeEntries, githubEntries,
                 sourceBox, keywordEdit, gitLoading, gitError>>
  /\ Rebuild

-----------------------------------------------------------------------------
(* exportVisibleLogs                                                       *)

AskForLogFile ==
  /\ Click
  /\ logTable # <<>>
  /\ Open("log file")
  /\ UNCHANGED logVars

LogFileNotWritten ==
  /\ Close("log file") \/ Replace("log file", "log failed")
  /\ UNCHANGED <<clicks, logVars>>

\* The rows of this moment are written, and the export is logged.
WriteLogFile ==
  /\ Replace("log file", "log written")
  /\ Log(FALSE)
  /\ UNCHANGED <<clicks, runtimeEntries, githubEntries, sourceBox, keywordEdit,
                 keywordApplied, logTable, statusLabel, gitLoading, gitError>>

LogFileWritten ==
  /\ Close("log written")
  /\ runtimeEntries' \in LoadRecent(logFile)
  /\ UNCHANGED <<clicks, clock, logFile, githubEntries, sourceBox, keywordEdit,
                 gitLoading, gitError>>
  /\ Rebuild

CloseLogBox == Close("log failed") /\ UNCHANGED <<clicks, logVars>>

-----------------------------------------------------------------------------

LogUser ==
  \/ PressRefreshLogs \/ ShowLogPage \/ TypeKeyword \/ ClearKeyword \/ Query
  \/ \E source \in {"all", "client", "github"} : ChooseSource(source)
  \/ AskForLogFile

LogBoxes == LogFileNotWritten \/ WriteLogFile \/ LogFileWritten \/ CloseLogBox

\* The reply to the one request ends with the commits or, in the five ways
\* GitLogService tells apart, without; its timer of 12 seconds is one of them.
GitReplies ==
  \/ \E commits \in CommitLists : HandleGitCommits(commits)
  \/ HandleGitError
GitTimer == HandleGitError

LogNext == OtherPartLogs \/ AutoRefresh \/ LogUser \/ LogBoxes \/ GitReplies

-----------------------------------------------------------------------------
(* Properties.                                                             *)

\* From the newest to the oldest, and among entries of one time in the order
\* they were logged, local ones before commits, the table has a row for each
\* entry of both sources that passes the filters last applied, and no other;
\* and the label tells no other story than the table and the last answer about
\* the commits, in whichever order refreshes, answers and boxes came.
TableTellsTheLog ==
  LET entries == runtimeEntries \o githubEntries
      Times(s) == {s[i].time : i \in DOMAIN s}
      At(s, time) == {i \in DOMAIN s : s[i].time = time}
      passing == Passing(entries, sourceBox, keywordApplied)
  IN  /\ \A i, j \in DOMAIN logTable : i < j => logTable[i].time >= logTable[j].time
      /\ Times(logTable) \subseteq Times(entries)
      /\ \A time \in Times(entries) :
           AtPositions(logTable, At(logTable, time)) =
             AtPositions(entries, At(entries, time) \cap passing)
      /\ statusLabel = Status(runtimeEntries, githubEntries, gitLoading,
                              gitError, Len(logTable))

=============================================================================
