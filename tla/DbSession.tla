----------------------------- MODULE DbSession -----------------------------
(***************************************************************************)
(* One pooled MySQL connection and the leases it serves one after the      *)
(* other: MySqlConnection, Transaction, the lease's acquireRecord and      *)
(* releaseConnection as far as they decide about this connection, and      *)
(* WaterRepository::saveClassificationVersion, the one transaction of the  *)
(* server.  Other leases only read.                                        *)
(*                                                                         *)
(* MySQL is external: with autocommit off, statements are kept until a     *)
(* COMMIT; switching autocommit on commits what is open; a server that     *)
(* loses its client rolls back.  The client library does not reconnect     *)
(* (MYSQL_OPT_RECONNECT is off): once the link is lost every call fails.   *)
(* An INSERT or a COMMIT may also be refused on a link that is up.         *)
(***************************************************************************)
EXTENDS Naturals, FiniteSets

CONSTANTS
  Versions,  \* saves, each asked for once
  Batches    \* INSERTs of at most 128 rows that a version takes

ASSUME BatchesAssumption == Batches \in Nat \ {0}

Read == "read"
ASSUME ReadAssumption == Read \notin Versions

VARIABLES
  lease,       \* "none" (no connection), "idle" (pooled), or a step of a lease
  job,         \* what the last lease was taken for: a version or Read
  part,        \* INSERTs of the save that have succeeded
  active,      \* transaction_active
  due,         \* validation_interval has passed since last_validated
  resetOk,     \* the last ROLLBACK and autocommit(true) on it both succeeded
  link,        \* "up" or "lost"
  autocommit,  \* the server's session variable
  open,        \* rows of the server's open transaction
  rows,        \* rows everybody can read
  told         \* what the service was told about a save

session == <<active, due, resetOk>>
server  == <<autocommit, open, rows>>
vars == <<lease, job, part, session, link, server, told>>

\* Part 0 is the row in processing_runs, the others are batches of samples.
Rows(v) == {v} \X (0..Batches)
AllRows == Versions \X (0..Batches)

(***************************************************************************)
(* lease: "none" (no connection), "idle" (in the pool), and while somebody *)
(* has the lease: "check" (taken from the pool), "connect" (the borrower   *)
(* has the factory make one), "ready", "insert", "commit" and "restore"    *)
(* (the save; the last between the two calls of commit()), "unwind" (an    *)
(* exception leaves the scope of the Transaction), and "done" or "failed"  *)
(* (the lease is about to be destroyed, without or with an exception).     *)
(***************************************************************************)
Steps == {"none", "idle", "check", "connect", "ready", "insert", "commit",
          "restore", "unwind", "done", "failed"}

Init ==
  /\ lease = "idle"
  /\ job = Read
  /\ part = 0
  /\ active = FALSE
  /\ due = FALSE
  /\ resetOk = TRUE
  /\ link = "up"
  /\ autocommit = TRUE
  /\ open = {}
  /\ rows = {}
  /\ told = [v \in Versions |-> "new"]

Outcome(j, how) == told' = IF j = Read THEN told ELSE [told EXCEPT ![j] = how]

-----------------------------------------------------------------------------
(* MySQL.                                                                  *)

\* The connection breaks, or the server times it out.
Lose ==
  /\ lease \notin {"none", "connect"}
  /\ link = "up"
  /\ link' = "lost"
  /\ open' = {}
  /\ UNCHANGED <<lease, job, part, session, autocommit, rows, told>>

\* COMMIT and ROLLBACK on the server.
Commit   == rows' = rows \cup open /\ open' = {}
Rollback == rows' = rows /\ open' = {}

\* SET autocommit = 1, in the state the call before it has left.
AutocommitOn == autocommit' = TRUE

-----------------------------------------------------------------------------
(* The lease.                                                              *)

Wanted == {Read} \cup {v \in Versions : told[v] = "new"}

\* acquireRecord takes the pooled connection or reserves a place for a new one.
Acquire(j) ==
  /\ lease \in {"idle", "none"}
  /\ j \in Wanted
  /\ lease' = IF lease = "idle" THEN "check" ELSE "connect"
  /\ job' = j
  /\ part' = 0
  /\ Outcome(j, "asked")
  /\ UNCHANGED <<session, link, server>>

ValidationFallsDue ==
  /\ lease = "idle"
  /\ ~due
  /\ due' = TRUE
  /\ UNCHANGED <<lease, job, part, active, resetOk, link, server, told>>

\* It is not time to validate the connection, or it answers the ping.
Validated ==
  /\ lease = "check"
  /\ due => link = "up"
  /\ lease' = "ready"
  /\ due' = FALSE
  /\ UNCHANGED <<job, part, active, resetOk, link, server, told>>

\* It is past max_lifetime, or does not answer: discarded.
Discard ==
  /\ lease = "check"
  /\ lease' = "connect"
  /\ open' = {}
  /\ UNCHANGED <<job, part, session, link, autocommit, rows, told>>

Connect ==
  /\ lease = "connect"
  /\ lease' = "ready"
  /\ active' = FALSE
  /\ due' = FALSE
  /\ resetOk' = TRUE
  /\ link' = "up"
  /\ autocommit' = TRUE
  /\ open' = {}
  /\ UNCHANGED <<job, part, rows, told>>

\* The factory throws, and so does the acquisition.
ConnectFails ==
  /\ lease = "connect"
  /\ lease' = "none"
  /\ Outcome(job, "error")
  /\ UNCHANGED <<job, part, session, link, server>>

\* The lease is destroyed: resetSession, which has nothing to do unless a
\* transaction is active, decides whether the connection may be pooled.
ResetSession ==
  LET ok == ~active \/ link = "up"
  IN  /\ active' = FALSE
      /\ resetOk' = IF active THEN ok ELSE resetOk
      /\ IF active /\ link = "up"
         THEN Rollback /\ AutocommitOn ELSE UNCHANGED server
      /\ lease' \in IF ok THEN {"idle", "none"} ELSE {"none"}

ReturnLease ==
  /\ lease \in {"done", "failed"}
  /\ ResetSession
  /\ IF lease = "failed" THEN Outcome(job, "error") ELSE UNCHANGED told
  /\ UNCHANGED <<job, part, due, link>>

-----------------------------------------------------------------------------
(* The work of a lease.                                                    *)

Query ==
  /\ lease = "ready"
  /\ job = Read
  /\ lease' = IF link = "up" THEN "done" ELSE "failed"
  /\ UNCHANGED <<job, part, session, link, server, told>>

\* The checks of saveClassificationVersion refuse the snapshot.
InvalidSnapshot ==
  /\ lease = "ready"
  /\ job \in Versions
  /\ lease' = "failed"
  /\ UNCHANGED <<job, part, session, link, server, told>>

\* The Transaction's constructor: beginTransaction.  If it throws there is
\* no Transaction to roll back.
Begin ==
  /\ lease = "ready"
  /\ job \in Versions
  /\ IF link = "up" /\ ~active
     THEN active' = TRUE /\ autocommit' = FALSE /\ lease' = "insert"
     ELSE lease' = "failed" /\ UNCHANGED <<active, autocommit>>
  /\ UNCHANGED <<job, part, due, resetOk, link, open, rows, told>>

\* Where the save goes on after INSERT number p.
StepAfter(p) == IF p = Batches THEN "commit" ELSE "insert"

Insert ==
  /\ lease = "insert"
  /\ link = "up"
  /\ IF autocommit
     THEN rows' = rows \cup {<<job, part>>} /\ UNCHANGED open
     ELSE open' = open \cup {<<job, part>>} /\ UNCHANGED rows
  /\ part' = part + 1
  /\ lease' = StepAfter(part)
  /\ UNCHANGED <<job, session, link, autocommit, told>>

\* execute() or the first call of commit() throws: the link is lost, or the
\* server refuses the statement.
Throws ==
  /\ lease \in {"insert", "commit"}
  /\ lease' = "unwind"
  /\ UNCHANGED <<job, part, session, link, server, told>>

\* commit(): mysql_commit succeeds,
CommitRestoringFirst ==
  /\ lease = "commit"
  /\ link = "up"
  /\ Commit
  /\ AutocommitOn
  /\ lease' \in {"restore", "unwind"}
  /\ UNCHANGED <<job, part, session, link, told>>
CommitCall ==
  /\ lease = "commit"
  /\ link = "up"
  /\ Commit
  /\ lease' = "restore"
  /\ UNCHANGED <<job, part, session, link, autocommit, told>>

\* or the link is lost before its answer arrives, and the server may have
\* committed all the same,
CommitCut ==
  /\ lease = "commit"
  /\ link = "up"
  /\ link' = "lost"
  /\ Commit \/ Rollback
  /\ lease' = "unwind"
  /\ UNCHANGED <<job, part, session, autocommit, told>>

\* and then mysql_autocommit(true) ends the transaction of the driver, and
\* the save is reported before the lease is returned.
Restore ==
  /\ lease = "restore"
  /\ IF link = "up"
     THEN /\ AutocommitOn
          /\ active' = FALSE
          /\ lease' = "done"
          /\ Outcome(job, "ok")
     ELSE /\ lease' = "unwind"
          /\ UNCHANGED <<autocommit, active, told>>
  /\ UNCHANGED <<job, part, due, resetOk, link, open, rows>>

\* ~Transaction: rollback() tries both calls, ignores whether they succeed,
\* and forgets the transaction.
UnwindRestoringFirst ==
  /\ lease = "unwind"
  /\ IF link = "up" THEN Commit /\ AutocommitOn ELSE UNCHANGED server
  /\ active' = FALSE
  /\ resetOk' = (link = "up")
  /\ lease' = "failed"
  /\ UNCHANGED <<job, part, due, link, told>>
UnwindKeepingAutocommit ==
  /\ lease = "unwind"
  /\ IF link = "up" THEN Rollback /\ UNCHANGED autocommit ELSE UNCHANGED server
  /\ active' = FALSE
  /\ resetOk' = (link = "up")
  /\ lease' = "failed"
  /\ UNCHANGED <<job, part, due, link, told>>
Unwind ==
  /\ lease = "unwind"
  /\ IF link = "up" THEN Rollback /\ AutocommitOn ELSE UNCHANGED server
  /\ active' = FALSE
  /\ resetOk' = (link = "up")
  /\ lease' = "failed"
  /\ UNCHANGED <<job, part, due, link, told>>

-----------------------------------------------------------------------------

Next ==
  \/ Lose
  \/ \E j \in Versions \cup {Read} : Acquire(j)
  \/ ValidationFallsDue \/ Validated \/ Discard
  \/ Connect \/ ConnectFails \/ ReturnLease
  \/ Query \/ InvalidSnapshot \/ Begin \/ Insert \/ Throws
  \/ CommitCall \/ CommitCut \/ Restore \/ Unwind

Spec == Init /\ [][Next]_vars

-----------------------------------------------------------------------------
(* Properties.                                                             *)

\* Every variable stays in its range.
TypeOK ==
  /\ lease \in Steps
  /\ job \in Versions \cup {Read}
  /\ part \in 0..(Batches + 1)
  /\ active \in BOOLEAN
  /\ due \in BOOLEAN
  /\ resetOk \in BOOLEAN
  /\ autocommit \in BOOLEAN
  /\ link \in {"up", "lost"}
  /\ open \subseteq AllRows
  /\ rows \subseteq AllRows
  /\ told \in [Versions -> {"new", "asked", "ok", "error"}]

\* A version that readers can see is complete: a save that fails at any
\* call leaves nothing behind, in its own transaction or in a later one of
\* the same session.
AllOrNothing == \A v \in Versions : Rows(v) \cap rows \in {{}, Rows(v)}

\* A save reported as done is stored.  One reported as failed is not, unless
\* the connection was lost, in which case nobody knows.
AnswerMatches ==
  \A v \in Versions :
    /\ told'[v] = "ok" => Rows(v) \subseteq rows'
    /\ told[v] = "asked" /\ told'[v] = "error" /\ Rows(v) \subseteq rows
         => link = "lost"
AnswersMatchStore == [][AnswerMatches]_vars

\* "Restore a safe reusable session: rollback an open transaction, enable
\* autocommit": what the pool lends to the next borrower carries nothing
\* over from the last one, and neither side believes in a transaction.
PooledSessionIsClean ==
  lease = "idle" /\ link = "up" => ~active /\ autocommit /\ open = {}

\* "Failed reset discards the connection": a connection that could not be
\* rolled back and reset is not in the pool.
FailedResetDiscards == lease = "idle" => resetOk

=============================================================================
