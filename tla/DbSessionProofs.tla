-------------------------- MODULE DbSessionProofs --------------------------
(***************************************************************************)
(* Theorems about DbSession, for any set of versions and any number of     *)
(* INSERTs per version.                                                    *)
(***************************************************************************)
EXTENDS DbSession, TLAPS

\* The steps of a lease at which the Transaction exists.
InTransaction == lease \in {"insert", "commit", "restore", "unwind"}

\* The driver knows of a transaction exactly while the Transaction exists,
\* and only a save has one.
DriverAgrees ==
  /\ active <=> InTransaction
  /\ InTransaction => job \in Versions

\* On a link that is up, autocommit is on and nothing is open outside of a
\* transaction; a lost link leaves nothing open.
ServerAgrees ==
  /\ link = "up" /\ ~active => autocommit
  /\ link = "lost" \/ ~active => open = {}

\* What a save has open is what it has inserted so far.
SaveProgress ==
  /\ lease \in {"check", "connect", "ready"} => part = 0
  /\ lease = "insert" => part \in 0..Batches
  /\ lease = "commit" => part = Batches + 1
  /\ lease \in {"insert", "commit"} /\ link = "up" =>
       /\ ~autocommit
       /\ open = {job} \X {p \in 0..Batches : p < part}
  /\ lease = "restore" => open = {}

SessionInv ==
  /\ TypeOK
  /\ DriverAgrees
  /\ ServerAgrees
  /\ SaveProgress
  /\ AllOrNothing

Stored(v) == Rows(v) \subseteq rows

\* Between the request for a save and the answer the lease is at work on it.
AskedIsUnderway ==
  /\ \A v \in Versions :
       told[v] = "asked" => v = job /\ lease \notin {"idle", "none", "done"}
  /\ job \in Versions /\ lease \notin {"idle", "none", "done"}
       => told[job] = "asked"

\* What is stored has been reported as done, or is about to be, or the link
\* was lost on the way.
StoreAgrees ==
  /\ \A v \in Versions : told[v] = "new" => Rows(v) \cap rows = {}
  /\ \A v \in Versions : told[v] = "ok" => Stored(v)
  /\ lease = "restore" => Stored(job)
  /\ \A v \in Versions :
       told[v] = "asked" /\ Rows(v) \cap rows # {} =>
         \/ lease = "restore"
         \/ lease \in {"unwind", "failed"} /\ link = "lost"

AnswerInv == SessionInv /\ AskedIsUnderway /\ StoreAgrees

-----------------------------------------------------------------------------

\* Adding a whole version to the store keeps every version whole.
LEMMA StoringKeepsWhole ==
  ASSUME NEW S, NEW j,
         \A v \in Versions : Rows(v) \cap S \in {{}, Rows(v)}
  PROVE  \A v \in Versions : Rows(v) \cap (S \cup Rows(j)) \in {{}, Rows(v)}
<1> TAKE v \in Versions
<1>1. CASE v = j
  <2>1. Rows(v) \cap (S \cup Rows(j)) = Rows(v)
    BY <1>1
  <2> QED BY <2>1
<1>2. CASE v # j
  <2>1. Rows(v) \cap Rows(j) = {}
    BY <1>2 DEF Rows
  <2>2. Rows(v) \cap (S \cup Rows(j)) = Rows(v) \cap S
    BY <2>1
  <2> QED BY <2>2
<1> QED BY <1>1, <1>2

\* When the driver is about to commit, all rows of the save are open.
LEMMA CommitIsComplete ==
  ASSUME SessionInv, lease = "commit", link = "up"
  PROVE  open = Rows(job) /\ job \in Versions
<1>1. job \in Versions
  BY DEF SessionInv, DriverAgrees, InTransaction
<1>2. /\ part = Batches + 1
      /\ open = {job} \X {p \in 0..Batches : p < part}
  BY DEF SessionInv, SaveProgress
<1>3. {p \in 0..Batches : p < part} = 0..Batches
  BY <1>2, BatchesAssumption
<1> QED BY <1>1, <1>2, <1>3 DEF Rows

LEMMA SessionInit == Init => SessionInv
<1> SUFFICES ASSUME Init PROVE SessionInv
  OBVIOUS
<1>1. TypeOK
  <2>1. told \in [Versions -> {"new", "asked", "ok", "error"}]
    BY DEF Init
  <2>2. part \in 0..(Batches + 1)
    BY BatchesAssumption DEF Init
  <2>3. lease \in Steps /\ link \in {"up", "lost"} /\ job \in Versions \cup {Read}
    BY DEF Init, Steps
  <2>4. active \in BOOLEAN /\ due \in BOOLEAN /\ resetOk \in BOOLEAN
        /\ autocommit \in BOOLEAN
    BY DEF Init
  <2>5. open \subseteq AllRows /\ rows \subseteq AllRows
    BY DEF Init
  <2> QED BY <2>1, <2>2, <2>3, <2>4, <2>5 DEF TypeOK
<1>2. DriverAgrees /\ ServerAgrees /\ SaveProgress
  BY DEF Init, DriverAgrees, ServerAgrees, SaveProgress, InTransaction
<1>3. AllOrNothing
  BY DEF Init, AllOrNothing
<1> QED BY <1>1, <1>2, <1>3 DEF SessionInv

\* Steps that leave the store and its transaction alone.
LEMMA QuietSteps ==
  ASSUME SessionInv, UNCHANGED rows,
         TypeOK', DriverAgrees', ServerAgrees', SaveProgress'
  PROVE  SessionInv'
<1>1. AllOrNothing'
  BY DEF SessionInv, AllOrNothing, Rows
<1> QED BY <1>1 DEF SessionInv

LEMMA SessionStep == SessionInv /\ [Next]_vars => SessionInv'
<1> SUFFICES ASSUME SessionInv, [Next]_vars PROVE SessionInv'
  OBVIOUS
<1> USE BatchesAssumption, ReadAssumption
<1> USE DEF SessionInv, TypeOK, Steps, DriverAgrees, ServerAgrees,
            SaveProgress, InTransaction, vars, session, server
<1>1. CASE Lose
  BY <1>1, QuietSteps DEF Lose
<1>2. ASSUME NEW j \in Versions \cup {Read}, Acquire(j) PROVE SessionInv'
  BY <1>2, QuietSteps DEF Acquire, Wanted, Outcome
<1>3. CASE ValidationFallsDue
  BY <1>3, QuietSteps DEF ValidationFallsDue
<1>4. CASE Validated
  BY <1>4, QuietSteps DEF Validated
<1>5. CASE Discard
  BY <1>5, QuietSteps DEF Discard
<1>6. CASE Connect
  BY <1>6, QuietSteps DEF Connect
<1>7. CASE ConnectFails
  BY <1>7, QuietSteps DEF ConnectFails, Outcome
<1>8. CASE ReturnLease
  <2>1. ~active
    BY <1>8 DEF ReturnLease
  <2> QED BY <1>8, <2>1, QuietSteps DEF ReturnLease, ResetSession, Outcome
<1>9. CASE Query
  BY <1>9, QuietSteps DEF Query
<1>10. CASE InvalidSnapshot
  BY <1>10, QuietSteps DEF InvalidSnapshot
<1>11. CASE Begin
  <2>1. part = 0 /\ 0 \in 0..Batches
    BY <1>11 DEF Begin
  <2>2. {job} \X {p \in 0..Batches : p < part} = {}
    BY <2>1
  <2>3. ASSUME link = "up" PROVE open = {}
    BY <1>11 DEF Begin
  <2>4. SaveProgress'
    BY <1>11, <2>1, <2>2, <2>3 DEF Begin
  <2> QED BY <1>11, <2>4, QuietSteps DEF Begin
<1>12. CASE Insert
  BY <1>12, QuietSteps DEF Insert, StepAfter, AllRows
<1>13. CASE Throws
  BY <1>13, QuietSteps DEF Throws
<1>14. CASE CommitCall
  <2>1. link = "up" /\ lease = "commit"
    BY <1>14 DEF CommitCall
  <2>2. open = Rows(job) /\ job \in Versions
    BY <2>1, CommitIsComplete
  <2>3. \/ rows' = rows \cup Rows(job)
        \/ rows' = rows
    BY <1>14, <2>2 DEF CommitCall, Commit, Rollback
  <2>4. \A v \in Versions : Rows(v) \cap rows' \in {{}, Rows(v)}
    BY <2>3, StoringKeepsWhole DEF AllOrNothing
  <2>5. AllOrNothing'
    BY <2>4 DEF AllOrNothing, Rows
  <2>6. TypeOK'
    BY <1>14, <2>2 DEF CommitCall, Commit, Rollback, AllRows, Rows
  <2>7. (DriverAgrees /\ ServerAgrees /\ SaveProgress)'
    BY <1>14 DEF CommitCall, Commit, Rollback
  <2> QED BY <2>5, <2>6, <2>7
<1>15. CASE CommitCut
  <2>1. link = "up" /\ lease = "commit"
    BY <1>15 DEF CommitCut
  <2>2. open = Rows(job) /\ job \in Versions
    BY <2>1, CommitIsComplete
  <2>3. \/ rows' = rows \cup Rows(job)
        \/ rows' = rows
    BY <1>15, <2>2 DEF CommitCut, Commit, Rollback
  <2>4. \A v \in Versions : Rows(v) \cap rows' \in {{}, Rows(v)}
    BY <2>3, StoringKeepsWhole DEF AllOrNothing
  <2>5. AllOrNothing'
    BY <2>4 DEF AllOrNothing, Rows
  <2>6. TypeOK'
    BY <1>15, <2>2 DEF CommitCut, Commit, Rollback, AllRows, Rows
  <2>7. (DriverAgrees /\ ServerAgrees /\ SaveProgress)'
    BY <1>15 DEF CommitCut, Commit, Rollback
  <2> QED BY <2>5, <2>6, <2>7
<1>16. CASE Restore
  BY <1>16, QuietSteps DEF Restore, Outcome, AutocommitOn
<1>17. CASE Unwind
  BY <1>17, QuietSteps DEF Unwind, Rollback, AutocommitOn
<1>18. CASE UNCHANGED vars
  BY <1>18, QuietSteps
<1> QED BY <1>1, <1>2, <1>3, <1>4, <1>5, <1>6, <1>7, <1>8, <1>9, <1>10,
           <1>11, <1>12, <1>13, <1>14, <1>15, <1>16, <1>17, <1>18 DEF Next

THEOREM SessionInvariant == Spec => []SessionInv
<1> QED BY SessionInit, SessionStep, PTL DEF Spec

\* TypeOK in every reachable state.
THEOREM TypeCorrect == Spec => []TypeOK
<1>1. SessionInv => TypeOK
  BY DEF SessionInv
<1> QED BY <1>1, SessionInvariant, PTL

\* However the calls of a save fail, and whatever the session did before,
\* readers see all of a version or nothing of it.
THEOREM VersionsAreWhole == Spec => []AllOrNothing
<1>1. SessionInv => AllOrNothing
  BY DEF SessionInv
<1> QED BY <1>1, SessionInvariant, PTL

\* A live connection in the pool carries over nothing from its last lease.
THEOREM LendsCleanSessions == Spec => []PooledSessionIsClean
<1>1. SessionInv => PooledSessionIsClean
  BY DEF SessionInv, DriverAgrees, ServerAgrees, InTransaction,
         PooledSessionIsClean
<1> QED BY <1>1, SessionInvariant, PTL

-----------------------------------------------------------------------------

\* One version's rows are not another's.
LEMMA RowsDiffer ==
  ASSUME NEW v, NEW w, v # w PROVE Rows(v) \cap Rows(w) = {}
BY DEF Rows

LEMMA RowsNotEmpty == ASSUME NEW v PROVE Rows(v) # {}
<1>1. <<v, 0>> \in Rows(v)
  BY BatchesAssumption DEF Rows
<1> QED BY <1>1

LEMMA AnswerInit == Init => AnswerInv
<1> SUFFICES ASSUME Init PROVE AnswerInv
  OBVIOUS
<1>1. AskedIsUnderway /\ StoreAgrees
  BY ReadAssumption DEF Init, AskedIsUnderway, StoreAgrees
<1> QED BY <1>1, SessionInit DEF AnswerInv

LEMMA AnswerStep == AnswerInv /\ [Next]_vars => AnswerInv'
<1> SUFFICES ASSUME AnswerInv, [Next]_vars PROVE AnswerInv'
  OBVIOUS
<1>0. SessionInv'
  BY SessionStep DEF AnswerInv
<1> SUFFICES AskedIsUnderway' /\ StoreAgrees'
  BY <1>0 DEF AnswerInv
<1> USE ReadAssumption, RowsNotEmpty
<1> USE DEF AnswerInv, AskedIsUnderway, StoreAgrees, Stored, Rows, vars,
            session, server
<1>t. /\ told \in [Versions -> {"new", "asked", "ok", "error"}]
      /\ lease \in Steps
      /\ link \in {"up", "lost"}
      /\ job \in Versions \cup {Read}
      /\ lease \in {"insert", "commit", "restore", "unwind"} => job \in Versions
  BY DEF SessionInv, TypeOK, DriverAgrees, InTransaction
<1>1. CASE Lose
  BY <1>1 DEF Lose
<1>2. ASSUME NEW j \in Versions \cup {Read}, Acquire(j)
      PROVE  AskedIsUnderway' /\ StoreAgrees'
  BY <1>2, <1>t DEF Acquire, Wanted, Outcome
<1>3. CASE ValidationFallsDue
  BY <1>3 DEF ValidationFallsDue
<1>4. CASE Validated
  BY <1>4 DEF Validated
<1>5. CASE Discard
  BY <1>5 DEF Discard
<1>6. CASE Connect
  BY <1>6 DEF Connect
<1>7. CASE ConnectFails
  BY <1>7, <1>t DEF ConnectFails, Outcome
<1>8. CASE ReturnLease
  <2>1. ~active
    BY <1>8 DEF ReturnLease, SessionInv, DriverAgrees, InTransaction
  <2> QED BY <1>8, <2>1, <1>t DEF ReturnLease, ResetSession, Outcome
<1>9. CASE Query
  BY <1>9 DEF Query
<1>10. CASE InvalidSnapshot
  BY <1>10 DEF InvalidSnapshot
<1>11. CASE Begin
  BY <1>11 DEF Begin
<1>12. CASE Insert
  <2>1. ~autocommit
    BY <1>12 DEF Insert, SessionInv, SaveProgress
  <2> QED BY <1>12, <2>1 DEF Insert, StepAfter
<1>13. CASE Throws
  BY <1>13 DEF Throws
<1>14. CASE CommitCall
  <2>1. open = Rows(job) /\ job \in Versions
    BY <1>14, CommitIsComplete DEF CommitCall
  <2>2. rows' = rows \cup Rows(job)
    BY <1>14, <2>1 DEF CommitCall, Commit
  <2>3. \A v \in Versions : told[v] = "new" => v # job
    BY <1>14, <2>1 DEF CommitCall
  <2> QED BY <1>14, <2>1, <2>2, <2>3, RowsDiffer DEF CommitCall
<1>15. CASE CommitCut
  <2>1. open = Rows(job) /\ job \in Versions
    BY <1>15, CommitIsComplete DEF CommitCut
  <2>2. rows' = rows \cup Rows(job) \/ rows' = rows
    BY <1>15, <2>1 DEF CommitCut, Commit, Rollback
  <2>3. \A v \in Versions : told[v] = "new" => v # job
    BY <1>15, <2>1 DEF CommitCut
  <2> QED BY <1>15, <2>1, <2>2, <2>3, RowsDiffer DEF CommitCut
<1>16. CASE Restore
  BY <1>16, <1>t DEF Restore, Outcome, AutocommitOn
<1>17. CASE Unwind
  BY <1>17, <1>t DEF Unwind, Rollback, AutocommitOn
<1>18. CASE UNCHANGED vars
  BY <1>18
<1> QED BY <1>1, <1>2, <1>3, <1>4, <1>5, <1>6, <1>7, <1>8, <1>9, <1>10,
           <1>11, <1>12, <1>13, <1>14, <1>15, <1>16, <1>17, <1>18 DEF Next

\* Only two steps tell the service of an error.
LEMMA ErrorsComeLast ==
  ASSUME AnswerInv, [Next]_vars, NEW v \in Versions,
         told[v] = "asked", told'[v] = "error"
  PROVE  lease \in {"connect", "failed"}
<1> USE ReadAssumption
<1>t. told \in [Versions -> {"new", "asked", "ok", "error"}]
  BY DEF AnswerInv, SessionInv, TypeOK
<1>1. CASE told' = told
  BY <1>1
<1>2. ASSUME NEW j \in Versions \cup {Read}, Acquire(j)
      PROVE  told'[v] # "error"
  BY <1>2, <1>t DEF Acquire, Outcome
<1>3. CASE ConnectFails
  BY <1>3 DEF ConnectFails
<1>4. CASE ReturnLease
  BY <1>4 DEF ReturnLease
<1>5. CASE Restore
  BY <1>5, <1>t DEF Restore, Outcome
<1> QED
  BY <1>1, <1>2, <1>3, <1>4, <1>5
  DEF Next, vars, Lose, ValidationFallsDue, Validated, Discard, Connect,
      Query, InvalidSnapshot, Begin, Insert, Throws, CommitCall, CommitCut,
      Unwind

LEMMA AnswerMatchesStep ==
  ASSUME AnswerInv, AnswerInv', [Next]_vars PROVE AnswerMatches
<1> SUFFICES ASSUME NEW v \in Versions
             PROVE  /\ told'[v] = "ok" => Rows(v) \subseteq rows'
                    /\ told[v] = "asked" /\ told'[v] = "error"
                         /\ Rows(v) \subseteq rows => link = "lost"
  BY DEF AnswerMatches
<1>1. told'[v] = "ok" => Rows(v) \subseteq rows'
  BY DEF AnswerInv, StoreAgrees, Stored, Rows
<1>2. ASSUME told[v] = "asked", told'[v] = "error", Rows(v) \subseteq rows
      PROVE  link = "lost"
  <2>1. Rows(v) \cap rows # {}
    BY <1>2, RowsNotEmpty
  <2> QED BY <1>2, <2>1, ErrorsComeLast DEF AnswerInv, StoreAgrees
<1> QED BY <1>1, <1>2

\* A save the service was told is done is stored, and one it was told has
\* failed is not, unless the link was lost.
THEOREM AnswersAreReliable == Spec => AnswersMatchStore
<1>1. Spec => []AnswerInv
  BY AnswerInit, AnswerStep, PTL DEF Spec
<1> QED BY <1>1, AnswerMatchesStep, PTL DEF Spec, AnswersMatchStore

=============================================================================
