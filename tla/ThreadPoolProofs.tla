-------------------------- MODULE ThreadPoolProofs --------------------------
(***************************************************************************)
(* Proofs about ThreadPool, for every number of tasks and threads and      *)
(* every choice of the pool's options.                                     *)
(*                                                                         *)
(* The bookkeeping of the pool is one inductive invariant, Bookkeeping:    *)
(* the types, the conservation law and the thread counts need each other   *)
(* (live <= Max holds because growth is decided on an exact live_threads). *)
(***************************************************************************)
EXTENDS ThreadPool, TLAPS, FiniteSetTheorems

\* Before start() there are no threads.
Fresh == state = "Created" => \A w \in Threads : worker[w] = "none"

Bookkeeping == TypeOK /\ ThreadCounts /\ Conservation /\ Fresh

-----------------------------------------------------------------------------
(* Facts about sets of threads and about the helpers of the model.         *)

\* A set of worker records is finite, and has no more members than Threads.
LEMMA GroupsAreFinite ==
  ASSUME NEW P
  PROVE  /\ IsFiniteSet(In(P))
         /\ Cardinality(In(P)) \in Nat
         /\ IsFiniteSet(At(P))
         /\ Cardinality(At(P)) \in Nat
<1>1. In(P) \in SUBSET Threads /\ At(P) \in SUBSET Threads
  BY DEF In, At
<1>2. IsFiniteSet(Threads)
  BY BoundsAssumption
<1>3. IsFiniteSet(In(P)) /\ IsFiniteSet(At(P))
  BY <1>1, <1>2, FS_Subset
<1> QED
  BY <1>3, FS_CardinalityType

\* A thread that moves from one point of workerLoop to another changes the
\* number of threads in a group of points by at most one.
LEMMA MoveCounts ==
  ASSUME worker \in [Threads -> Points],
         NEW w \in Threads, NEW from, NEW to, Move(w, from, to), NEW P
  PROVE  /\ from \in P /\ to \in P => In(P)' = In(P)
         /\ from \notin P /\ to \notin P => In(P)' = In(P)
         /\ from \notin P /\ to \in P =>
              Cardinality(In(P)') = Cardinality(In(P)) + 1
         /\ from \in P /\ to \notin P =>
              /\ Cardinality(In(P)') = Cardinality(In(P)) - 1
              /\ Cardinality(In(P)) >= 1
<1>1. /\ worker[w] = from /\ worker'[w] = to
      /\ \A v \in Threads : v # w => worker'[v] = worker[v]
  BY DEF Move
<1>2. CASE from \in P <=> to \in P
  BY <1>1, <1>2 DEF In
<1>3. CASE from \notin P /\ to \in P
  <2>1. In(P)' = In(P) \cup {w} /\ w \notin In(P)
    BY <1>1, <1>3 DEF In
  <2>2. Cardinality(In(P) \cup {w}) = Cardinality(In(P)) + 1
    BY <2>1, GroupsAreFinite, FS_AddElement
  <2> QED
    BY <1>3, <2>1, <2>2
<1>4. CASE from \in P /\ to \notin P
  <2>1. In(P)' = In(P) \ {w} /\ w \in In(P)
    BY <1>1, <1>4 DEF In
  <2>2. Cardinality(In(P) \ {w}) = Cardinality(In(P)) - 1
    BY <2>1, GroupsAreFinite, FS_RemoveElement
  <2>3. Cardinality(In(P)) # 0
    BY <2>1, GroupsAreFinite, FS_EmptySet
  <2> QED
    BY <1>4, <2>1, <2>2, <2>3, GroupsAreFinite
<1> QED
  BY <1>2, <1>3, <1>4

\* A group that does not tell the points apart that threads are moved between
\* keeps its members.
LEMMA SameGroup ==
  ASSUME NEW P, \A w \in Threads : worker'[w] \in P <=> worker[w] \in P
  PROVE  In(P)' = In(P)
BY DEF In

\* The busy threads are live.
LEMMA BusyAreLive ==
  Cardinality(In(Busy)) <= Cardinality(In(Live))
<1>1. In(Busy) \in SUBSET In(Live)
  BY DEF In, Live
<1> QED
  BY <1>1, GroupsAreFinite, FS_Subset

\* maybeGrowLocked and reserve: elastic threads are added up to the target,
\* counted, and nothing else happens to the threads inside the loop.
LEMMA SpawnCounts ==
  ASSUME TypeOK, ThreadCounts,
         NEW target \in Nat, target <= Max, SpawnElastic(target)
  PROVE  /\ worker' \in [Threads -> Points]
         /\ failures' \in 0..MaxCreationFailures
         /\ live' \in live..Max
         /\ live' = Cardinality(In(Live)')
         /\ In(Busy)' = In(Busy)
         /\ At("waiting")' = At("waiting")
         /\ At("popped")' = At("popped")
         /\ At("top") \subseteq At("top")'
<1> DEFINE missing == IF live < target THEN target - live ELSE 0
<1>1. PICK S \in SUBSET {w \in Threads : Reaped[w] = "none"} :
        /\ \/ Cardinality(S) = missing /\ UNCHANGED failures
           \/ /\ Cardinality(S) < missing
              /\ failures < MaxCreationFailures
              /\ failures' = failures + 1
        /\ worker' = [w \in Threads |-> IF w \in S THEN "top" ELSE Reaped[w]]
        /\ live' = live + Cardinality(S)
  BY DEF SpawnElastic
<1>2. IsFiniteSet(S) /\ Cardinality(S) \in Nat
  BY BoundsAssumption, FS_Subset, FS_CardinalityType
<1>3. \A w \in Threads :
        /\ w \in S => worker[w] \in {"none", "finished"} /\ worker'[w] = "top"
        /\ w \notin S => \/ worker'[w] = worker[w]
                         \/ worker[w] = "finished" /\ worker'[w] = "none"
  BY <1>1 DEF Reaped, TypeOK, Points
<1>4. worker' \in [Threads -> Points]
  BY <1>1 DEF Reaped, TypeOK, Points, Live
<1>5. failures' \in 0..MaxCreationFailures
  BY <1>1, BoundsAssumption DEF TypeOK
<1>6. live' \in live..Max
  BY <1>1, <1>2, OptionsAssumption DEF TypeOK
<1>7. In(Live)' = In(Live) \cup S /\ In(Live) \cap S = {}
  BY <1>1, <1>3 DEF In, Live, Busy
<1>8. Cardinality(In(Live) \cup S) = Cardinality(In(Live)) + Cardinality(S)
  <2>1. Cardinality(In(Live) \cap S) = 0
    BY <1>7, FS_EmptySet
  <2> QED
    BY <1>2, <2>1, GroupsAreFinite, FS_Union
<1>9. In(Busy)' = In(Busy) /\ At("waiting")' = At("waiting")
        /\ At("popped")' = At("popped") /\ At("top") \subseteq At("top")'
  BY <1>1, <1>3 DEF In, At, Busy
<1> QED
  BY <1>1, <1>4, <1>5, <1>6, <1>7, <1>8, <1>9 DEF ThreadCounts

-----------------------------------------------------------------------------
(* The bookkeeping invariant, action by action.                            *)

\* What does not touch the threads, the deque or the counters.
LEMMA QuietStep ==
  ASSUME Bookkeeping, TypeOK',
         UNCHANGED <<worker, live, active, submitted, completed, cancelled>>,
         Len(tasks') = Len(tasks), state' = "Created" => state = "Created"
  PROVE  Bookkeeping'
<1>1. In(Live)' = In(Live) /\ In(Busy)' = In(Busy)
  BY DEF In
<1> QED
  BY <1>1 DEF Bookkeeping, ThreadCounts, Conservation, Fresh

\* A worker's move between two points outside or two points inside the loop,
\* that does not change whether it is busy.
LEMMA QuietMove ==
  ASSUME Bookkeeping, TypeOK', NEW w \in Threads, NEW from, NEW to,
         Move(w, from, to), from # "none",
         from \in Live <=> to \in Live, from \in Busy <=> to \in Busy,
         UNCHANGED <<state, tasks, live, active, submitted, completed, cancelled>>
  PROVE  Bookkeeping'
<1>1. worker \in [Threads -> Points]
  BY DEF Bookkeeping, TypeOK
<1>2. In(Live)' = In(Live) /\ In(Busy)' = In(Busy)
  BY <1>1, MoveCounts
<1>3. Fresh'
  BY DEF Bookkeeping, Fresh, Move
<1> QED
  BY <1>2, <1>3 DEF Bookkeeping, ThreadCounts, Conservation

LEMMA BookkeepingInit == Init => Bookkeeping
<1> SUFFICES ASSUME Init
             PROVE  Bookkeeping
  OBVIOUS
<1>1. tasks \in Seq(Tasks) /\ Len(tasks) <= QueueCapacity
  BY OptionsAssumption DEF Init
<1>2. 0 \in 0..Max /\ 0 \in 0..MaxCreationFailures
  BY OptionsAssumption, BoundsAssumption
<1>3. TypeOK
  BY <1>1, <1>2 DEF Init, TypeOK, JobStates, Points
<1>4. In(Live) = {} /\ In(Busy) = {}
  BY DEF Init, In, Live, Busy
<1>5. ThreadCounts
  BY <1>4, FS_EmptySet DEF Init, ThreadCounts
<1>6. Conservation /\ Fresh
  BY DEF Init, Conservation, Fresh
<1> QED
  BY <1>3, <1>5, <1>6 DEF Bookkeeping

LEMMA AdmitStep ==
  ASSUME Bookkeeping, NEW t \in Tasks, CanAdmit, Admit(t)
  PROVE  Bookkeeping'
<1> DEFINE target == Desired(Len(tasks) + 1)
<1>1. /\ tasks' \in Seq(Tasks)
      /\ Len(tasks') = Len(tasks) + 1
      /\ Len(tasks) \in Nat
  BY DEF Bookkeeping, TypeOK, Admit
<1>2. target \in Nat /\ target <= Max
  BY <1>1, OptionsAssumption DEF Desired, Least, Bookkeeping, TypeOK
<1>3. SpawnElastic(target)
  BY DEF Admit
<1>4. /\ worker' \in [Threads -> Points]
      /\ failures' \in 0..MaxCreationFailures
      /\ live' \in live..Max
      /\ live' = Cardinality(In(Live)')
      /\ In(Busy)' = In(Busy)
  <2> HIDE DEF target
  <2> QED
    BY <1>2, <1>3, SpawnCounts DEF Bookkeeping
<1>5. TypeOK'
  BY <1>1, <1>4, OptionsAssumption
  DEF Bookkeeping, TypeOK, Admit, CanAdmit, HasSpace, JobStates
<1>6. ThreadCounts'
  BY <1>4 DEF Bookkeeping, ThreadCounts, Admit
<1>7. Conservation'
  BY <1>1 DEF Bookkeeping, Conservation, Admit, TypeOK
<1>8. Fresh'
  BY DEF Fresh, Admit, CanAdmit
<1> QED
  BY <1>5, <1>6, <1>7, <1>8 DEF Bookkeeping

LEMMA RefuseOrBlockStep ==
  ASSUME Bookkeeping, NEW t \in Tasks, Refuse(t) \/ Block(t)
  PROVE  Bookkeeping'
<1>1. TypeOK'
  BY DEF Bookkeeping, TypeOK, Refuse, Block, JobStates, threadVars, statVars
<1> QED
  BY <1>1, QuietStep DEF Refuse, Block, threadVars, statVars

LEMMA SubmitterSteps ==
  ASSUME Bookkeeping, NEW t \in Tasks,
         Post(t) \/ PostForBlocks(t) \/ SpaceTimeout(t) \/ SubmitterStep(t)
  PROVE  Bookkeeping'
<1>1. CASE Post(t) \/ PostForBlocks(t) \/ SpaceTimeout(t) \/ SpaceWake(t)
  BY <1>1, AdmitStep, RefuseOrBlockStep
  DEF Post, PostForBlocks, SpaceTimeout, SpaceWake
<1>2. CASE NotifyAccepted(t)
  <2>1. TypeOK'
    BY <1>2 DEF Bookkeeping, TypeOK, NotifyAccepted, NotifyTask, Points, Live,
                statVars
  <2>2. \A w \in Threads : worker'[w] # worker[w] =>
                             worker[w] = "waiting" /\ worker'[w] = "top"
    BY <1>2 DEF NotifyAccepted, NotifyTask, At, Bookkeeping, TypeOK
  <2>3. In(Live)' = In(Live) /\ In(Busy)' = In(Busy)
    BY <2>2, SameGroup DEF Live, Busy
  <2>4. ThreadCounts' /\ Conservation' /\ Fresh'
    BY <1>2, <2>2, <2>3
    DEF Bookkeeping, ThreadCounts, Conservation, Fresh, NotifyAccepted, statVars
  <2> QED
    BY <2>1, <2>4 DEF Bookkeeping
<1> QED
  BY <1>1, <1>2 DEF SubmitterStep

LEMMA ReserveStep ==
  ASSUME Bookkeeping, NEW target \in 1..(Max + 1), Reserve(target)
  PROVE  Bookkeeping'
<1> DEFINE bounded == Least(target, Max)
<1>1. bounded \in Nat /\ bounded <= Max
  BY OptionsAssumption DEF Least
<1>2. SpawnElastic(bounded)
  BY DEF Reserve
<1>3. /\ worker' \in [Threads -> Points]
      /\ failures' \in 0..MaxCreationFailures
      /\ live' \in live..Max
      /\ live' = Cardinality(In(Live)')
      /\ In(Busy)' = In(Busy)
  <2> HIDE DEF bounded
  <2> QED
    BY <1>1, <1>2, SpawnCounts DEF Bookkeeping
<1>4. TypeOK'
  BY <1>3, OptionsAssumption DEF Bookkeeping, TypeOK, Reserve, queueVars
<1>5. ThreadCounts' /\ Conservation' /\ Fresh'
  BY <1>3 DEF Bookkeeping, ThreadCounts, Conservation, Fresh, Reserve, queueVars
<1> QED
  BY <1>4, <1>5 DEF Bookkeeping

\* A worker gives up its place: live_threads goes down with it.
LEMMA LeaveStep ==
  ASSUME Bookkeeping, NEW w \in Threads, NEW from \in {"top", "waiting"},
         Leave(w, from)
  PROVE  Bookkeeping'
<1>1. worker \in [Threads -> Points] /\ Move(w, from, "leaving")
  BY DEF Bookkeeping, TypeOK, Leave
<1>2. /\ Cardinality(In(Live)') = Cardinality(In(Live)) - 1
      /\ Cardinality(In(Live)) >= 1
      /\ In(Busy)' = In(Busy)
  <2>1. from \in Live /\ "leaving" \notin Live
    BY DEF Live, Busy
  <2>2. from \notin Busy /\ "leaving" \notin Busy
    BY DEF Busy
  <2> QED
    BY <1>1, <2>1, <2>2, MoveCounts
<1>3. TypeOK'
  BY <1>1, <1>2, OptionsAssumption
  DEF Bookkeeping, TypeOK, ThreadCounts, Leave, Move, Points, queueVars, statVars
<1>4. ThreadCounts' /\ Conservation'
  BY <1>2
  DEF Bookkeeping, TypeOK, ThreadCounts, Conservation, Leave, queueVars, statVars
<1>5. Fresh'
  BY <1>1 DEF Bookkeeping, Fresh, Leave, Move
<1> QED
  BY <1>3, <1>4, <1>5 DEF Bookkeeping

LEMMA TakeTaskStep ==
  ASSUME Bookkeeping, NEW w \in Threads, TakeTask(w)
  PROVE  Bookkeeping'
<1>1. worker \in [Threads -> Points] /\ Move(w, "top", "popped")
  BY DEF Bookkeeping, TypeOK, TakeTask
<1>2. In(Live)' = In(Live) /\ Cardinality(In(Busy)') = Cardinality(In(Busy)) + 1
  <2>1. "top" \in Live /\ "popped" \in Live /\ "top" \notin Busy /\ "popped" \in Busy
    BY DEF Live, Busy
  <2> QED
    BY <1>1, <2>1, MoveCounts
<1>3. /\ Head(tasks) \in Tasks
      /\ tasks' \in Seq(Tasks)
      /\ Len(tasks') = Len(tasks) - 1
      /\ Len(tasks) \in Nat
  BY DEF Bookkeeping, TypeOK, TakeTask
<1>4. Cardinality(In(Busy)') <= Cardinality(In(Live)')
  <2>1. In(Busy)' \in SUBSET In(Live)'
    BY DEF In, Live
  <2> QED
    BY <1>2, <2>1, GroupsAreFinite, FS_Subset
<1>5. active' \in 0..Max
  BY <1>2, <1>4, OptionsAssumption, GroupsAreFinite
  DEF Bookkeeping, TypeOK, ThreadCounts, TakeTask
<1>6. TypeOK'
  BY <1>1, <1>3, <1>5, OptionsAssumption
  DEF Bookkeeping, TypeOK, TakeTask, Move, Points, Live, Busy, JobStates, statVars
<1>7. ThreadCounts'
  BY <1>2 DEF Bookkeeping, ThreadCounts, TakeTask
<1>8. Conservation'
  BY <1>3 DEF Bookkeeping, TypeOK, Conservation, TakeTask, statVars
<1>9. Fresh'
  BY <1>1 DEF Bookkeeping, Fresh, TakeTask, Move
<1> QED
  BY <1>6, <1>7, <1>8, <1>9 DEF Bookkeeping

LEMMA CountTaskStep ==
  ASSUME Bookkeeping, NEW w \in Threads, CountTask(w)
  PROVE  Bookkeeping'
<1>1. worker \in [Threads -> Points] /\ Move(w, "executed", "announce")
  BY DEF Bookkeeping, TypeOK, CountTask
<1>2. /\ In(Live)' = In(Live)
      /\ Cardinality(In(Busy)') = Cardinality(In(Busy)) - 1
      /\ Cardinality(In(Busy)) >= 1
  <2>1. /\ "executed" \in Live /\ "announce" \in Live
        /\ "executed" \in Busy /\ "announce" \notin Busy
    BY DEF Live, Busy
  <2> QED
    BY <1>1, <2>1, MoveCounts
<1>3. TypeOK'
  BY <1>1, <1>2, OptionsAssumption
  DEF Bookkeeping, TypeOK, ThreadCounts, CountTask, Move, Points, Live, queueVars
<1>4. ThreadCounts' /\ Conservation'
  BY <1>2
  DEF Bookkeeping, TypeOK, ThreadCounts, Conservation, CountTask, queueVars
<1>5. Fresh'
  BY <1>1 DEF Bookkeeping, Fresh, CountTask, Move
<1> QED
  BY <1>3, <1>4, <1>5 DEF Bookkeeping

LEMMA WorkerSteps ==
  ASSUME Bookkeeping, NEW w \in Threads, WorkerStep(w) \/ WorkerTimeout(w)
  PROVE  Bookkeeping'
<1> USE DEF queueVars, statVars
<1>1. CASE WorkerWaits(w)
  <2>1. TypeOK'
    BY <1>1 DEF Bookkeeping, TypeOK, WorkerWaits, Move, Points, Live
  <2>2. Move(w, "top", "waiting")
    BY <1>1 DEF WorkerWaits
  <2> QED
    BY <1>1, <2>1, <2>2, QuietMove DEF WorkerWaits, Live, Busy
<1>2. CASE WorkerExits(w)
  BY <1>2, LeaveStep DEF WorkerExits
<1>3. CASE TakeTask(w)
  BY <1>3, TakeTaskStep
<1>4. CASE AnnounceSpace(w)
  <2>1. TypeOK'
    BY <1>4 DEF Bookkeeping, TypeOK, AnnounceSpace, NotifySpace, Move, Points,
                Live, Busy, JobStates, Submitter
  <2>2. Move(w, "popped", "running")
    BY <1>4 DEF AnnounceSpace
  <2> QED
    BY <1>4, <2>1, <2>2, QuietMove DEF AnnounceSpace, Live, Busy
<1>5. CASE RunTask(w)
  <2>1. TypeOK'
    BY <1>5 DEF Bookkeeping, TypeOK, RunTask, Move, Points, Live, Busy, JobStates
  <2>2. Move(w, "running", "executed")
    BY <1>5 DEF RunTask
  <2> QED
    BY <1>5, <2>1, <2>2, QuietMove DEF RunTask, Live, Busy
<1>6. CASE CountTask(w)
  BY <1>6, CountTaskStep
<1>7. CASE AnnounceIdle(w)
  <2>1. TypeOK'
    BY <1>7 DEF Bookkeeping, TypeOK, AnnounceIdle, NotifyIdle, Move, Points, Live
  <2>2. Move(w, "announce", "top")
    BY <1>7 DEF AnnounceIdle
  <2> QED
    BY <1>7, <2>1, <2>2, QuietMove DEF AnnounceIdle, Live, Busy
<1>8. CASE Finish(w)
  <2>1. TypeOK'
    BY <1>8 DEF Bookkeeping, TypeOK, Finish, NotifyIdle, Move, Points
  <2>2. Move(w, "leaving", "finished")
    BY <1>8 DEF Finish
  <2> QED
    BY <1>8, <2>1, <2>2, QuietMove DEF Finish, Live, Busy
<1>9. CASE WorkerTimeout(w)
  <2>1. CASE Leave(w, "waiting")
    BY <2>1, LeaveStep
  <2>2. CASE ~Leave(w, "waiting")
    <3>1. TypeOK'
      BY <1>9, <2>2
      DEF Bookkeeping, TypeOK, WorkerTimeout, Move, Points, Live
    <3>2. Move(w, "waiting", "top")
      BY <1>9, <2>2 DEF WorkerTimeout
    <3> QED
      BY <1>9, <2>2, <3>1, <3>2, QuietMove DEF WorkerTimeout, Live, Busy
  <2> QED
    BY <2>1, <2>2
<1> QED
  BY <1>1, <1>2, <1>3, <1>4, <1>5, <1>6, <1>7, <1>8, <1>9 DEF WorkerStep

\* start(): the first threads are the only ones, whether or not all of the
\* core workers could be created.
LEMMA StartSteps ==
  ASSUME Bookkeeping, Start \/ StartFails
  PROVE  Bookkeeping'
<1> USE DEF queueVars, statVars
<1>1. PICK S \in SUBSET Threads :
        /\ Cardinality(S) <= Core
        /\ worker' = [w \in Threads |-> IF w \in S THEN "top" ELSE worker[w]]
        /\ core' = S
        /\ live' = live + Cardinality(S)
  <2>1. ASSUME NEW S \in SUBSET Threads
        PROVE  Cardinality(S) \in Nat
    BY BoundsAssumption, FS_Subset, FS_CardinalityType
  <2> QED
    BY <2>1, OptionsAssumption DEF Start, StartFails
<1>2. \A w \in Threads : worker[w] = "none"
  BY DEF Bookkeeping, Fresh, Start, StartFails
<1>3. In(Live) = {} /\ In(Busy) = {}
  BY <1>2 DEF In, Live, Busy
<1>4. In(Live)' = S /\ In(Busy)' = {}
  BY <1>1, <1>2 DEF In, Live, Busy
<1>5. live = 0 /\ active = 0
  BY <1>3, FS_EmptySet DEF Bookkeeping, ThreadCounts
<1>6. Cardinality(S) \in 0..Max
  BY <1>1, BoundsAssumption, OptionsAssumption, FS_Subset, FS_CardinalityType
<1>7. TypeOK'
  <2>1. worker' \in [Threads -> Points] /\ core' \subseteq Threads /\ live' \in 0..Max
    BY <1>1, <1>5, <1>6 DEF Bookkeeping, TypeOK, Points, Live
  <2>2. CASE Start
    BY <2>1, <2>2 DEF Bookkeeping, TypeOK, Start
  <2>3. CASE StartFails
    <3>1. failures' \in 0..MaxCreationFailures
      BY <2>3, BoundsAssumption DEF Bookkeeping, TypeOK, StartFails
    <3> QED
      BY <2>1, <2>3, <3>1 DEF Bookkeeping, TypeOK, StartFails
  <2> QED
    BY <2>2, <2>3
<1>8. ThreadCounts'
  BY <1>1, <1>4, <1>5, <1>6, FS_EmptySet
  DEF Bookkeeping, ThreadCounts, Start, StartFails
<1>9. Conservation' /\ Fresh'
  BY DEF Bookkeeping, Conservation, Fresh, Start, StartFails
<1> QED
  BY <1>7, <1>8, <1>9 DEF Bookkeeping

\* Joining every thread leaves none, and there was none left to count.
LEMMA JoinSteps ==
  ASSUME Bookkeeping, StartUnwinds \/ JoinAll
  PROVE  Bookkeeping'
<1> USE DEF queueVars, statVars
<1>1. In(Live) = {} /\ In(Busy) = {}
  BY DEF StartUnwinds, JoinAll, AllJoinable, In, Live, Busy
<1>2. live = 0 /\ active = 0
  BY <1>1, FS_EmptySet DEF Bookkeeping, ThreadCounts
<1>3. In(Live)' = {} /\ In(Busy)' = {}
  BY DEF StartUnwinds, JoinAll, DropRecords, In, Live, Busy
<1>4. TypeOK'
  BY <1>2, OptionsAssumption
  DEF Bookkeeping, TypeOK, StartUnwinds, JoinAll, DropRecords, Points
<1>5. ThreadCounts'
  BY <1>2, <1>3, FS_EmptySet DEF ThreadCounts, StartUnwinds, JoinAll
<1>6. Conservation' /\ Fresh'
  BY DEF Bookkeeping, Conservation, Fresh, StartUnwinds, JoinAll, DropRecords
<1> QED
  BY <1>4, <1>5, <1>6 DEF Bookkeeping

LEMMA ShutdownSteps ==
  ASSUME Bookkeeping, ShutdownUnstarted \/ ShutdownDrain \/ ShutdownCancel
  PROVE  Bookkeeping'
<1> USE DEF queueVars, statVars
<1>1. worker' = Reaped /\ state' # "Created" /\ UNCHANGED <<live, active>>
  BY DEF ShutdownUnstarted, ShutdownDrain, ShutdownCancel
<1>2. In(Live)' = In(Live) /\ In(Busy)' = In(Busy)
  BY <1>1 DEF Reaped, In, Live, Busy
<1>3. worker' \in [Threads -> Points]
  BY <1>1 DEF Reaped, Bookkeeping, TypeOK, Points
<1>4. /\ tasks' \in Seq(Tasks) /\ Len(tasks') <= QueueCapacity
      /\ Len(tasks') \in Nat /\ Len(tasks) \in Nat
      /\ cancelled' + Len(tasks') = cancelled + Len(tasks)
  <2>1. CASE UNCHANGED <<tasks, cancelled>>
    BY <2>1 DEF Bookkeeping, TypeOK
  <2>2. CASE tasks' = <<>> /\ cancelled' = cancelled + Len(tasks)
    <3>1. Len(tasks) \in Nat /\ Len(<<>>) = 0 /\ <<>> \in Seq(Tasks)
      BY DEF Bookkeeping, TypeOK
    <3> QED
      BY <2>2, <3>1, OptionsAssumption DEF Bookkeeping, TypeOK
  <2> QED
    BY <2>1, <2>2
    DEF ShutdownUnstarted, ShutdownDrain, ShutdownCancel, CountCancelled
<1>5. cancelled' \in Nat
  BY DEF Bookkeeping, TypeOK, ShutdownUnstarted, ShutdownDrain, ShutdownCancel,
         CountCancelled
<1>6. job' \in [Tasks -> JobStates]
  BY DEF Bookkeeping, TypeOK, ShutdownUnstarted, ShutdownDrain, ShutdownCancel,
         JobStates
<1>7. TypeOK'
  BY <1>3, <1>4, <1>5, <1>6
  DEF Bookkeeping, TypeOK, ShutdownUnstarted, ShutdownDrain, ShutdownCancel
<1>8. ThreadCounts' /\ Fresh'
  BY <1>1, <1>2 DEF Bookkeeping, ThreadCounts, Fresh
<1>9. Conservation'
  <2>1. UNCHANGED <<submitted, active, completed>>
    BY DEF ShutdownUnstarted, ShutdownDrain, ShutdownCancel
  <2>2. active \in Nat /\ completed \in Nat /\ cancelled \in Nat
    BY OptionsAssumption DEF Bookkeeping, TypeOK
  <2>3. submitted = Len(tasks) + active + completed + cancelled
    BY DEF Bookkeeping, Conservation
  <2>4. submitted' = Len(tasks') + active' + completed' + cancelled'
    BY <1>4, <1>5, <2>1, <2>2, <2>3
  <2> QED
    BY <2>4 DEF Conservation
<1> QED
  BY <1>7, <1>8, <1>9 DEF Bookkeeping

LEMMA WakeStep ==
  ASSUME Bookkeeping, WakeAll
  PROVE  Bookkeeping'
<1>1. TypeOK'
  BY DEF Bookkeeping, TypeOK, WakeAll, Points, Live, JobStates, statVars
<1>2. \A w \in Threads : worker'[w] # worker[w] =>
                           worker[w] = "waiting" /\ worker'[w] = "top"
  BY DEF WakeAll
<1>3. In(Live)' = In(Live) /\ In(Busy)' = In(Busy)
  BY <1>2, SameGroup DEF Live, Busy
<1> QED
  BY <1>1, <1>2, <1>3
  DEF Bookkeeping, ThreadCounts, Conservation, Fresh, WakeAll, statVars

\* What only the owner, or only the thread in waitIdleFor, takes part in.
LEMMA OutsideSteps ==
  ASSUME Bookkeeping,
         \/ WaitIdleBlocks \/ WaitIdleWakes \/ WaitIdleTimeout
         \/ BreakPromises \/ ShutdownReturns \/ UNCHANGED vars
  PROVE  Bookkeeping'
<1> USE DEF queueVars, threadVars, statVars, otherThanWaiter, vars
<1>1. TypeOK'
  BY DEF Bookkeeping, TypeOK, WaitIdleBlocks, WaitIdleWakes, WaitIdleTimeout,
         BreakPromises, ShutdownReturns, NotifyIdle, JobStates
<1>2. UNCHANGED <<worker, live, active, submitted, completed, cancelled,
                  tasks, state>>
  BY DEF WaitIdleBlocks, WaitIdleWakes, WaitIdleTimeout, BreakPromises,
         ShutdownReturns
<1> QED
  BY <1>1, <1>2, QuietStep

LEMMA BookkeepingStep == Bookkeeping /\ [Next]_vars => Bookkeeping'
<1> SUFFICES ASSUME Bookkeeping, [Next]_vars
             PROVE  Bookkeeping'
  OBVIOUS
<1>1. CASE \E t \in Tasks : Post(t) \/ PostForBlocks(t) \/ SpaceTimeout(t)
  BY <1>1, SubmitterSteps
<1>2. CASE \E t \in Tasks : SubmitterStep(t)
  BY <1>2, SubmitterSteps
<1>3. CASE \E target \in 1..(Max + 1) : Reserve(target)
  BY <1>3, ReserveStep
<1>4. CASE \E w \in Threads : WorkerStep(w) \/ WorkerTimeout(w)
  BY <1>4, WorkerSteps
<1>5. CASE Start \/ StartFails
  BY <1>5, StartSteps
<1>6. CASE ShutdownUnstarted \/ ShutdownDrain \/ ShutdownCancel
  BY <1>6, ShutdownSteps
<1>7. CASE OwnerStep
  BY <1>7, JoinSteps, WakeStep, OutsideSteps DEF OwnerStep
<1>8. CASE \/ WaitIdleBlocks \/ WaitIdleWakes \/ WaitIdleTimeout
           \/ Terminated \/ UNCHANGED vars
  BY <1>8, OutsideSteps DEF Terminated
<1> QED
  BY <1>1, <1>2, <1>3, <1>4, <1>5, <1>6, <1>7, <1>8 DEF Next

LEMMA BookkeepingHolds == Spec => []Bookkeeping
<1>1. Init => Bookkeeping
  BY BookkeepingInit
<1>2. Bookkeeping /\ [Next]_vars => Bookkeeping'
  BY BookkeepingStep
<1> QED
  BY <1>1, <1>2, PTL DEF Spec

\* The pool keeps to max_threads and queue_capacity whatever its callers do,
\* and none of its counters is ever decremented below zero.
THEOREM TypeCorrect == Spec => []TypeOK
BY BookkeepingHolds, PTL DEF Bookkeeping

\* statistics(): every accepted task is counted exactly once.
THEOREM TasksAreConserved == Spec => []Conservation
BY BookkeepingHolds, PTL DEF Bookkeeping

\* live_threads and active_threads are exact at every release of the mutex.
THEOREM CountsAreExact == Spec => []ThreadCounts
BY BookkeepingHolds, PTL DEF Bookkeeping

-----------------------------------------------------------------------------
(***************************************************************************)
(* No wake-up of the ThreadPool is lost: proofs of WorkerWakeup,           *)
(* SpaceWakeup and RecordsStable for every number of tasks and threads.    *)
(*                                                                         *)
(* WorkerWakeup and SpaceWakeup are not inductive: a worker that takes a   *)
(* task uses up the place it has on the right-hand side, while more tasks  *)
(* than sleepers may be queued.  What the code really maintains is         *)
(* stronger and simpler: whenever some worker sleeps, EVERY queued task    *)
(* has a notification or an awake worker of its own (a worker only goes to *)
(* sleep on an empty deque); whenever some submitter sleeps, EVERY free    *)
(* place has one (a submitter only goes to sleep on a full deque).         *)
(***************************************************************************)

\* Before its task is in the deque, the submitter of a task has not done
\* anything for it.
Calling == {"new", "blocked", "woken"}
Past ==
  /\ \A t \in notifying : job[t] \notin Calling
  /\ \A i \in 1..Len(tasks) : job[tasks[i]] \notin Calling
  /\ \A w \in Threads : held[w] # NoTask => job[held[w]] \notin Calling

\* The owner walks the records only of a pool that accepts nothing.
Phases ==
  /\ stopping => state \in {"Stopping", "Stopped"}
  /\ owner \in {"unwinding", "dropping", "waking", "joining"} =>
       state \in {"Draining", "Stopping"}

WorkersWake ==
  IF state = "Running"
  THEN At("waiting") # {} =>
         Len(tasks) <= Cardinality(notifying) + Cardinality(At("top"))
  ELSE At("waiting") = {} \/ owner \in {"dropping", "waking"}

SubmittersWake ==
  IF state = "Running"
  THEN Submitter("blocked") # {} =>
         QueueCapacity - Len(tasks)
           <= Cardinality(At("popped")) + Cardinality(Submitter("woken"))
  ELSE Submitter("blocked") = {} \/ owner \in {"dropping", "waking"}

Wakeful == Past /\ Phases /\ WorkersWake /\ SubmittersWake

-----------------------------------------------------------------------------
(* Counting.                                                               *)

LEMMA TasksAreFinite ==
  ASSUME TypeOK, NEW s
  PROVE  /\ IsFiniteSet(Submitter(s)) /\ Cardinality(Submitter(s)) \in Nat
         /\ IsFiniteSet(notifying) /\ Cardinality(notifying) \in Nat
<1>1. Submitter(s) \in SUBSET Tasks /\ notifying \in SUBSET Tasks
  BY DEF Submitter, TypeOK
<1>2. IsFiniteSet(Tasks)
  BY BoundsAssumption
<1>3. IsFiniteSet(Submitter(s)) /\ IsFiniteSet(notifying)
  BY <1>1, <1>2, FS_Subset
<1> QED
  BY <1>3, FS_CardinalityType

\* A thread that moves changes the number of threads at three kinds of points.
LEMMA MoveAt ==
  ASSUME TypeOK, NEW w \in Threads, NEW from, NEW to, from # to,
         Move(w, from, to)
  PROVE  /\ \A p : p # from /\ p # to => At(p)' = At(p)
         /\ Cardinality(At(to)') = Cardinality(At(to)) + 1
         /\ Cardinality(At(from)') = Cardinality(At(from)) - 1
         /\ At(from)' \subseteq At(from)
         /\ Cardinality(At(from)) \in Nat /\ Cardinality(At(to)) \in Nat
<1>1. worker \in [Threads -> Points]
  BY DEF TypeOK
<1>2. \A p : p # from /\ p # to => At(p)' = At(p)
  BY <1>1 DEF At, Move
<1>3. /\ At(to) = In({to}) /\ At(to)' = In({to})'
      /\ At(from) = In({from}) /\ At(from)' = In({from})'
  BY DEF At, In
<1>4. Cardinality(At(to)') = Cardinality(At(to)) + 1
  <2>1. from \notin {to} /\ to \in {to}
    OBVIOUS
  <2> QED
    BY <1>1, <1>3, <2>1, MoveCounts
<1>5. Cardinality(At(from)') = Cardinality(At(from)) - 1
  <2>1. from \in {from} /\ to \notin {from}
    OBVIOUS
  <2> QED
    BY <1>1, <1>3, <2>1, MoveCounts
<1>6. At(from)' \subseteq At(from)
  BY <1>1 DEF At, Move
<1> QED
  BY <1>2, <1>4, <1>5, <1>6, GroupsAreFinite

\* A submitter that leaves, or joins, the submitters at some point.
LEMMA SubmitterLeaves ==
  ASSUME TypeOK, NEW s, NEW t \in Tasks,
         Submitter(s)' = Submitter(s) \ {t}
  PROVE  Cardinality(Submitter(s)') >= Cardinality(Submitter(s)) - 1
<1>1. IsFiniteSet(Submitter(s)) /\ Cardinality(Submitter(s)) \in Nat
  BY TasksAreFinite
<1>2. Cardinality(Submitter(s) \ {t}) =
        IF t \in Submitter(s) THEN Cardinality(Submitter(s)) - 1
                             ELSE Cardinality(Submitter(s))
  BY <1>1, FS_RemoveElement
<1> QED
  BY <1>1, <1>2

LEMMA SubmitterJoins ==
  ASSUME TypeOK, NEW s, NEW t \in Tasks, t \notin Submitter(s),
         Submitter(s)' = Submitter(s) \cup {t}
  PROVE  Cardinality(Submitter(s)') = Cardinality(Submitter(s)) + 1
BY TasksAreFinite, FS_AddElement

\* What the invariant allows a new owner of a point: nothing that was in a
\* smaller group is lost.
LEMMA LargerGroup ==
  ASSUME NEW p, At(p) \subseteq At(p)'
  PROVE  Cardinality(At(p)') >= Cardinality(At(p))
<1>1. IsFiniteSet(At(p)')
  <2>1. At(p)' \in SUBSET Threads
    BY DEF At
  <2> QED
    BY <2>1, BoundsAssumption, FS_Subset
<1> QED
  BY <1>1, FS_Subset

-----------------------------------------------------------------------------
(* Past and Phases.                                                        *)

LEMMA PastStep ==
  ASSUME Bookkeeping, Past, [Next]_vars
  PROVE  Past'
<1> USE DEF queueVars, threadVars, statVars, vars
<1>1. TypeOK
  BY DEF Bookkeeping
<1>2. ASSUME NEW t \in Tasks, Admit(t), job[t] \in Calling
      PROVE  Past'
  <2>1. /\ tasks' = Append(tasks, t) /\ notifying' = notifying \cup {t}
        /\ held' = held /\ job' = [job EXCEPT ![t] = "queued"]
    BY <1>2 DEF Admit
  <2>2. /\ Len(tasks') = Len(tasks) + 1 /\ Len(tasks) \in Nat
        /\ tasks'[Len(tasks) + 1] = t
        /\ \A i \in 1..Len(tasks) : tasks'[i] = tasks[i] /\ tasks[i] \in Tasks
    BY <1>1, <2>1 DEF TypeOK
  <2>3. \A u \in Tasks : job[u] \notin Calling => job'[u] \notin Calling
    BY <1>1, <2>1 DEF TypeOK, Calling
  <2>4. job'[t] \notin Calling
    BY <1>1, <2>1 DEF TypeOK, Calling
  <2>5. \A x \in notifying' : job'[x] \notin Calling
    BY <1>1, <2>1, <2>3, <2>4 DEF Past, TypeOK
  <2>6. \A i \in 1..Len(tasks') : job'[tasks'[i]] \notin Calling
    BY <2>2, <2>3, <2>4 DEF Past
  <2>7. \A w \in Threads : held'[w] # NoTask => job'[held'[w]] \notin Calling
    BY <1>1, <2>1, <2>3 DEF Past, TypeOK
  <2> QED
    BY <2>5, <2>6, <2>7 DEF Past
<1>3. ASSUME \A u \in Tasks : job[u] \notin Calling => job'[u] \notin Calling,
             notifying' \subseteq notifying, UNCHANGED <<tasks, held>>
      PROVE  Past'
  BY <1>1, <1>3 DEF Past, TypeOK
<1>4. ASSUME NEW t \in Tasks, job[t] \in Calling, Refuse(t) \/ Block(t)
      PROVE  Past'
  <2>1. \A u \in Tasks : job[u] \notin Calling => job'[u] \notin Calling
    BY <1>1, <1>4 DEF TypeOK, Refuse, Block
  <2> QED
    BY <1>3, <1>4, <2>1 DEF Refuse, Block
<1>5. CASE \E t \in Tasks : Post(t) \/ PostForBlocks(t) \/ SpaceTimeout(t) \/ SpaceWake(t)
  BY <1>2, <1>4, <1>5 DEF Post, PostForBlocks, SpaceTimeout, SpaceWake, Calling
<1>6. CASE \E t \in Tasks : NotifyAccepted(t)
  BY <1>3, <1>6 DEF NotifyAccepted
<1>7. CASE \E target \in 1..(Max + 1) : Reserve(target)
  BY <1>3, <1>7 DEF Reserve
<1>8. ASSUME NEW w \in Threads, TakeTask(w)
      PROVE  Past'
  <2>1. /\ tasks' = Tail(tasks) /\ notifying' = notifying /\ tasks # <<>>
        /\ held' = [held EXCEPT ![w] = Head(tasks)]
        /\ job' = [job EXCEPT ![Head(tasks)] = "running"]
    BY <1>8 DEF TakeTask
  <2>2. /\ Len(tasks') = Len(tasks) - 1 /\ Len(tasks) \in Nat
        /\ Head(tasks) \in Tasks
        /\ \A i \in 1..Len(tasks') :
             tasks'[i] = tasks[i + 1] /\ i + 1 \in 1..Len(tasks)
        /\ \A i \in 1..Len(tasks) : tasks[i] \in Tasks
    BY <1>1, <2>1 DEF TypeOK
  <2>3. \A u \in Tasks : job[u] \notin Calling => job'[u] \notin Calling
    BY <1>1, <2>1 DEF TypeOK, Calling
  <2>4. job'[Head(tasks)] \notin Calling
    BY <1>1, <2>1, <2>2 DEF TypeOK, Calling
  <2>5. \A x \in notifying' : job'[x] \notin Calling
    BY <1>1, <2>1, <2>3 DEF Past, TypeOK
  <2>6. \A i \in 1..Len(tasks') : job'[tasks'[i]] \notin Calling
    BY <2>2, <2>3 DEF Past
  <2>7. \A v \in Threads : held'[v] # NoTask => job'[held'[v]] \notin Calling
    BY <1>1, <2>1, <2>3, <2>4 DEF Past, TypeOK
  <2> QED
    BY <2>5, <2>6, <2>7 DEF Past
<1>9. ASSUME NEW w \in Threads, RunTask(w)
      PROVE  Past'
  <2>1. \A u \in Tasks : job[u] \notin Calling => job'[u] \notin Calling
    BY <1>1, <1>9 DEF TypeOK, RunTask, Calling
  <2>2. \A v \in Threads : held'[v] # NoTask => held'[v] = held[v]
    BY <1>1, <1>9 DEF TypeOK, RunTask
  <2> QED
    BY <1>1, <1>9, <2>1, <2>2 DEF Past, RunTask, TypeOK
<1>10. ASSUME NEW w \in Threads, AnnounceSpace(w)
       PROVE  Past'
  <2>1. \A u \in Tasks : job[u] \notin Calling => job'[u] \notin Calling
    BY <1>1, <1>10 DEF TypeOK, AnnounceSpace, NotifySpace, Submitter, Calling
  <2> QED
    BY <1>3, <1>10, <2>1 DEF AnnounceSpace
<1>11. CASE \E w \in Threads :
              WorkerWaits(w) \/ WorkerExits(w) \/ CountTask(w) \/ AnnounceIdle(w)
                \/ Finish(w) \/ WorkerTimeout(w)
  BY <1>3, <1>11
  DEF WorkerWaits, WorkerExits, CountTask, AnnounceIdle, Finish, WorkerTimeout, Leave
<1>12. CASE \/ Start \/ StartFails \/ ShutdownUnstarted \/ ShutdownDrain
            \/ StartUnwinds \/ JoinAll \/ ShutdownReturns
            \/ WaitIdleBlocks \/ WaitIdleWakes \/ WaitIdleTimeout
            \/ Terminated \/ UNCHANGED vars
  BY <1>3, <1>12
  DEF Start, StartFails, ShutdownUnstarted, ShutdownDrain, StartUnwinds, JoinAll,
      ShutdownReturns, WaitIdleBlocks, WaitIdleWakes, WaitIdleTimeout, Terminated,
      otherThanWaiter
<1>13. CASE ShutdownCancel
  <2>1. \A u \in Tasks : job[u] \notin Calling => job'[u] \notin Calling
    BY <1>1, <1>13 DEF TypeOK, ShutdownCancel, Calling
  <2>2. Len(tasks') = 0
    BY <1>13 DEF ShutdownCancel
  <2> QED
    BY <1>1, <1>13, <2>1, <2>2 DEF Past, ShutdownCancel, TypeOK
<1>14. CASE BreakPromises \/ WakeAll
  <2>1. \A u \in Tasks : job[u] \notin Calling => job'[u] \notin Calling
    BY <1>1, <1>14 DEF TypeOK, BreakPromises, WakeAll, Calling
  <2> QED
    BY <1>3, <1>14, <2>1 DEF BreakPromises, WakeAll
<1> QED
  BY <1>5, <1>6, <1>7, <1>8, <1>9, <1>10, <1>11, <1>12, <1>13, <1>14
  DEF Next, SubmitterStep, WorkerStep, OwnerStep

LEMMA PhasesStep ==
  ASSUME Phases, [Next]_vars
  PROVE  Phases'
<1> USE DEF queueVars, threadVars, statVars, vars
<1>1. CASE UNCHANGED <<state, stopping, owner>>
  BY <1>1 DEF Phases
<1>2. CASE Start \/ StartFails \/ ShutdownUnstarted \/ ShutdownDrain \/ ShutdownCancel
  BY <1>2
  DEF Phases, Start, StartFails, ShutdownUnstarted, ShutdownDrain, ShutdownCancel
<1>3. CASE OwnerStep
  BY <1>3 DEF Phases, OwnerStep, StartUnwinds, BreakPromises, WakeAll, JoinAll,
              DropRecords, ShutdownReturns
<1>4. CASE \E t \in Tasks : Post(t) \/ PostForBlocks(t) \/ SpaceTimeout(t)
                              \/ SubmitterStep(t)
  BY <1>1, <1>4 DEF Post, PostForBlocks, SpaceTimeout, SubmitterStep, SpaceWake,
                    NotifyAccepted, Admit, Refuse, Block
<1>5. CASE \E w \in Threads : WorkerStep(w) \/ WorkerTimeout(w)
  BY <1>1, <1>5 DEF WorkerStep, WorkerTimeout, WorkerWaits, WorkerExits, TakeTask,
                    AnnounceSpace, RunTask, CountTask, AnnounceIdle, Finish, Leave
<1>6. CASE \/ \E target \in 1..(Max + 1) : Reserve(target)
           \/ WaitIdleBlocks \/ WaitIdleWakes \/ WaitIdleTimeout
           \/ Terminated \/ UNCHANGED vars
  BY <1>1, <1>6 DEF Reserve, WaitIdleBlocks, WaitIdleWakes, WaitIdleTimeout,
                    Terminated, otherThanWaiter
<1> QED
  BY <1>2, <1>3, <1>4, <1>5, <1>6 DEF Next

-----------------------------------------------------------------------------
(* WorkersWake.                                                            *)

\* Nothing that could cost a sleeping worker its wake-up.
LEMMA WorkersWakeQuiet ==
  ASSUME Bookkeeping, WorkersWake,
         UNCHANGED <<state, tasks, notifying>>,
         owner' = owner \/ owner' \in {"dropping", "waking"},
         At("waiting")' \subseteq At("waiting"),
         At("top") \subseteq At("top")'
  PROVE  WorkersWake'
<1>1. Cardinality(At("top")') >= Cardinality(At("top"))
  BY LargerGroup
<1>2. /\ Cardinality(At("top")) \in Nat /\ Cardinality(notifying) \in Nat
      /\ Len(tasks) \in Nat
  BY GroupsAreFinite, TasksAreFinite DEF Bookkeeping, TypeOK
<1>3. Cardinality(At("top")') \in Nat
  <2>1. At("top")' \in SUBSET Threads
    BY DEF At
  <2> QED
    BY <2>1, BoundsAssumption, FS_Subset, FS_CardinalityType
<1>4. CASE state = "Running"
  BY <1>1, <1>2, <1>3, <1>4 DEF WorkersWake
<1>5. CASE state # "Running"
  BY <1>5 DEF WorkersWake
<1> QED
  BY <1>4, <1>5

LEMMA WorkersWakeAdmit ==
  ASSUME Bookkeeping, Past, WorkersWake, NEW t \in Tasks,
         job[t] \in Calling, CanAdmit, Admit(t)
  PROVE  WorkersWake'
<1>1. TypeOK /\ state = "Running" /\ state' = "Running"
  BY DEF Bookkeeping, CanAdmit, Admit
<1>2. Len(tasks') = Len(tasks) + 1 /\ Len(tasks) \in Nat
  BY <1>1 DEF TypeOK, Admit
<1>3. /\ notifying' = notifying \cup {t} /\ t \notin notifying
  BY DEF Past, Admit
<1>4. Cardinality(notifying') = Cardinality(notifying) + 1
  BY <1>1, <1>3, TasksAreFinite, FS_AddElement
<1>5. At("waiting")' = At("waiting") /\ At("top") \subseteq At("top")'
  <2> DEFINE target == Desired(Len(tasks) + 1)
  <2>1. target \in Nat /\ target <= Max
    BY <1>1, <1>2, OptionsAssumption DEF Desired, Least, TypeOK
  <2>2. SpawnElastic(target)
    BY DEF Admit
  <2> HIDE DEF target
  <2> QED
    BY <2>1, <2>2, SpawnCounts DEF Bookkeeping
<1>6. Cardinality(At("top")') >= Cardinality(At("top"))
  BY <1>5, LargerGroup
<1>7. /\ Cardinality(At("top")) \in Nat /\ Cardinality(notifying) \in Nat
  BY <1>1, GroupsAreFinite, TasksAreFinite
<1>8. Cardinality(At("top")') \in Nat
  <2>1. At("top")' \in SUBSET Threads
    BY DEF At
  <2> QED
    BY <2>1, BoundsAssumption, FS_Subset, FS_CardinalityType
<1> QED
  BY <1>1, <1>2, <1>4, <1>5, <1>6, <1>7, <1>8 DEF WorkersWake

LEMMA WorkersWakeNotify ==
  ASSUME Bookkeeping, WorkersWake, NEW t \in Tasks, NotifyAccepted(t)
  PROVE  WorkersWake'
<1>1. /\ TypeOK /\ UNCHANGED <<state, tasks, owner>>
      /\ notifying' = notifying \ {t} /\ t \in notifying /\ NotifyTask
  BY DEF Bookkeeping, NotifyAccepted
<1>2. CASE At("waiting") = {} /\ UNCHANGED worker
  BY <1>1, <1>2 DEF WorkersWake, At
<1>3. ASSUME NEW w \in At("waiting"), worker' = [worker EXCEPT ![w] = "top"]
      PROVE  WorkersWake'
  <2>1. w \in Threads /\ Move(w, "waiting", "top")
    BY <1>3 DEF At, Move
  <2>2. /\ Cardinality(At("top")') = Cardinality(At("top")) + 1
        /\ At("waiting")' \subseteq At("waiting")
        /\ Cardinality(At("top")) \in Nat
    BY <1>1, <2>1, MoveAt
  <2>3. /\ Cardinality(notifying') = Cardinality(notifying) - 1
        /\ Cardinality(notifying) \in Nat
    BY <1>1, TasksAreFinite, FS_RemoveElement
  <2>4. Len(tasks) \in Nat
    BY <1>1 DEF TypeOK
  <2> QED
    BY <1>1, <1>3, <2>2, <2>3, <2>4 DEF WorkersWake
<1> QED
  BY <1>1, <1>2, <1>3 DEF NotifyTask

\* A worker takes a task: its own awake worker is used up with it.
LEMMA WorkersWakeTake ==
  ASSUME Bookkeeping, WorkersWake, NEW w \in Threads, TakeTask(w)
  PROVE  WorkersWake'
<1>1. /\ TypeOK /\ Move(w, "top", "popped")
      /\ UNCHANGED <<state, notifying, owner>>
      /\ tasks' = Tail(tasks) /\ tasks # <<>>
  BY DEF Bookkeeping, TakeTask
<1>2. Len(tasks') = Len(tasks) - 1 /\ Len(tasks) \in Nat
  BY <1>1 DEF TypeOK
<1>3. /\ Cardinality(At("top")') = Cardinality(At("top")) - 1
      /\ Cardinality(At("top")) \in Nat
      /\ At("waiting")' = At("waiting")
  BY <1>1, MoveAt
<1>4. Cardinality(notifying) \in Nat
  BY <1>1, TasksAreFinite
<1> QED
  BY <1>1, <1>2, <1>3, <1>4 DEF WorkersWake

\* A worker sleeps, or retires, only when there is nothing to do.
LEMMA WorkersWakeNothingToDo ==
  ASSUME Bookkeeping, WorkersWake, ~Ready, UNCHANGED <<state, tasks, notifying, owner>>
  PROVE  WorkersWake'
<1>1. state' = "Running" /\ Len(tasks') = 0
  BY DEF Ready
<1>2. Cardinality(notifying') \in Nat
  BY TasksAreFinite DEF Bookkeeping
<1>3. Cardinality(At("top")') \in Nat
  <2>1. At("top")' \in SUBSET Threads
    BY DEF At
  <2> QED
    BY <2>1, BoundsAssumption, FS_Subset, FS_CardinalityType
<1> QED
  BY <1>1, <1>2, <1>3 DEF WorkersWake

LEMMA WorkersWakeStep ==
  ASSUME Bookkeeping, Past, Phases, WorkersWake, [Next]_vars
  PROVE  WorkersWake'
<1> USE DEF queueVars, threadVars, statVars, vars
<1>1. TypeOK
  BY DEF Bookkeeping
<1>2. CASE \E t \in Tasks : Post(t) \/ PostForBlocks(t) \/ SpaceTimeout(t) \/ SpaceWake(t)
  <2>1. PICK t \in Tasks : Post(t) \/ PostForBlocks(t) \/ SpaceTimeout(t) \/ SpaceWake(t)
    BY <1>2
  <2>2. job[t] \in Calling /\ ((CanAdmit /\ Admit(t)) \/ Refuse(t) \/ Block(t))
    BY <2>1 DEF Post, PostForBlocks, SpaceTimeout, SpaceWake, Calling
  <2>3. CASE Refuse(t) \/ Block(t)
    BY <2>3, WorkersWakeQuiet DEF Refuse, Block, At
  <2> QED
    BY <2>2, <2>3, WorkersWakeAdmit
<1>3. CASE \E t \in Tasks : NotifyAccepted(t)
  BY <1>3, WorkersWakeNotify
<1>4. ASSUME NEW target \in 1..(Max + 1), Reserve(target)
      PROVE  WorkersWake'
  <2> DEFINE bounded == Least(target, Max)
  <2>1. bounded \in Nat /\ bounded <= Max
    BY OptionsAssumption DEF Least
  <2>2. SpawnElastic(bounded)
    BY <1>4 DEF Reserve
  <2>3. At("waiting")' = At("waiting") /\ At("top") \subseteq At("top")'
    <3> HIDE DEF bounded
    <3> QED
      BY <2>1, <2>2, SpawnCounts DEF Bookkeeping
  <2> QED
    BY <1>4, <2>3, WorkersWakeQuiet DEF Reserve
<1>5. ASSUME NEW w \in Threads, WorkerStep(w) \/ WorkerTimeout(w)
      PROVE  WorkersWake'
  <2>1. CASE WorkerWaits(w) \/ (Retires(w) /\ Leave(w, "waiting"))
    BY <2>1, WorkersWakeNothingToDo DEF WorkerWaits, Retires, Leave
  <2>2. CASE WorkerExits(w)
    <3>1. state # "Running" /\ UNCHANGED <<state, owner>>
      BY <2>2 DEF WorkerExits, Leave, Phases
    <3>2. At("waiting")' = At("waiting")
      BY <1>1, <2>2, MoveAt DEF WorkerExits, Leave
    <3> QED
      BY <3>1, <3>2 DEF WorkersWake
  <2>3. CASE TakeTask(w)
    BY <2>3, WorkersWakeTake
  <2>4. CASE \/ AnnounceSpace(w) \/ RunTask(w) \/ CountTask(w) \/ AnnounceIdle(w)
             \/ Finish(w)
    <3>1. PICK from \in {"popped", "running", "executed", "announce", "leaving"},
               to \in {"running", "executed", "announce", "top", "finished"} :
            Move(w, from, to)
      BY <2>4 DEF AnnounceSpace, RunTask, CountTask, AnnounceIdle, Finish
    <3>2. At("waiting")' = At("waiting") /\ At("top") \subseteq At("top")'
      BY <1>1, <3>1 DEF At, Move, TypeOK
    <3>3. UNCHANGED <<state, tasks, notifying, owner>>
      BY <2>4 DEF AnnounceSpace, RunTask, CountTask, AnnounceIdle, Finish
    <3> QED
      BY <3>2, <3>3, WorkersWakeQuiet
  <2>5. CASE WorkerTimeout(w) /\ ~(Retires(w) /\ Leave(w, "waiting"))
    <3>1. Move(w, "waiting", "top") /\ UNCHANGED <<state, tasks, notifying, owner>>
      BY <2>5 DEF WorkerTimeout
    <3>2. At("waiting")' \subseteq At("waiting") /\ At("top") \subseteq At("top")'
      BY <1>1, <3>1 DEF At, Move, TypeOK
    <3> QED
      BY <3>1, <3>2, WorkersWakeQuiet
  <2> QED
    BY <1>5, <2>1, <2>2, <2>3, <2>4, <2>5 DEF WorkerStep
<1>6. CASE Start \/ StartFails
  <2>1. \A v \in Threads : worker[v] = "none"
    BY <1>6 DEF Bookkeeping, Fresh, Start, StartFails
  <2>2. At("waiting")' = {}
    BY <1>6, <2>1 DEF At, Start, StartFails
  <2> QED
    BY <2>2 DEF WorkersWake
<1>7. CASE ShutdownUnstarted
  <2>1. At("waiting")' = At("waiting")
    BY <1>1, <1>7 DEF At, ShutdownUnstarted, Reaped, TypeOK
  <2> QED
    BY <1>7, <2>1 DEF WorkersWake, ShutdownUnstarted
<1>8. CASE ShutdownDrain \/ ShutdownCancel \/ BreakPromises
  <2>1. owner' \in {"dropping", "waking"}
    BY <1>8 DEF ShutdownDrain, ShutdownCancel, BreakPromises
  <2>2. state' # "Running"
    BY <1>8 DEF ShutdownDrain, ShutdownCancel, BreakPromises, Phases
  <2> QED
    BY <2>1, <2>2 DEF WorkersWake
<1>9. CASE WakeAll \/ StartUnwinds \/ JoinAll
  <2>1. At("waiting")' = {}
    BY <1>1, <1>9 DEF At, WakeAll, StartUnwinds, JoinAll, DropRecords, TypeOK
  <2> QED
    BY <2>1 DEF WorkersWake
<1>10. CASE ShutdownReturns
  <2>1. UNCHANGED <<state, worker, tasks, notifying>> /\ owner = "announcing"
    BY <1>10 DEF ShutdownReturns
  <2>2. UNCHANGED <<At("waiting"), At("top")>>
    BY <2>1 DEF At
  <2> QED
    BY <2>1, <2>2 DEF WorkersWake
<1>11. CASE \/ WaitIdleBlocks \/ WaitIdleWakes \/ WaitIdleTimeout
            \/ Terminated \/ UNCHANGED vars
  <2>1. UNCHANGED <<state, worker, tasks, notifying, owner>>
    BY <1>11 DEF WaitIdleBlocks, WaitIdleWakes, WaitIdleTimeout, Terminated,
                 otherThanWaiter
  <2>2. UNCHANGED <<At("waiting"), At("top")>>
    BY <2>1 DEF At
  <2> QED
    BY <2>1, <2>2 DEF WorkersWake
<1> QED
  BY <1>2, <1>3, <1>4, <1>5, <1>6, <1>7, <1>8, <1>9, <1>10, <1>11
  DEF Next, SubmitterStep, OwnerStep

-----------------------------------------------------------------------------
(* SubmittersWake.                                                         *)

\* Nothing that could cost a sleeping submitter its wake-up.
LEMMA SubmittersWakeQuiet ==
  ASSUME SubmittersWake, UNCHANGED <<state, tasks, job>>,
         owner' = owner \/ owner' \in {"dropping", "waking"}
                  \/ owner \notin {"dropping", "waking"},
         At("popped")' = At("popped")
  PROVE  SubmittersWake'
<1>1. \A s : Submitter(s)' = Submitter(s)
  BY DEF Submitter
<1> QED
  BY <1>1 DEF SubmittersWake

LEMMA SubmittersWakeAdmit ==
  ASSUME Bookkeeping, SubmittersWake, NEW t \in Tasks,
         job[t] \in Calling, CanAdmit, Admit(t)
  PROVE  SubmittersWake'
<1>1. TypeOK /\ state = "Running" /\ state' = "Running"
  BY DEF Bookkeeping, CanAdmit, Admit
<1>2. Len(tasks') = Len(tasks) + 1 /\ Len(tasks) \in Nat
  BY <1>1 DEF TypeOK, Admit
<1>3. /\ Submitter("blocked")' \subseteq Submitter("blocked")
      /\ Submitter("woken")' = Submitter("woken") \ {t}
  BY <1>1 DEF TypeOK, Admit, Submitter
<1>4. Cardinality(Submitter("woken")') >= Cardinality(Submitter("woken")) - 1
  BY <1>1, <1>3, SubmitterLeaves
<1>5. At("popped")' = At("popped")
  <2> DEFINE target == Desired(Len(tasks) + 1)
  <2>1. target \in Nat /\ target <= Max
    BY <1>1, <1>2, OptionsAssumption DEF Desired, Least, TypeOK
  <2>2. SpawnElastic(target)
    BY DEF Admit
  <2> HIDE DEF target
  <2> QED
    BY <2>1, <2>2, SpawnCounts DEF Bookkeeping
<1>6. /\ Cardinality(Submitter("woken")) \in Nat
      /\ Cardinality(At("popped")) \in Nat
  BY <1>1, TasksAreFinite, GroupsAreFinite
<1>7. Cardinality(Submitter("woken")') \in Nat
  <2>1. IsFiniteSet(Submitter("woken") \ {t})
    BY <1>1, TasksAreFinite, FS_RemoveElement
  <2> QED
    BY <1>3, <2>1, FS_CardinalityType
<1> QED
  BY <1>1, <1>2, <1>3, <1>4, <1>5, <1>6, <1>7, OptionsAssumption DEF SubmittersWake

\* A submission is refused, or a submitter goes to sleep.
LEMMA SubmittersWakeRefuse ==
  ASSUME Bookkeeping, SubmittersWake, NEW t \in Tasks,
         \/ Refuse(t) /\ ~CanAdmit
         \/ Block(t) /\ state = "Running" /\ ~HasSpace
  PROVE  SubmittersWake'
<1>1. TypeOK /\ UNCHANGED <<state, tasks, worker, owner>>
  BY DEF Bookkeeping, Refuse, Block, threadVars
<1>2. At("popped")' = At("popped")
  BY <1>1 DEF At
<1>3. CASE state = "Running"
  <2>1. QueueCapacity - Len(tasks) <= 0
    BY <1>1, <1>3, OptionsAssumption DEF TypeOK, CanAdmit, HasSpace
  <2>2. Cardinality(Submitter("woken")') \in Nat
    <3>1. Submitter("woken")' \in SUBSET Tasks
      BY DEF Submitter
    <3> QED
      BY <3>1, BoundsAssumption, FS_Subset, FS_CardinalityType
  <2>3. Cardinality(At("popped")) \in Nat /\ Len(tasks) \in Nat
    BY <1>1, GroupsAreFinite DEF TypeOK
  <2> QED
    BY <1>1, <1>2, <1>3, <2>1, <2>2, <2>3, OptionsAssumption DEF SubmittersWake
<1>4. CASE state # "Running"
  <2>1. Submitter("blocked")' \subseteq Submitter("blocked")
    BY <1>1, <1>4 DEF TypeOK, Refuse, Submitter
  <2> QED
    BY <1>1, <1>4, <2>1 DEF SubmittersWake
<1> QED
  BY <1>3, <1>4

\* A worker takes a task: it owes the free place a notification.
LEMMA SubmittersWakeTake ==
  ASSUME Bookkeeping, Past, SubmittersWake, NEW w \in Threads, TakeTask(w)
  PROVE  SubmittersWake'
<1>1. /\ TypeOK /\ Move(w, "top", "popped") /\ UNCHANGED <<state, owner>>
      /\ tasks' = Tail(tasks) /\ tasks # <<>>
      /\ job' = [job EXCEPT ![Head(tasks)] = "running"]
  BY DEF Bookkeeping, TakeTask
<1>2. /\ Len(tasks') = Len(tasks) - 1 /\ Len(tasks) \in Nat
      /\ 1 \in 1..Len(tasks) /\ Head(tasks) = tasks[1]
  BY <1>1 DEF TypeOK
<1>3. Cardinality(At("popped")') = Cardinality(At("popped")) + 1
      /\ Cardinality(At("popped")) \in Nat
  BY <1>1, MoveAt
<1>4. job[Head(tasks)] \notin Calling
  BY <1>2 DEF Past
<1>5. \A s \in {"blocked", "woken"} : Submitter(s)' = Submitter(s)
  BY <1>1, <1>4 DEF TypeOK, Submitter, Calling
<1>6. Cardinality(Submitter("woken")) \in Nat
  BY <1>1, TasksAreFinite
<1> QED
  BY <1>1, <1>2, <1>3, <1>5, <1>6, OptionsAssumption DEF SubmittersWake

\* It pays the debt: a sleeping submitter is awake instead.
LEMMA SubmittersWakeAnnounce ==
  ASSUME Bookkeeping, SubmittersWake, NEW w \in Threads, AnnounceSpace(w)
  PROVE  SubmittersWake'
<1>1. /\ TypeOK /\ Move(w, "popped", "running") /\ UNCHANGED <<state, tasks, owner>>
      /\ NotifySpace
  BY DEF Bookkeeping, AnnounceSpace
<1>2. /\ Cardinality(At("popped")') = Cardinality(At("popped")) - 1
      /\ Cardinality(At("popped")) \in Nat
  BY <1>1, MoveAt
<1>3. CASE Submitter("blocked") = {} /\ UNCHANGED job
  BY <1>1, <1>3 DEF SubmittersWake, Submitter
<1>4. ASSUME NEW t \in Submitter("blocked"), job' = [job EXCEPT ![t] = "woken"]
      PROVE  SubmittersWake'
  <2>1. /\ t \in Tasks /\ t \notin Submitter("woken")
        /\ Submitter("woken")' = Submitter("woken") \cup {t}
        /\ Submitter("blocked")' \subseteq Submitter("blocked")
    BY <1>1, <1>4 DEF TypeOK, Submitter
  <2>2. Cardinality(Submitter("woken")') = Cardinality(Submitter("woken")) + 1
    BY <1>1, <2>1, SubmitterJoins
  <2>3. Cardinality(Submitter("woken")) \in Nat /\ Len(tasks) \in Nat
    BY <1>1, TasksAreFinite DEF TypeOK
  <2> QED
    BY <1>1, <1>2, <1>4, <2>1, <2>2, <2>3, OptionsAssumption DEF SubmittersWake
<1> QED
  BY <1>1, <1>3, <1>4 DEF NotifySpace

LEMMA SubmittersWakeStep ==
  ASSUME Bookkeeping, Past, Phases, SubmittersWake, [Next]_vars
  PROVE  SubmittersWake'
<1> USE DEF queueVars, threadVars, statVars, vars
<1>1. TypeOK
  BY DEF Bookkeeping
<1>2. CASE \E t \in Tasks : Post(t) \/ PostForBlocks(t) \/ SpaceTimeout(t) \/ SpaceWake(t)
  <2>1. PICK t \in Tasks : Post(t) \/ PostForBlocks(t) \/ SpaceTimeout(t) \/ SpaceWake(t)
    BY <1>2
  <2>2. job[t] \in Calling
    BY <2>1 DEF Post, PostForBlocks, SpaceTimeout, SpaceWake, Calling
  <2>3. \/ CanAdmit /\ Admit(t)
        \/ ~CanAdmit /\ Refuse(t)
        \/ Block(t) /\ state = "Running" /\ ~HasSpace
    BY <2>1 DEF Post, PostForBlocks, SpaceTimeout, SpaceWake, CanAdmit
  <2> QED
    BY <2>2, <2>3, SubmittersWakeAdmit, SubmittersWakeRefuse
<1>3. ASSUME NEW t \in Tasks, NotifyAccepted(t)
      PROVE  SubmittersWake'
  <2>1. At("popped")' = At("popped")
    BY <1>1, <1>3 DEF NotifyAccepted, NotifyTask, At, TypeOK
  <2> QED
    BY <1>3, <2>1, SubmittersWakeQuiet DEF NotifyAccepted
<1>4. ASSUME NEW target \in 1..(Max + 1), Reserve(target)
      PROVE  SubmittersWake'
  <2> DEFINE bounded == Least(target, Max)
  <2>1. bounded \in Nat /\ bounded <= Max
    BY OptionsAssumption DEF Least
  <2>2. SpawnElastic(bounded)
    BY <1>4 DEF Reserve
  <2>3. At("popped")' = At("popped")
    <3> HIDE DEF bounded
    <3> QED
      BY <2>1, <2>2, SpawnCounts DEF Bookkeeping
  <2> QED
    BY <1>4, <2>3, SubmittersWakeQuiet DEF Reserve
<1>5. ASSUME NEW w \in Threads, WorkerStep(w) \/ WorkerTimeout(w)
      PROVE  SubmittersWake'
  <2>1. CASE TakeTask(w)
    BY <2>1, SubmittersWakeTake
  <2>2. CASE AnnounceSpace(w)
    BY <2>2, SubmittersWakeAnnounce
  <2>3. CASE RunTask(w)
    <3>1. UNCHANGED <<state, tasks, owner>> /\ At("popped")' = At("popped")
      BY <1>1, <2>3 DEF RunTask, At, Move, TypeOK
    <3>2. \A s \in {"blocked", "woken"} : Submitter(s)' = Submitter(s)
      <4>1. held[w] \in Tasks => job[held[w]] \notin Calling
        BY BoundsAssumption DEF Past
      <4>2. job' = [job EXCEPT ![held[w]] = "done"]
        BY <2>3 DEF RunTask
      <4>3. \A u \in Tasks : \/ job'[u] = job[u]
                             \/ job[u] \notin Calling /\ job'[u] = "done"
        BY <1>1, <4>1, <4>2 DEF TypeOK
      <4> QED
        BY <4>3 DEF Submitter, Calling
    <3> QED
      BY <3>1, <3>2 DEF SubmittersWake
  <2>4. CASE \/ WorkerWaits(w) \/ WorkerExits(w) \/ CountTask(w) \/ AnnounceIdle(w)
             \/ Finish(w) \/ WorkerTimeout(w)
    <3>1. PICK from \in Points \ {"popped"}, to \in Points \ {"popped"} :
            Move(w, from, to)
      BY <2>4 DEF WorkerWaits, WorkerExits, CountTask, AnnounceIdle, Finish,
                  WorkerTimeout, Leave, Points, Live, Busy
    <3>2. At("popped")' = At("popped")
      BY <1>1, <3>1 DEF At, Move, TypeOK
    <3>3. UNCHANGED <<state, tasks, job, owner>>
      BY <2>4 DEF WorkerWaits, WorkerExits, CountTask, AnnounceIdle, Finish,
                  WorkerTimeout, Leave
    <3> QED
      BY <3>2, <3>3, SubmittersWakeQuiet
  <2> QED
    BY <1>5, <2>1, <2>2, <2>3, <2>4 DEF WorkerStep
<1>6. CASE Start \/ StartFails \/ ShutdownUnstarted \/ StartUnwinds \/ JoinAll
  <2>1. Submitter("blocked") = {}
    BY <1>6 DEF SubmittersWake, Phases, Start, StartFails, ShutdownUnstarted,
                StartUnwinds, JoinAll
  <2>2. Submitter("blocked")' = {}
    BY <1>6, <2>1 DEF Submitter, Start, StartFails, ShutdownUnstarted,
                      StartUnwinds, JoinAll
  <2> QED
    BY <2>2 DEF SubmittersWake
<1>7. CASE ShutdownDrain \/ ShutdownCancel \/ BreakPromises
  <2>1. owner' \in {"dropping", "waking"}
    BY <1>7 DEF ShutdownDrain, ShutdownCancel, BreakPromises
  <2>2. state' # "Running"
    BY <1>7 DEF ShutdownDrain, ShutdownCancel, BreakPromises, Phases
  <2> QED
    BY <2>1, <2>2 DEF SubmittersWake
<1>8. CASE WakeAll
  <2>1. Submitter("blocked")' = {}
    BY <1>1, <1>8 DEF Submitter, WakeAll, TypeOK
  <2> QED
    BY <2>1 DEF SubmittersWake
<1>9. CASE \/ WaitIdleBlocks \/ WaitIdleWakes \/ WaitIdleTimeout
           \/ Terminated \/ ShutdownReturns \/ UNCHANGED vars
  <2>1. /\ UNCHANGED <<state, worker, tasks, job>>
        /\ owner' = owner \/ owner \notin {"dropping", "waking"}
    BY <1>9 DEF WaitIdleBlocks, WaitIdleWakes, WaitIdleTimeout, Terminated,
                ShutdownReturns, otherThanWaiter
  <2>2. At("popped")' = At("popped")
    BY <2>1 DEF At
  <2> QED
    BY <2>1, <2>2, SubmittersWakeQuiet
<1> QED
  BY <1>2, <1>3, <1>4, <1>5, <1>6, <1>7, <1>8, <1>9
  DEF Next, SubmitterStep, OwnerStep

-----------------------------------------------------------------------------
(* The theorems.                                                           *)

LEMMA WakefulInit == Init => Wakeful
<1> SUFFICES ASSUME Init
             PROVE  Wakeful
  OBVIOUS
<1>1. Past
  BY DEF Init, Past
<1>2. Phases
  BY DEF Init, Phases
<1>3. WorkersWake /\ SubmittersWake
  BY DEF Init, WorkersWake, SubmittersWake, At, Submitter
<1> QED
  BY <1>1, <1>2, <1>3 DEF Wakeful

LEMMA WakefulHolds == Spec => [](Bookkeeping /\ Wakeful)
<1>1. Init => Wakeful
  BY WakefulInit
<1>2. Bookkeeping /\ Wakeful /\ [Next]_vars => Wakeful'
  BY PastStep, PhasesStep, WorkersWakeStep, SubmittersWakeStep DEF Wakeful
<1> QED
  BY <1>1, <1>2, BookkeepingHolds, PTL DEF Spec

\* As long as workers sleep while tasks are queued, enough notifications are
\* under way or workers on their way to the deque to reach those tasks, and a
\* closing pool leaves no worker asleep behind its notify_all.
THEOREM NoWorkerOversleeps == Spec => []WorkerWakeup
<1>1. Bookkeeping /\ Wakeful => WorkerWakeup
  <2> SUFFICES ASSUME Bookkeeping, Wakeful
               PROVE  WorkerWakeup
    OBVIOUS
  <2>1. /\ Len(tasks) \in Nat
        /\ Cardinality(notifying) \in Nat
        /\ Cardinality(At("top")) \in Nat
        /\ Cardinality(At("waiting")) \in Nat
    BY GroupsAreFinite, TasksAreFinite DEF Bookkeeping, TypeOK
  <2>2. CASE At("waiting") = {}
    <3>1. Cardinality(At("waiting")) = 0
      BY <2>2, FS_EmptySet
    <3> QED
      BY <2>1, <2>2, <3>1 DEF WorkerWakeup, Least
  <2>3. CASE At("waiting") # {}
    BY <2>1, <2>3 DEF Wakeful, WorkersWake, WorkerWakeup, Least
  <2> QED
    BY <2>2, <2>3
<1> QED
  BY <1>1, WakefulHolds, PTL

\* As long as submitters sleep while the deque has room, a worker that has
\* taken a task is about to notify one, or one is awake, for each free place.
THEOREM NoSubmitterOversleeps == Spec => []SpaceWakeup
<1>1. Bookkeeping /\ Wakeful => SpaceWakeup
  <2> SUFFICES ASSUME Bookkeeping, Wakeful
               PROVE  SpaceWakeup
    OBVIOUS
  <2>1. /\ QueueCapacity - Len(tasks) \in Nat
        /\ Cardinality(At("popped")) \in Nat
        /\ Cardinality(Submitter("woken")) \in Nat
        /\ Cardinality(Submitter("blocked")) \in Nat
    <3>1. Len(tasks) \in Nat /\ Len(tasks) <= QueueCapacity
      BY DEF Bookkeeping, TypeOK
    <3> QED
      BY <3>1, GroupsAreFinite, TasksAreFinite, OptionsAssumption DEF Bookkeeping
  <2>2. CASE Submitter("blocked") = {}
    <3>1. Cardinality(Submitter("blocked")) = 0
      BY <2>2, FS_EmptySet
    <3> QED
      BY <2>1, <2>2, <3>1 DEF SpaceWakeup, Least
  <2>3. CASE Submitter("blocked") # {}
    BY <2>1, <2>3 DEF Wakeful, SubmittersWake, SpaceWakeup, Least
  <2> QED
    BY <2>2, <2>3
<1> QED
  BY <1>1, WakefulHolds, PTL

\* While the owner walks the vector of worker records without the mutex, no
\* thread adds or erases a record.
THEOREM RecordsAreStable == Spec => RecordsStable
<1> DEFINE Walking == owner \in {"unwinding", "dropping", "waking", "joining"}
           Stable  == At("none")' = At("none") \/ state' = "Stopped"
<1> USE DEF queueVars, threadVars, statVars, vars
<1>1. ASSUME Bookkeeping, Phases, [Next]_vars, Walking
      PROVE  Stable
  <2>1. state \in {"Draining", "Stopping"} /\ worker \in [Threads -> Points]
    BY <1>1 DEF Phases, Bookkeeping, TypeOK
  <2>2. CASE UNCHANGED worker
    BY <2>2 DEF At
  <2>3. ASSUME NEW t \in Tasks,
               Post(t) \/ PostForBlocks(t) \/ SpaceTimeout(t) \/ SpaceWake(t)
        PROVE  Stable
    BY <2>1, <2>2, <2>3
    DEF Post, PostForBlocks, SpaceTimeout, SpaceWake, CanAdmit, Refuse
  <2>4. ASSUME NEW t \in Tasks, NotifyAccepted(t)
        PROVE  Stable
    BY <2>1, <2>4 DEF NotifyAccepted, NotifyTask, At
  <2>5. ASSUME NEW w \in Threads, WorkerStep(w) \/ WorkerTimeout(w)
        PROVE  Stable
    <3>1. PICK from \in Points \ {"none"}, to \in Points \ {"none"} : Move(w, from, to)
      BY <2>5 DEF WorkerStep, WorkerTimeout, WorkerWaits, WorkerExits, TakeTask,
                  AnnounceSpace, RunTask, CountTask, AnnounceIdle, Finish, Leave,
                  Points, Live, Busy
    <3> QED
      BY <2>1, <3>1 DEF Move, At
  <2>6. CASE OwnerStep
    BY <2>1, <2>2, <2>6 DEF OwnerStep, StartUnwinds, JoinAll, DropRecords,
                            BreakPromises, WakeAll, ShutdownReturns, At
  <2>7. CASE \/ WaitIdleBlocks \/ WaitIdleWakes \/ WaitIdleTimeout
             \/ Terminated \/ UNCHANGED vars
    BY <2>2, <2>7 DEF WaitIdleBlocks, WaitIdleWakes, WaitIdleTimeout, Terminated,
                      otherThanWaiter
  <2>8. CASE \/ Start \/ StartFails \/ ShutdownUnstarted \/ ShutdownDrain
             \/ ShutdownCancel \/ \E target \in 1..(Max + 1) : Reserve(target)
    BY <1>1, <2>1, <2>8
    DEF Start, StartFails, ShutdownUnstarted, ShutdownDrain, ShutdownCancel, Reserve
  <2> QED
    BY <1>1, <2>3, <2>4, <2>5, <2>6, <2>7, <2>8 DEF Next, SubmitterStep
<1>2. Bookkeeping /\ Wakeful /\ [Next]_vars => [Walking => Stable]_vars
  BY <1>1 DEF Wakeful
<1>3. [][Walking => Stable]_vars => RecordsStable
  BY DEF RecordsStable
<1> QED
  BY <1>2, <1>3, WakefulHolds, PTL DEF Spec

-----------------------------------------------------------------------------
(***************************************************************************)
(* ThreadPool implements TaskExecutor, and is provisioned while it runs    *)
(* and quiet once it has stopped, for every number of tasks and threads.   *)
(*                                                                         *)
(* The executor promises that a task is executed once, in its turn, and    *)
(* that nothing is left when it stops.  In the pool that depends on who    *)
(* has a task: the deque, exactly one worker, or the owner that drops it   *)
(* (Deque, Hands, Ended).  That a draining pool empties its deque before   *)
(* its last thread is joined depends on the core workers, which never      *)
(* retire and do not leave while tasks are queued (Staffed).               *)
(***************************************************************************)

\* The points of workerLoop between taking a task and having executed it.
Holding == {"popped", "running"}

\* The deque holds the tasks that are queued, each once.
Deque ==
  /\ \A i \in 1..Len(tasks) : job[tasks[i]] = "queued"
  /\ \A i, j \in 1..Len(tasks) : tasks[i] = tasks[j] => i = j
  /\ \A t \in Tasks : job[t] = "queued" => \E i \in 1..Len(tasks) : tasks[i] = t

\* A task is in progress exactly while one worker holds it.
Hands ==
  /\ \A w \in Threads :
       /\ worker[w] \in Holding => held[w] \in Tasks /\ job[held[w]] = "running"
       /\ worker[w] \notin Holding => held[w] = NoTask
  /\ \A v, w \in Threads : held[v] = held[w] /\ held[v] # NoTask => v = w
  /\ \A t \in Tasks : job[t] = "running" => \E w \in Threads : held[w] = t

\* A pool that does not run has nothing left to do, and nobody to do it.
Ended ==
  /\ tasks # <<>> => state \in {"Running", "Draining"}
  /\ \A t \in Tasks : job[t] = "dropped" => owner = "dropping"
  /\ state = "Stopped" => \A w \in Threads : worker[w] = "none"

\* The core workers stay as long as there is, or may come, something to do.
Staffed ==
  state = "Running" \/ (state = "Draining" /\ tasks # <<>>) =>
    /\ Cardinality(core) = Core
    /\ core \subseteq In(Live)

\* Whatever retires, there are workers for the backlog.
Grown == state = "Running" /\ failures = 0 => live >= Least(Max, active + Len(tasks))

-----------------------------------------------------------------------------
(* Where the tasks are.                                                    *)

\* A step that neither takes nor finishes a task, nor adds or drops one.
Unmoved ==
  /\ UNCHANGED <<tasks, held>>
  /\ \A t \in Tasks : \/ job'[t] = job[t]
                      \/ job[t] \in Calling /\ job'[t] \in Calling \cup {"refused"}
  /\ \A w \in Threads : worker'[w] \in Holding <=> worker[w] \in Holding

Accepts(t) == Admit(t) /\ job[t] \in Calling /\ CanAdmit

LEMMA CallsAreUnmoved ==
  ASSUME Bookkeeping, NEW t \in Tasks,
         Post(t) \/ PostForBlocks(t) \/ SpaceTimeout(t) \/ SubmitterStep(t)
  PROVE  Accepts(t) \/ Unmoved
<1>1. job \in [Tasks -> JobStates] /\ worker \in [Threads -> Points]
  BY DEF Bookkeeping, TypeOK
<1>2. CASE (Refuse(t) \/ Block(t)) /\ job[t] \in Calling
  BY <1>1, <1>2 DEF Refuse, Block, Unmoved, Calling, threadVars
<1>3. CASE NotifyAccepted(t)
  BY <1>1, <1>3 DEF NotifyAccepted, NotifyTask, At, Unmoved, Holding
<1> QED
  BY <1>2, <1>3 DEF Post, PostForBlocks, SpaceTimeout, SubmitterStep, SpaceWake,
                    CanAdmit, Accepts, Calling

LEMMA SpawningIsUnmoved ==
  ASSUME Bookkeeping, NEW target, SpawnElastic(target)
  PROVE  /\ \A w \in Threads : worker'[w] \in Holding <=> worker[w] \in Holding
         /\ \A w \in Threads : worker[w] \in Live => worker'[w] \in Live
         /\ \A w \in Threads : worker[w] = "leaving" => worker'[w] = "leaving"
         /\ failures' >= failures
<1>1. worker \in [Threads -> Points] /\ failures \in Nat
  BY BoundsAssumption DEF Bookkeeping, TypeOK
<1>2. PICK S \in SUBSET {w \in Threads : Reaped[w] = "none"} :
        worker' = [w \in Threads |-> IF w \in S THEN "top" ELSE Reaped[w]]
  BY DEF SpawnElastic
<1>3. \A w \in Threads :
        \/ worker[w] \in {"none", "finished"} /\ worker'[w] \in {"none", "top"}
        \/ worker'[w] = worker[w]
  BY <1>2 DEF Reaped
<1>4. failures' >= failures
  BY <1>1 DEF SpawnElastic
<1> QED
  BY <1>3, <1>4 DEF Holding, Live, Busy

LEMMA StepKinds ==
  ASSUME Bookkeeping, [Next]_vars
  PROVE  \/ \E t \in Tasks : Accepts(t)
         \/ \E w \in Threads : TakeTask(w) \/ RunTask(w)
         \/ ShutdownCancel \/ BreakPromises
         \/ Unmoved
<1> USE DEF queueVars, threadVars, statVars, vars
<1>1. job \in [Tasks -> JobStates] /\ worker \in [Threads -> Points]
  BY DEF Bookkeeping, TypeOK
<1>2. CASE \E t \in Tasks :
             Post(t) \/ PostForBlocks(t) \/ SpaceTimeout(t) \/ SubmitterStep(t)
  BY <1>2, CallsAreUnmoved
<1>3. ASSUME NEW target \in 1..(Max + 1), Reserve(target)
      PROVE  Unmoved
  BY <1>1, <1>3, SpawningIsUnmoved DEF Reserve, Unmoved
<1>4. ASSUME NEW w \in Threads,
             WorkerStep(w) \/ WorkerTimeout(w), ~TakeTask(w), ~RunTask(w)
      PROVE  Unmoved
  <2>1. CASE AnnounceSpace(w)
    <3>1. \A t \in Tasks : \/ job'[t] = job[t]
                           \/ job[t] = "blocked" /\ job'[t] = "woken"
      BY <1>1, <2>1 DEF AnnounceSpace, NotifySpace, Submitter
    <3> QED
      BY <1>1, <2>1, <3>1 DEF AnnounceSpace, Move, Unmoved, Calling, Holding
  <2> QED
    BY <1>1, <1>4, <2>1
    DEF WorkerStep, WorkerTimeout, WorkerWaits, WorkerExits, CountTask, AnnounceIdle,
        Finish, Leave, Move, Unmoved, Holding
<1>5. CASE Start \/ StartFails
  <2>1. \A w \in Threads : worker[w] = "none" /\ worker'[w] \in {"none", "top"}
    BY <1>5 DEF Start, StartFails, Bookkeeping, Fresh
  <2> QED
    BY <1>5, <2>1 DEF Start, StartFails, Unmoved, Holding
<1>6. CASE ShutdownUnstarted \/ ShutdownDrain
  BY <1>1, <1>6 DEF ShutdownUnstarted, ShutdownDrain, Reaped, Unmoved, Holding
<1>7. CASE StartUnwinds \/ JoinAll
  BY <1>1, <1>7 DEF StartUnwinds, JoinAll, DropRecords, AllJoinable, Unmoved, Holding
<1>8. CASE WakeAll
  <2>1. /\ \A t \in Tasks : \/ job'[t] = job[t]
                            \/ job[t] = "blocked" /\ job'[t] = "woken"
        /\ \A w \in Threads : \/ worker'[w] = worker[w]
                              \/ worker[w] = "waiting" /\ worker'[w] = "top"
    BY <1>1, <1>8 DEF WakeAll
  <2> QED
    BY <1>8, <2>1 DEF WakeAll, Unmoved, Calling, Holding
<1>9. CASE \/ ShutdownReturns \/ WaitIdleBlocks \/ WaitIdleWakes \/ WaitIdleTimeout
           \/ Terminated \/ UNCHANGED vars
  BY <1>9 DEF ShutdownReturns, WaitIdleBlocks, WaitIdleWakes, WaitIdleTimeout,
              Terminated, otherThanWaiter, Unmoved
<1> QED
  BY <1>2, <1>3, <1>4, <1>5, <1>6, <1>7, <1>8, <1>9 DEF Next, OwnerStep

\* The facts about the deque the steps rest on.
LEMMA DequeFacts ==
  ASSUME Bookkeeping
  PROVE  /\ Len(tasks) \in Nat /\ tasks \in Seq(Tasks)
         /\ \A i \in 1..Len(tasks) : tasks[i] \in Tasks
         /\ job \in [Tasks -> JobStates] /\ worker \in [Threads -> Points]
         /\ held \in [Threads -> Tasks \cup {NoTask}] /\ NoTask \notin Tasks
         /\ tasks # <<>> => /\ Head(tasks) = tasks[1] /\ Head(tasks) \in Tasks
                            /\ Len(tasks) >= 1
BY BoundsAssumption DEF Bookkeeping, TypeOK

LEMMA DequeStep ==
  ASSUME Bookkeeping, Deque, Hands, [Next]_vars
  PROVE  Deque'
<1>1. ASSUME NEW t \in Tasks, Accepts(t)
      PROVE  Deque'
  <2>1. tasks' = Append(tasks, t) /\ job' = [job EXCEPT ![t] = "queued"]
        /\ job[t] \in Calling
    BY <1>1 DEF Accepts, Admit
  <2>2. /\ Len(tasks') = Len(tasks) + 1
        /\ tasks'[Len(tasks) + 1] = t
        /\ \A i \in 1..Len(tasks) : tasks'[i] = tasks[i] /\ tasks[i] # t
        /\ \A i \in 1..Len(tasks') : i \in 1..Len(tasks) \/ i = Len(tasks) + 1
    BY <2>1, DequeFacts DEF Deque, Calling
  <2>3. \A i \in 1..Len(tasks') : job'[tasks'[i]] = "queued"
    BY <2>1, <2>2, DequeFacts DEF Deque
  <2>4. \A i, j \in 1..Len(tasks') : tasks'[i] = tasks'[j] => i = j
    BY <2>2, DequeFacts DEF Deque
  <2>5. \A u \in Tasks : job'[u] = "queued" => \E i \in 1..Len(tasks') : tasks'[i] = u
    <3> SUFFICES ASSUME NEW u \in Tasks, job'[u] = "queued"
                 PROVE  \E i \in 1..Len(tasks') : tasks'[i] = u
      OBVIOUS
    <3>1. CASE u = t
      <4>1. Len(tasks) + 1 \in 1..Len(tasks')
        BY <2>2, DequeFacts
      <4> QED
        BY <3>1, <4>1, <2>2
    <3>2. CASE u # t
      <4>1. PICK i \in 1..Len(tasks) : tasks[i] = u
        BY <3>2, <2>1, DequeFacts DEF Deque
      <4>2. i \in 1..Len(tasks')
        BY <2>2, DequeFacts
      <4> QED
        BY <4>1, <4>2, <2>2
    <3> QED
      BY <3>1, <3>2
  <2> QED
    BY <2>3, <2>4, <2>5 DEF Deque
<1>2. ASSUME NEW w \in Threads, TakeTask(w)
      PROVE  Deque'
  <2>1. /\ tasks # <<>> /\ tasks' = Tail(tasks)
        /\ job' = [job EXCEPT ![Head(tasks)] = "running"]
    BY <1>2 DEF TakeTask
  <2>2. /\ Len(tasks') = Len(tasks) - 1
        /\ \A i \in 1..Len(tasks') :
             tasks'[i] = tasks[i + 1] /\ i + 1 \in 2..Len(tasks)
        /\ Head(tasks) = tasks[1] /\ 1 \in 1..Len(tasks)
    BY <2>1, DequeFacts
  <2>3. \A i \in 2..Len(tasks) : i \in 1..Len(tasks) /\ tasks[i] # Head(tasks)
    BY <2>2, DequeFacts DEF Deque
  <2>4. \A i \in 1..Len(tasks') : job'[tasks'[i]] = "queued"
    BY <2>1, <2>2, <2>3, DequeFacts DEF Deque
  <2>5. \A i, j \in 1..Len(tasks') : tasks'[i] = tasks'[j] => i = j
    <3> SUFFICES ASSUME NEW i \in 1..Len(tasks'), NEW j \in 1..Len(tasks'),
                        tasks'[i] = tasks'[j]
                 PROVE  i = j
      OBVIOUS
    <3>1. i + 1 = j + 1
      BY <2>2, <2>3 DEF Deque
    <3> QED
      BY <3>1
  <2>6. \A u \in Tasks : job'[u] = "queued" => \E i \in 1..Len(tasks') : tasks'[i] = u
    <3> SUFFICES ASSUME NEW u \in Tasks, job'[u] = "queued"
                 PROVE  \E i \in 1..Len(tasks') : tasks'[i] = u
      OBVIOUS
    <3>1. u # Head(tasks) /\ job[u] = "queued"
      BY <2>1, DequeFacts
    <3>2. PICK i \in 1..Len(tasks) : tasks[i] = u
      BY <3>1 DEF Deque
    <3>3. i - 1 \in 1..Len(tasks') /\ (i - 1) + 1 = i
      BY <3>1, <3>2, <2>2, DequeFacts
    <3> QED
      BY <3>2, <3>3, <2>2
  <2> QED
    BY <2>4, <2>5, <2>6 DEF Deque
<1>3. CASE ShutdownCancel
  <2>1. Len(tasks') = 0 /\ \A t \in Tasks : job'[t] # "queued"
    BY <1>3, DequeFacts DEF ShutdownCancel
  <2> QED
    BY <2>1 DEF Deque
<1>4. ASSUME UNCHANGED tasks, \A t \in Tasks : job'[t] = "queued" <=> job[t] = "queued"
      PROVE  Deque'
  BY <1>4, DequeFacts DEF Deque
<1>5. ASSUME NEW w \in Threads, RunTask(w)
      PROVE  Deque'
  <2>1. job[held[w]] = "running"
    BY <1>5 DEF RunTask, Move, Hands, Holding
  <2> QED
    BY <1>4, <1>5, <2>1, DequeFacts DEF RunTask
<1>6. CASE BreakPromises \/ Unmoved
  BY <1>4, <1>6, DequeFacts DEF BreakPromises, Unmoved, Calling
<1> QED
  BY <1>1, <1>2, <1>3, <1>5, <1>6, StepKinds

LEMMA HandsStep ==
  ASSUME Bookkeeping, Deque, Hands, [Next]_vars
  PROVE  Hands'
<1>1. ASSUME UNCHANGED held,
             \A t \in Tasks : job'[t] = "running" <=> job[t] = "running",
             \A w \in Threads : worker'[w] \in Holding <=> worker[w] \in Holding
      PROVE  Hands'
  BY <1>1, DequeFacts DEF Hands
<1>2. ASSUME NEW t \in Tasks, Accepts(t)
      PROVE  Hands'
  <2>1. \A u \in Tasks : job'[u] = "running" <=> job[u] = "running"
    BY <1>2, DequeFacts DEF Accepts, Admit, Calling
  <2>2. UNCHANGED held
    BY <1>2 DEF Accepts, Admit
  <2>3. PICK target : SpawnElastic(target)
    BY <1>2 DEF Accepts, Admit
  <2> QED
    BY <1>1, <2>1, <2>2, <2>3, SpawningIsUnmoved
<1>3. ASSUME NEW w \in Threads, TakeTask(w)
      PROVE  Hands'
  <2> DEFINE t == Head(tasks)
  <2>1. /\ tasks # <<>> /\ worker[w] = "top" /\ worker' = [worker EXCEPT ![w] = "popped"]
        /\ held' = [held EXCEPT ![w] = t]
        /\ job' = [job EXCEPT ![t] = "running"]
    BY <1>3 DEF TakeTask, Move
  <2>2. t \in Tasks /\ job[t] = "queued" /\ t # NoTask
    BY <2>1, DequeFacts DEF Deque
  <2> HIDE DEF t
  <2>3. \A v \in Threads : held[v] # t
    BY <2>2, DequeFacts DEF Hands
  <2>4. \A v \in Threads :
          /\ worker'[v] \in Holding => held'[v] \in Tasks /\ job'[held'[v]] = "running"
          /\ worker'[v] \notin Holding => held'[v] = NoTask
    BY <2>1, <2>2, DequeFacts DEF Hands, Holding
  <2>5. \A u, v \in Threads : held'[u] = held'[v] /\ held'[u] # NoTask => u = v
    BY <2>1, <2>3, DequeFacts DEF Hands
  <2>6. \A u \in Tasks : job'[u] = "running" => \E v \in Threads : held'[v] = u
    <3> SUFFICES ASSUME NEW u \in Tasks, job'[u] = "running"
                 PROVE  \E v \in Threads : held'[v] = u
      OBVIOUS
    <3>1. CASE u = t
      BY <3>1, <2>1, DequeFacts
    <3>2. CASE u # t
      <4>1. PICK v \in Threads : held[v] = u
        BY <3>2, <2>1, DequeFacts DEF Hands
      <4>2. v # w
        BY <4>1, <2>1, DequeFacts DEF Hands, Holding
      <4> QED
        BY <4>1, <4>2, <2>1, DequeFacts
    <3> QED
      BY <3>1, <3>2
  <2> QED
    BY <2>4, <2>5, <2>6 DEF Hands
<1>4. ASSUME NEW w \in Threads, RunTask(w)
      PROVE  Hands'
  <2>1. /\ worker[w] = "running" /\ worker' = [worker EXCEPT ![w] = "executed"]
        /\ held' = [held EXCEPT ![w] = NoTask]
        /\ job' = [job EXCEPT ![held[w]] = "done"]
        /\ held[w] \in Tasks
    BY <1>4 DEF RunTask, Move, Hands, Holding
  <2>2. \A v \in Threads : v # w => held'[v] = held[v] /\ (held[v] = held[w] => FALSE)
    BY <2>1, DequeFacts DEF Hands
  <2>3. \A v \in Threads :
          /\ worker'[v] \in Holding => held'[v] \in Tasks /\ job'[held'[v]] = "running"
          /\ worker'[v] \notin Holding => held'[v] = NoTask
    BY <2>1, <2>2, DequeFacts DEF Hands, Holding
  <2>4. \A u, v \in Threads : held'[u] = held'[v] /\ held'[u] # NoTask => u = v
    BY <2>1, <2>2, DequeFacts DEF Hands
  <2>5. \A u \in Tasks : job'[u] = "running" => \E v \in Threads : held'[v] = u
    <3> SUFFICES ASSUME NEW u \in Tasks, job'[u] = "running"
                 PROVE  \E v \in Threads : held'[v] = u
      OBVIOUS
    <3>1. u # held[w] /\ job[u] = "running"
      BY <2>1, DequeFacts
    <3>2. PICK v \in Threads : held[v] = u
      BY <3>1 DEF Hands
    <3> QED
      BY <3>1, <3>2, <2>2
  <2> QED
    BY <2>3, <2>4, <2>5 DEF Hands
<1>5. CASE ShutdownCancel
  <2>1. \A w \in Threads : worker'[w] \in Holding <=> worker[w] \in Holding
    BY <1>5, DequeFacts DEF ShutdownCancel, Reaped, Holding
  <2>2. \A t \in Tasks : job'[t] = "running" <=> job[t] = "running"
    BY <1>5, DequeFacts DEF ShutdownCancel
  <2> QED
    BY <1>1, <1>5, <2>1, <2>2 DEF ShutdownCancel
<1>6. CASE BreakPromises
  <2>1. \A t \in Tasks : job'[t] = "running" <=> job[t] = "running"
    BY <1>6, DequeFacts DEF BreakPromises
  <2> QED
    BY <1>1, <1>6, <2>1 DEF BreakPromises, threadVars
<1>7. CASE Unmoved
  BY <1>1, <1>7, DequeFacts DEF Unmoved, Calling
<1> QED
  BY <1>2, <1>3, <1>4, <1>5, <1>6, <1>7, StepKinds

-----------------------------------------------------------------------------
(* The end of the pool, and its workers.                                   *)

\* The deque is empty once every thread has been joined: while it was not, the
\* core workers stayed.
LEMMA JoinedIsEmpty ==
  ASSUME Bookkeeping, Phases, Hands, Ended, Staffed, AllJoinable,
         owner \in {"unwinding", "joining"}
  PROVE  /\ tasks = <<>>
         /\ \A t \in Tasks : job[t] \notin {"running", "dropped"}
<1>1. state \in {"Draining", "Stopping"}
  BY DEF Phases
<1>2. In(Live) = {}
  BY DEF AllJoinable, In, Live, Busy
<1>3. CASE tasks # <<>> /\ state = "Draining"
  <2>1. Cardinality(core) = Core /\ core = {}
    BY <1>2, <1>3 DEF Staffed
  <2> QED
    BY <2>1, FS_EmptySet, OptionsAssumption
<1>4. \A w \in Threads : held[w] = NoTask
  BY DEF AllJoinable, Hands, Holding
<1>5. \A t \in Tasks : job[t] \notin {"running", "dropped"}
  BY <1>4, BoundsAssumption DEF Hands, Ended
<1> QED
  BY <1>1, <1>3, <1>5 DEF Ended

\* Nobody but the owner moves a pool on, and what it has reached.
LEMMA StateSteps ==
  ASSUME [Next]_vars
  PROVE  \/ UNCHANGED <<state, owner>>
         \/ Start \/ StartFails \/ ShutdownUnstarted \/ ShutdownDrain \/ ShutdownCancel
         \/ OwnerStep
<1> USE DEF queueVars, threadVars, statVars, vars
<1>1. CASE \E t \in Tasks : Post(t) \/ PostForBlocks(t) \/ SpaceTimeout(t)
                              \/ SubmitterStep(t)
  BY <1>1 DEF Post, PostForBlocks, SpaceTimeout, SubmitterStep, SpaceWake,
              NotifyAccepted, Admit, Refuse, Block
<1>2. CASE \E w \in Threads : WorkerStep(w) \/ WorkerTimeout(w)
  BY <1>2 DEF WorkerStep, WorkerTimeout, WorkerWaits, WorkerExits, TakeTask,
              AnnounceSpace, RunTask, CountTask, AnnounceIdle, Finish, Leave
<1>3. CASE \/ \E target \in 1..(Max + 1) : Reserve(target)
           \/ WaitIdleBlocks \/ WaitIdleWakes \/ WaitIdleTimeout
           \/ Terminated \/ UNCHANGED vars
  BY <1>3 DEF Reserve, WaitIdleBlocks, WaitIdleWakes, WaitIdleTimeout, Terminated,
              otherThanWaiter
<1> QED
  BY <1>1, <1>2, <1>3 DEF Next

LEMMA EndedStep ==
  ASSUME Bookkeeping, Phases, Deque, Hands, Ended, Staffed, [Next]_vars
  PROVE  Ended'
<1> USE DEF queueVars, threadVars, statVars, vars
<1>1. tasks' # <<>> => state' \in {"Running", "Draining"}
  <2>1. CASE UNCHANGED <<state, owner>>
    <3>1. \/ tasks' = tasks \/ state = "Running" \/ tasks # <<>> \/ tasks' = <<>>
      BY StepKinds
      DEF Accepts, CanAdmit, TakeTask, RunTask, ShutdownCancel, BreakPromises, Unmoved
    <3> QED
      BY <2>1, <3>1 DEF Ended
  <2>2. CASE Start \/ StartFails \/ ShutdownUnstarted \/ ShutdownDrain \/ ShutdownCancel
    BY <2>2 DEF Ended, Start, StartFails, ShutdownUnstarted, ShutdownDrain, ShutdownCancel
  <2>3. CASE StartUnwinds \/ JoinAll
    BY <2>3, JoinedIsEmpty DEF StartUnwinds, JoinAll
  <2>4. CASE OwnerStep /\ ~StartUnwinds /\ ~JoinAll
    BY <2>4 DEF Ended, OwnerStep, BreakPromises, WakeAll, ShutdownReturns
  <2> QED
    BY <2>1, <2>2, <2>3, <2>4, StateSteps
<1>2. \A t \in Tasks : job'[t] = "dropped" => owner' = "dropping"
  <2> SUFFICES ASSUME NEW t \in Tasks, job'[t] = "dropped"
               PROVE  owner' = "dropping"
    OBVIOUS
  <2>1. CASE ShutdownCancel
    BY <2>1 DEF ShutdownCancel
  <2>2. CASE BreakPromises
    BY <2>2, DequeFacts DEF BreakPromises
  <2>3. CASE ~ShutdownCancel /\ ~BreakPromises
    <3>1. job[t] = "dropped"
      <4>1. CASE \E u \in Tasks : Accepts(u)
        BY <4>1, DequeFacts DEF Accepts, Admit
      <4>2. CASE \E w \in Threads : TakeTask(w)
        BY <4>2, DequeFacts DEF TakeTask
      <4>3. CASE \E w \in Threads : RunTask(w)
        BY <4>3, DequeFacts DEF RunTask
      <4>4. CASE Unmoved
        BY <4>4 DEF Unmoved, Calling
      <4> QED
        BY <2>3, <4>1, <4>2, <4>3, <4>4, StepKinds
    <3>2. owner = "dropping"
      BY <3>1 DEF Ended
    <3> QED
      BY <2>3, <3>2, StateSteps
      DEF Start, StartFails, ShutdownUnstarted, ShutdownDrain, OwnerStep, StartUnwinds,
          WakeAll, JoinAll, ShutdownReturns
  <2> QED
    BY <2>1, <2>2, <2>3
<1>3. state' = "Stopped" => \A w \in Threads : worker'[w] = "none"
  <2>1. CASE ShutdownUnstarted
    BY <2>1 DEF ShutdownUnstarted, Reaped, Bookkeeping, Fresh, Ended
  <2>2. CASE StartUnwinds \/ JoinAll
    BY <2>2 DEF StartUnwinds, JoinAll, DropRecords
  <2>3. CASE state' = "Stopped" /\ ~ShutdownUnstarted /\ ~StartUnwinds /\ ~JoinAll
    <3>1. state = "Stopped" /\ \A w \in Threads : worker[w] = "none"
      BY <2>3, StateSteps
      DEF Ended, Start, StartFails, ShutdownDrain, ShutdownCancel, OwnerStep,
          BreakPromises, WakeAll, ShutdownReturns
    <3>2. CASE UNCHANGED worker
      BY <3>1, <3>2
    <3>3. CASE \E t \in Tasks : Post(t) \/ PostForBlocks(t) \/ SpaceTimeout(t)
                                  \/ SubmitterStep(t)
      BY <3>1, <3>3
      DEF Post, PostForBlocks, SpaceTimeout, SubmitterStep, SpaceWake, CanAdmit,
          NotifyAccepted, NotifyTask, At, Refuse, Block
    <3>4. CASE \E w \in Threads : WorkerStep(w) \/ WorkerTimeout(w)
      BY <3>1, <3>4
      DEF WorkerStep, WorkerTimeout, WorkerWaits, WorkerExits, TakeTask, AnnounceSpace,
          RunTask, CountTask, AnnounceIdle, Finish, Leave, Move
    <3>5. CASE \/ WaitIdleBlocks \/ WaitIdleWakes \/ WaitIdleTimeout \/ BreakPromises
               \/ ShutdownReturns \/ Terminated \/ UNCHANGED vars
      BY <3>2, <3>5
      DEF WaitIdleBlocks, WaitIdleWakes, WaitIdleTimeout, BreakPromises, ShutdownReturns,
          Terminated, otherThanWaiter
    <3>6. CASE WakeAll
      BY <3>1, <3>6 DEF WakeAll
    <3> QED
      BY <2>3, <3>1, <3>3, <3>4, <3>5, <3>6
      DEF Next, OwnerStep, Start, StartFails, ShutdownDrain, ShutdownCancel, Reserve
  <2> QED
    BY <2>1, <2>2, <2>3
<1> QED
  BY <1>1, <1>2, <1>3 DEF Ended

LEMMA StaffedStep ==
  ASSUME Bookkeeping, Phases, Staffed, Ended, [Next]_vars
  PROVE  Staffed'
<1> USE DEF queueVars, threadVars, statVars, vars
<1> DEFINE Needed == state = "Running" \/ (state = "Draining" /\ tasks # <<>>)
<1>1. ASSUME Needed' => Needed, UNCHANGED core,
             \A w \in core : worker[w] \in Live => worker'[w] \in Live
      PROVE  Staffed'
  BY <1>1 DEF Staffed, In, Bookkeeping, TypeOK
<1>2. ASSUME NEW t \in Tasks,
             Post(t) \/ PostForBlocks(t) \/ SpaceTimeout(t) \/ SubmitterStep(t)
      PROVE  Staffed'
  <2>1. CASE Admit(t) /\ CanAdmit
    BY <1>1, <2>1, SpawningIsUnmoved DEF Admit, CanAdmit, Bookkeeping, TypeOK
  <2>2. CASE Refuse(t) \/ Block(t)
    BY <1>1, <2>2 DEF Refuse, Block
  <2>3. CASE NotifyAccepted(t)
    <3>1. \A w \in core : worker[w] \in Live => worker'[w] \in Live
      BY <2>3 DEF NotifyAccepted, NotifyTask, At, Live, Bookkeeping, TypeOK
    <3> QED
      BY <1>1, <2>3, <3>1 DEF NotifyAccepted
  <2> QED
    BY <1>2, <2>1, <2>2, <2>3
    DEF Post, PostForBlocks, SpaceTimeout, SubmitterStep, SpaceWake
<1>3. ASSUME NEW target \in 1..(Max + 1), Reserve(target)
      PROVE  Staffed'
  BY <1>1, <1>3, SpawningIsUnmoved DEF Reserve, Bookkeeping, TypeOK
<1>4. ASSUME NEW w \in Threads, WorkerStep(w) \/ WorkerTimeout(w)
      PROVE  Staffed'
  <2>1. UNCHANGED <<core, state>> /\ (tasks' # <<>> => tasks # <<>>)
    BY <1>4 DEF WorkerStep, WorkerTimeout, WorkerWaits, WorkerExits, TakeTask,
                AnnounceSpace, RunTask, CountTask, AnnounceIdle, Finish, Leave
  <2>2. CASE WorkerExits(w)
    <3>1. ~Needed'
      BY <2>1, <2>2 DEF WorkerExits, Leave, Phases
    <3> QED
      BY <3>1 DEF Staffed
  <2>3. CASE ~WorkerExits(w)
    <3>1. \A v \in core : worker[v] \in Live => worker'[v] \in Live
      BY <1>4, <2>3
      DEF WorkerStep, WorkerTimeout, Retires, WorkerWaits, TakeTask, AnnounceSpace,
          RunTask, CountTask, AnnounceIdle, Finish, Leave, Move, Live, Busy,
          Bookkeeping, TypeOK
    <3> QED
      BY <1>1, <2>1, <3>1
  <2> QED
    BY <2>2, <2>3
<1>5. CASE Start
  <2>1. PICK S \in SUBSET Threads :
          /\ Cardinality(S) = Core
          /\ worker' = [w \in Threads |-> IF w \in S THEN "top" ELSE worker[w]]
          /\ core' = S
    BY <1>5 DEF Start
  <2>2. S \subseteq In(Live)'
    BY <2>1 DEF In, Live
  <2> QED
    BY <2>1, <2>2 DEF Staffed
<1>6. CASE StartFails \/ ShutdownUnstarted \/ ShutdownCancel \/ StartUnwinds \/ JoinAll
  BY <1>6 DEF Staffed, StartFails, ShutdownUnstarted, ShutdownCancel, StartUnwinds,
              JoinAll, DropRecords
<1>7. CASE ShutdownDrain
  <2>1. \A w \in core : worker[w] \in Live => worker'[w] \in Live
    BY <1>7 DEF ShutdownDrain, Reaped, Live, Busy, Bookkeeping, TypeOK
  <2> QED
    BY <1>1, <1>7, <2>1 DEF ShutdownDrain
<1>8. CASE WakeAll
  <2>1. \A w \in core : worker[w] \in Live => worker'[w] \in Live
    BY <1>8 DEF WakeAll, Live, Bookkeeping, TypeOK
  <2> QED
    BY <1>1, <1>8, <2>1 DEF WakeAll
<1>9. CASE \/ WaitIdleBlocks \/ WaitIdleWakes \/ WaitIdleTimeout \/ BreakPromises
           \/ ShutdownReturns \/ Terminated \/ UNCHANGED vars
  BY <1>1, <1>9
  DEF WaitIdleBlocks, WaitIdleWakes, WaitIdleTimeout, BreakPromises, ShutdownReturns,
      Terminated, otherThanWaiter
<1> QED
  BY <1>2, <1>3, <1>4, <1>5, <1>6, <1>7, <1>8, <1>9 DEF Next, OwnerStep

\* A worker that is not busy can be spared.
LEMMA IdleWorkerIsSpare ==
  ASSUME Bookkeeping, NEW w \in Threads, worker[w] \in {"waiting", "top"}
  PROVE  active < live
<1>1. In(Busy) \in SUBSET (In(Live) \ {w}) /\ w \in In(Live)
  BY DEF In, Busy, Live
<1>2. /\ IsFiniteSet(In(Live) \ {w})
      /\ Cardinality(In(Live) \ {w}) = Cardinality(In(Live)) - 1
  BY <1>1, GroupsAreFinite, FS_RemoveElement
<1>3. Cardinality(In(Busy)) <= Cardinality(In(Live)) - 1
  BY <1>1, <1>2, FS_Subset
<1> QED
  BY <1>3, GroupsAreFinite DEF Bookkeeping, ThreadCounts

LEMMA GrownStep ==
  ASSUME Bookkeeping, Bookkeeping', Phases, Ended, Grown, [Next]_vars
  PROVE  Grown'
<1> USE DEF queueVars, threadVars, statVars, vars
<1>1. /\ live \in Nat /\ active \in Nat /\ Max \in Nat /\ failures \in Nat
      /\ live' \in Nat /\ active' \in Nat /\ failures' \in Nat
      /\ Len(tasks) \in Nat /\ Len(tasks') \in Nat
  BY BoundsAssumption, OptionsAssumption DEF Bookkeeping, TypeOK
<1>2. ASSUME state' = "Running" => state = "Running",
             failures' >= failures, live' >= live,
             active' + Len(tasks') <= active + Len(tasks)
      PROVE  Grown'
  BY <1>1, <1>2 DEF Grown, Least
<1>3. ASSUME NEW t \in Tasks, Admit(t)
      PROVE  Grown'
  <2> DEFINE target == Desired(Len(tasks) + 1)
  <2>1. /\ Len(tasks') = Len(tasks) + 1 /\ active' = active
        /\ SpawnElastic(target) /\ target = Least(Max, active + Len(tasks) + 1)
    BY <1>1, <1>3, DequeFacts DEF Admit, Desired
  <2>2. target \in Nat
    BY <1>1, <2>1 DEF Least
  <2> HIDE DEF target
  <2>3. failures' = 0 => live' >= target
    BY <1>1, <2>1, <2>2 DEF SpawnElastic
  <2> QED
    BY <1>1, <2>1, <2>3 DEF Grown, Least
<1>4. ASSUME NEW t \in Tasks,
             Post(t) \/ PostForBlocks(t) \/ SpaceTimeout(t) \/ SubmitterStep(t)
      PROVE  Grown'
  BY <1>1, <1>2, <1>3, <1>4
  DEF Post, PostForBlocks, SpaceTimeout, SubmitterStep, SpaceWake, NotifyAccepted,
      Refuse, Block
<1>5. ASSUME NEW target \in 1..(Max + 1), Reserve(target)
      PROVE  Grown'
  <2>1. Least(target, Max) \in Nat /\ Least(target, Max) <= Max
    BY <1>1 DEF Least
  <2>2. live' \in live..Max /\ failures' >= failures
    BY <1>5, <2>1, SpawnCounts, SpawningIsUnmoved DEF Reserve, Bookkeeping
  <2> QED
    BY <1>1, <1>2, <1>5, <2>2 DEF Reserve
<1>6. ASSUME NEW w \in Threads, WorkerStep(w) \/ WorkerTimeout(w)
      PROVE  Grown'
  <2>1. CASE Leave(w, "waiting") /\ Retires(w)
    <3>1. active < live /\ tasks' = <<>> /\ live' = live - 1 /\ active' = active
      BY <2>1, IdleWorkerIsSpare DEF Leave, Retires, Ready, Move
    <3>2. live' >= active' + Len(tasks')
      BY <1>1, <3>1
    <3> QED
      BY <1>1, <3>2 DEF Grown, Least
  <2>2. CASE WorkerExits(w)
    <3>1. state' # "Running"
      BY <2>2 DEF WorkerExits, Leave, Phases
    <3> QED
      BY <3>1 DEF Grown
  <2>3. CASE TakeTask(w)
    <3>1. Len(tasks') = Len(tasks) - 1 /\ active' = active + 1
      BY <2>3, DequeFacts DEF TakeTask
    <3>2. UNCHANGED <<state, live, failures>>
      BY <2>3 DEF TakeTask
    <3>3. active' + Len(tasks') = active + Len(tasks)
      BY <1>1, <3>1
    <3> QED
      BY <1>1, <1>2, <3>2, <3>3
  <2>4. CASE CountTask(w)
    BY <1>1, <1>2, <2>4 DEF CountTask
  <2>5. CASE UNCHANGED <<state, tasks, live, active, failures>>
    BY <1>1, <1>2, <2>5
  <2> QED
    BY <1>6, <2>1, <2>2, <2>3, <2>4, <2>5
    DEF WorkerStep, WorkerTimeout, WorkerWaits, AnnounceSpace, RunTask, AnnounceIdle, Finish
<1>7. CASE Start
  <2>1. \A w \in Threads : worker[w] = "none"
    BY <1>7 DEF Start, Bookkeeping, Fresh
  <2>2. In(Busy) = {}
    BY <2>1 DEF In, Busy
  <2>3. active' = 0 /\ tasks' = <<>>
    BY <1>7, <2>2, FS_EmptySet DEF Start, Ended, Bookkeeping, ThreadCounts
  <2> QED
    BY <1>1, <2>3 DEF Grown, Least
<1>8. CASE StartFails \/ ShutdownUnstarted \/ ShutdownDrain \/ ShutdownCancel
           \/ StartUnwinds \/ JoinAll
  BY <1>8 DEF Grown, StartFails, ShutdownUnstarted, ShutdownDrain, ShutdownCancel,
              StartUnwinds, JoinAll, DropRecords
<1>9. CASE \/ WaitIdleBlocks \/ WaitIdleWakes \/ WaitIdleTimeout \/ BreakPromises
           \/ WakeAll \/ ShutdownReturns \/ Terminated \/ UNCHANGED vars
  BY <1>1, <1>2, <1>9
  DEF WaitIdleBlocks, WaitIdleWakes, WaitIdleTimeout, BreakPromises, WakeAll,
      ShutdownReturns, Terminated, otherThanWaiter
<1> QED
  BY <1>4, <1>5, <1>6, <1>7, <1>8, <1>9 DEF Next, OwnerStep

\* The thread in waitIdleFor: the worker that makes the pool idle is about to
\* announce it.
LEMMA IdleWakeupStep ==
  ASSUME Bookkeeping, Bookkeeping', Phases, IdleWakeup, [Next]_vars
  PROVE  IdleWakeup'
<1> USE DEF queueVars, threadVars, statVars, vars
<1> DEFINE Awaited == owner \in {"dropping", "waking", "joining", "announcing"}
<1>1. /\ active \in Nat /\ active' \in Nat /\ Len(tasks) \in Nat
      /\ worker \in [Threads -> Points]
  BY OptionsAssumption DEF Bookkeeping, TypeOK
<1>2. ASSUME waiter' = "blocked" /\ Idle' => waiter = "blocked" /\ Idle,
             Awaited => Awaited',
             \A w \in Threads : worker[w] \in {"announce", "leaving"} =>
                                  worker'[w] \in {"announce", "leaving"}
      PROVE  IdleWakeup'
  BY <1>2 DEF IdleWakeup, In
<1>3. ASSUME waiter' # "blocked" \/ ~Idle' \/ Awaited'
      PROVE  IdleWakeup'
  BY <1>3 DEF IdleWakeup
<1>4. ASSUME NEW t \in Tasks,
             Post(t) \/ PostForBlocks(t) \/ SpaceTimeout(t) \/ SubmitterStep(t)
      PROVE  IdleWakeup'
  <2>1. CASE Admit(t)
    <3>1. tasks' # <<>>
      BY <2>1, DequeFacts DEF Admit
    <3> QED
      BY <1>3, <3>1 DEF Idle
  <2>2. CASE Refuse(t) \/ Block(t)
    BY <1>2, <2>2 DEF Refuse, Block, Idle
  <2>3. CASE NotifyAccepted(t)
    <3>1. \A w \in Threads : worker[w] \in {"announce", "leaving"} => worker'[w] = worker[w]
      BY <1>1, <2>3 DEF NotifyAccepted, NotifyTask, At
    <3> QED
      BY <1>2, <2>3, <3>1 DEF NotifyAccepted, Idle
  <2> QED
    BY <1>4, <2>1, <2>2, <2>3
    DEF Post, PostForBlocks, SpaceTimeout, SubmitterStep, SpaceWake
<1>5. ASSUME NEW target \in 1..(Max + 1), Reserve(target)
      PROVE  IdleWakeup'
  <2>1. \A w \in Threads : worker[w] \in {"announce", "leaving"} => worker'[w] = worker[w]
    <3>1. PICK S \in SUBSET {w \in Threads : Reaped[w] = "none"} :
            worker' = [w \in Threads |-> IF w \in S THEN "top" ELSE Reaped[w]]
      BY <1>5 DEF Reserve, SpawnElastic
    <3> QED
      BY <3>1 DEF Reaped
  <2> QED
    BY <1>2, <1>5, <2>1 DEF Reserve, Idle
<1>6. ASSUME NEW w \in Threads, WorkerStep(w) \/ WorkerTimeout(w)
      PROVE  IdleWakeup'
  <2>1. CASE TakeTask(w)
    <3>1. active' # 0
      BY <1>1, <2>1 DEF TakeTask
    <3> QED
      BY <1>3, <3>1 DEF Idle
  <2>2. CASE CountTask(w)
    <3>1. w \in In({"announce", "leaving"})'
      BY <1>1, <2>2 DEF CountTask, Move, In
    <3> QED
      BY <3>1 DEF IdleWakeup
  <2>3. CASE AnnounceIdle(w) \/ Finish(w)
    BY <1>3, <2>3 DEF AnnounceIdle, Finish, NotifyIdle
  <2>4. CASE \/ WorkerWaits(w) \/ WorkerExits(w) \/ AnnounceSpace(w) \/ RunTask(w)
             \/ WorkerTimeout(w)
    <3>1. /\ \A v \in Threads : worker[v] \in {"announce", "leaving"} => worker'[v] = worker[v]
          /\ UNCHANGED <<tasks, active, owner, waiter>>
      BY <1>1, <2>4
      DEF WorkerWaits, WorkerExits, AnnounceSpace, RunTask, WorkerTimeout, Leave, Move
    <3> QED
      BY <1>2, <3>1 DEF Idle
  <2> QED
    BY <1>6, <2>1, <2>2, <2>3, <2>4 DEF WorkerStep
<1>7. CASE Start \/ StartFails
  <2>1. \A w \in Threads : worker[w] = "none"
    BY <1>7 DEF Start, StartFails, Bookkeeping, Fresh
  <2> QED
    BY <1>2, <1>7, <2>1 DEF Start, StartFails, Idle
<1>8. CASE ShutdownUnstarted
  BY <1>2, <1>8, <1>1 DEF ShutdownUnstarted, Reaped, Idle
<1>9. CASE ShutdownDrain \/ ShutdownCancel \/ BreakPromises \/ WakeAll \/ JoinAll
  BY <1>3, <1>9 DEF ShutdownDrain, ShutdownCancel, BreakPromises, WakeAll, JoinAll
<1>10. CASE StartUnwinds
  BY <1>2, <1>10 DEF StartUnwinds, AllJoinable, Idle
<1>11. CASE ShutdownReturns
  BY <1>3, <1>11 DEF ShutdownReturns, NotifyIdle
<1>12. CASE WaitIdleBlocks \/ WaitIdleWakes \/ WaitIdleTimeout
  <2>1. waiter' # "blocked" \/ ~Idle'
    BY <1>12 DEF WaitIdleBlocks, WaitIdleWakes, WaitIdleTimeout, Idle, otherThanWaiter
  <2> QED
    BY <1>3, <2>1
<1>13. CASE Terminated \/ UNCHANGED vars
  BY <1>2, <1>13 DEF Terminated, Idle
<1> QED
  BY <1>4, <1>5, <1>6, <1>7, <1>8, <1>9, <1>10, <1>11, <1>12, <1>13 DEF Next, OwnerStep

-----------------------------------------------------------------------------
(* The invariant, and what it says of the pool.                            *)

PoolInv == Phases /\ Past /\ Deque /\ Hands /\ Ended /\ Staffed /\ Grown /\ IdleWakeup

LEMMA PoolInvInit == Init => PoolInv
<1> SUFFICES ASSUME Init
             PROVE  PoolInv
  OBVIOUS
<1>1. Deque /\ Hands /\ Ended
  BY DEF Init, Deque, Hands, Ended, Holding
<1>2. Staffed /\ Grown /\ IdleWakeup
  BY DEF Init, Staffed, Grown, IdleWakeup
<1> QED
  BY <1>1, <1>2, WakefulInit DEF PoolInv, Wakeful

LEMMA PoolInvHolds == Spec => [](Bookkeeping /\ PoolInv)
<1>1. Bookkeeping /\ Bookkeeping' /\ PoolInv /\ [Next]_vars => PoolInv'
  BY PhasesStep, PastStep, DequeStep, HandsStep, EndedStep, StaffedStep, GrownStep,
     IdleWakeupStep
  DEF PoolInv
<1> QED
  BY <1>1, PoolInvInit, BookkeepingHolds, PTL DEF Spec

\* A stopped pool has no thread left, and no accepted task that was neither
\* executed nor reported as cancelled.
THEOREM StopsQuietly == Spec => []StoppedIsQuiet
<1>1. Bookkeeping /\ PoolInv => StoppedIsQuiet
  <2> SUFFICES ASSUME Bookkeeping, PoolInv, state = "Stopped"
               PROVE  /\ live = 0 /\ active = 0 /\ tasks = <<>>
                      /\ \A w \in Threads : worker[w] = "none" /\ held[w] = NoTask
                      /\ \A t \in Tasks : job[t] \notin {"queued", "running", "dropped"}
    BY DEF StoppedIsQuiet
  <2>1. tasks = <<>> /\ \A w \in Threads : worker[w] = "none" /\ held[w] = NoTask
    BY DEF PoolInv, Ended, Hands, Holding
  <2>2. In(Live) = {} /\ In(Busy) = {}
    BY <2>1 DEF In, Live, Busy
  <2>3. live = 0 /\ active = 0
    BY <2>2, FS_EmptySet DEF Bookkeeping, ThreadCounts
  <2>4. \A t \in Tasks : job[t] # "queued"
    <3>1. Len(tasks) = 0
      BY <2>1
    <3> QED
      BY <3>1 DEF PoolInv, Deque
  <2>5. \A t \in Tasks : job[t] \notin {"running", "dropped"}
    BY <2>1, BoundsAssumption DEF PoolInv, Hands, Ended, Phases
  <2> QED
    BY <2>1, <2>3, <2>4, <2>5
<1> QED
  BY <1>1, PoolInvHolds, PTL

\* A running pool keeps its core workers, and has a worker for each queued or
\* active task up to max_threads unless a thread could not be created.
THEOREM KeepsEnoughWorkers == Spec => []Provisioned
<1>1. PoolInv => Provisioned
  BY DEF PoolInv, Staffed, Grown, Provisioned
<1> QED
  BY <1>1, PoolInvHolds, PTL

\* waitIdleFor does not sleep through the moment the pool becomes idle.
THEOREM IdleIsAnnounced == Spec => []IdleWakeup
BY PoolInvHolds, PTL DEF PoolInv

-----------------------------------------------------------------------------
(* The pool implements the executor its header promises.                   *)

\* What callers see of a task: a call that waits for space is not accepted yet.
Seen == [t \in Tasks |-> IF job[t] \in {"blocked", "woken"} THEN "new" ELSE job[t]]

\* A worker at the top of the loop has room for one more task in progress.
LEMMA RoomForOneMore ==
  ASSUME Bookkeeping, Hands, NEW w \in Threads, worker[w] = "top"
  PROVE  Cardinality({t \in Tasks : job[t] = "running"}) < Max
<1> DEFINE S == In(Holding)
           T == {t \in Tasks : job[t] = "running"}
           f == [v \in S |-> held[v]]
<1>1. f \in Surjection(S, T)
  <2>1. \A v \in S : held[v] \in T
    BY DEF Hands, In
  <2>2. \A t \in T : \E v \in S : held[v] = t
    <3> SUFFICES ASSUME NEW t \in T
                 PROVE  \E v \in S : held[v] = t
      OBVIOUS
    <3>1. PICK v \in Threads : held[v] = t
      BY DEF Hands
    <3>2. worker[v] \in Holding
      BY <3>1, DequeFacts DEF Hands
    <3> QED
      BY <3>1, <3>2 DEF In
  <2> QED
    BY <2>1, <2>2 DEF Surjection
<1>2. IsFiniteSet(S) /\ Cardinality(S) \in Nat
  BY GroupsAreFinite
<1>3. IsFiniteSet(T) /\ Cardinality(T) <= Cardinality(S)
  BY <1>1, <1>2, FS_Surjection
<1>4. S \in SUBSET In(Busy)
  BY DEF In, Holding, Busy
<1>5. Cardinality(S) <= active
  BY <1>4, GroupsAreFinite, FS_Subset DEF Bookkeeping, ThreadCounts
<1>6. active < live /\ active \in Nat /\ live \in Nat /\ live <= Max
  BY IdleWorkerIsSpare, OptionsAssumption DEF Bookkeeping, TypeOK
<1>7. Cardinality(T) \in Nat /\ Max \in Nat
  BY <1>3, FS_CardinalityType, OptionsAssumption
<1> QED
  BY <1>2, <1>3, <1>5, <1>6, <1>7

LEMMA SeenOutcome ==
  ASSUME Bookkeeping
  PROVE  /\ Executor!InProgress = {t \in Tasks : job[t] = "running"}
         /\ Executor!Dropped = {t \in Tasks : job[t] = "dropped"}
         /\ \A t \in Tasks : job[t] \in Calling <=> Seen[t] = "new"
         /\ \A t \in Tasks : job[t] \notin Calling => Seen[t] = job[t]
BY DEF Executor!InProgress, Executor!Dropped, Seen, Calling

\* A submitter's call is accepted, refused, or not decided yet.
LEMMA CallImplements ==
  ASSUME Bookkeeping, NEW t \in Tasks,
         Post(t) \/ PostForBlocks(t) \/ SpaceTimeout(t) \/ SubmitterStep(t)
  PROVE  Executor!Accept(t) \/ Executor!Refuse(t) \/ UNCHANGED Executor!vars
<1> USE DEF Seen
<1>1. job \in [Tasks -> JobStates] /\ Len(tasks) \in Nat /\ Len(tasks) <= QueueCapacity
      /\ QueueCapacity \in Nat
  BY OptionsAssumption DEF Bookkeeping, TypeOK
<1>2. ASSUME Admit(t), CanAdmit, job[t] \in Calling
      PROVE  Executor!Accept(t)
  <2>1. /\ tasks' = Append(tasks, t) /\ job' = [job EXCEPT ![t] = "queued"]
        /\ state' = state /\ state = "Running" /\ Len(tasks) < QueueCapacity
    BY <1>2 DEF Admit, CanAdmit, HasSpace
  <2>2. Seen[t] = "new" /\ Seen' = [Seen EXCEPT ![t] = "queued"]
    BY <1>1, <1>2, <2>1 DEF Calling
  <2> QED
    BY <2>1, <2>2 DEF Executor!Accept
<1>3. ASSUME Refuse(t), ~CanAdmit, job[t] \in Calling
      PROVE  Executor!Refuse(t)
  <2>1. job' = [job EXCEPT ![t] = "refused"] /\ UNCHANGED <<state, tasks>>
    BY <1>3 DEF Refuse
  <2>2. Seen[t] = "new" /\ Seen' = [Seen EXCEPT ![t] = "refused"]
    BY <1>1, <1>3, <2>1 DEF Calling
  <2>3. state # "Running" \/ Len(tasks) = QueueCapacity
    BY <1>1, <1>3 DEF CanAdmit, HasSpace
  <2> QED
    BY <2>1, <2>2, <2>3 DEF Executor!Refuse
<1>4. ASSUME Block(t), job[t] \in Calling
      PROVE  UNCHANGED Executor!vars
  BY <1>1, <1>4 DEF Block, Calling, Executor!vars
<1>5. CASE NotifyAccepted(t)
  BY <1>5 DEF NotifyAccepted, Executor!vars
<1> QED
  BY <1>2, <1>3, <1>4, <1>5
  DEF Post, PostForBlocks, SpaceTimeout, SubmitterStep, SpaceWake, CanAdmit, Calling

\* Of a worker's steps callers see that a task begins and that it is done.
LEMMA WorkerImplements ==
  ASSUME Bookkeeping, PoolInv, NEW w \in Threads, WorkerStep(w) \/ WorkerTimeout(w)
  PROVE  \/ Executor!Begin \/ \E t \in Tasks : Executor!Complete(t)
         \/ UNCHANGED Executor!vars
<1> USE DEF Seen, queueVars
<1>1. job \in [Tasks -> JobStates]
  BY DEF Bookkeeping, TypeOK
<1>2. CASE TakeTask(w)
  <2>1. /\ tasks # <<>> /\ tasks' = Tail(tasks) /\ state' = state
        /\ job' = [job EXCEPT ![Head(tasks)] = "running"] /\ worker[w] = "top"
    BY <1>2 DEF TakeTask, Move
  <2>2. state \in {"Running", "Draining"}
    BY <2>1 DEF PoolInv, Ended
  <2>3. Executor!Cardinality(Executor!InProgress) < Max
    <3>1. Executor!Cardinality(Executor!InProgress) = Cardinality(Executor!InProgress)
      BY DEF Executor!Cardinality, Cardinality
    <3> QED
      BY <2>1, <3>1, RoomForOneMore, SeenOutcome DEF PoolInv
  <2>4. Head(tasks) \in Tasks
    BY <2>1, DequeFacts
  <2>5. Seen' = [Seen EXCEPT ![Head(tasks)] = "running"]
    BY <1>1, <2>1, <2>4
  <2> QED
    BY <2>1, <2>2, <2>3, <2>5 DEF Executor!Begin
<1>3. CASE RunTask(w)
  <2>1. PICK t \in Tasks : held[w] = t /\ job[t] = "running"
    BY <1>3 DEF RunTask, Move, PoolInv, Hands, Holding
  <2>2. UNCHANGED <<state, tasks>> /\ job' = [job EXCEPT ![t] = "done"]
    BY <1>3, <2>1 DEF RunTask
  <2>3. Seen[t] = "running" /\ Seen' = [Seen EXCEPT ![t] = "done"]
    BY <1>1, <2>1, <2>2
  <2>4. Executor!Complete(t)
    BY <2>2, <2>3 DEF Executor!Complete
  <2> QED
    BY <2>4
<1>4. CASE AnnounceSpace(w)
  <2>1. \A t \in Tasks : \/ job'[t] = job[t]
                         \/ job[t] = "blocked" /\ job'[t] = "woken"
    BY <1>1, <1>4 DEF AnnounceSpace, NotifySpace, Submitter
  <2> QED
    BY <1>4, <2>1 DEF AnnounceSpace, Executor!vars
<1>5. CASE UNCHANGED <<state, tasks, job>>
  BY <1>5 DEF Executor!vars
<1> QED
  BY <1>2, <1>3, <1>4, <1>5
  DEF WorkerStep, WorkerTimeout, WorkerWaits, WorkerExits, CountTask, AnnounceIdle,
      Finish, Leave

\* The owner opens and closes the executor, breaks the promises of what it
\* dropped, and stops it only when nothing is left.
LEMMA OwnerImplements ==
  ASSUME Bookkeeping, PoolInv,
         \/ Start \/ StartFails \/ ShutdownUnstarted \/ ShutdownDrain \/ ShutdownCancel
         \/ OwnerStep
  PROVE  [Executor!Next]_(Executor!vars)
<1> USE DEF Seen, queueVars
<1>1. job \in [Tasks -> JobStates]
  BY DEF Bookkeeping, TypeOK
<1>2. CASE Start \/ StartFails
  <2>1. Executor!Open
    BY <1>2 DEF Start, StartFails, Executor!Open
  <2> QED
    BY <2>1 DEF Executor!Next
<1>3. ASSUME tasks = <<>>, \A t \in Tasks : job[t] \notin {"running", "dropped"},
             state \in {"Created", "Draining", "Stopping"}, state' = "Stopped",
             UNCHANGED <<tasks, job>>
      PROVE  Executor!Next
  <2>1. Executor!InProgress = {} /\ Executor!Dropped = {}
    BY <1>3, SeenOutcome
  <2>2. Executor!Stop
    BY <1>3, <2>1 DEF Executor!Stop
  <2> QED
    BY <2>2 DEF Executor!Next
<1>4. CASE ShutdownUnstarted
  <2>1. UNCHANGED <<tasks, job>> /\ state' = "Stopped" /\ owner = "ready"
    BY <1>4 DEF ShutdownUnstarted
  <2>2. CASE state = "Stopped"
    BY <2>1, <2>2 DEF Executor!vars
  <2>3. CASE state = "Created"
    <3>1. \A w \in Threads : held[w] = NoTask
      BY <2>3 DEF Bookkeeping, Fresh, PoolInv, Hands, Holding
    <3>2. tasks = <<>> /\ \A t \in Tasks : job[t] \notin {"running", "dropped"}
      BY <2>1, <2>3, <3>1, BoundsAssumption DEF PoolInv, Hands, Ended
    <3> QED
      BY <1>3, <2>1, <2>3, <3>2
  <2> QED
    BY <1>4, <2>2, <2>3 DEF ShutdownUnstarted
<1>5. CASE ShutdownDrain
  <2>1. Executor!CloseGracefully
    BY <1>5 DEF ShutdownDrain, Executor!CloseGracefully
  <2> QED
    BY <2>1 DEF Executor!Next
<1>6. CASE ShutdownCancel
  <2>1. Executor!CloseCancelling
    BY <1>1, <1>6 DEF ShutdownCancel, Executor!CloseCancelling
  <2> QED
    BY <2>1 DEF Executor!Next
<1>7. CASE BreakPromises
  <2>1. UNCHANGED <<state, tasks>>
        /\ job' = [t \in Tasks |-> IF job[t] = "dropped" THEN "broken" ELSE job[t]]
    BY <1>7 DEF BreakPromises
  <2>2. CASE Executor!Dropped = {}
    <3>1. \A t \in Tasks : job'[t] = job[t]
      BY <2>1, <2>2, SeenOutcome
    <3> QED
      BY <2>1, <3>1 DEF Executor!vars
  <2>3. CASE Executor!Dropped # {}
    <3>1. Seen' = [t \in Tasks |-> IF t \in Executor!Dropped THEN "broken" ELSE Seen[t]]
      BY <2>1, SeenOutcome
    <3>2. Executor!BreakPromises
      BY <2>1, <2>3, <3>1 DEF Executor!BreakPromises
    <3> QED
      BY <3>2 DEF Executor!Next
  <2> QED
    BY <2>2, <2>3
<1>8. CASE WakeAll
  <2>1. /\ UNCHANGED <<state, tasks>>
        /\ \A t \in Tasks : \/ job'[t] = job[t]
                            \/ job[t] = "blocked" /\ job'[t] = "woken"
    BY <1>1, <1>8 DEF WakeAll
  <2> QED
    BY <2>1 DEF Executor!vars
<1>9. CASE StartUnwinds \/ JoinAll
  <2>1. /\ AllJoinable /\ owner \in {"unwinding", "joining"} /\ state' = "Stopped"
        /\ UNCHANGED <<tasks, job>>
    BY <1>9 DEF StartUnwinds, JoinAll, DropRecords
  <2>2. tasks = <<>> /\ \A t \in Tasks : job[t] \notin {"running", "dropped"}
    BY <2>1, JoinedIsEmpty DEF PoolInv
  <2>3. state \in {"Draining", "Stopping"}
    BY <2>1 DEF PoolInv, Phases
  <2> QED
    BY <1>3, <2>1, <2>2, <2>3
<1>10. CASE ShutdownReturns
  BY <1>10 DEF ShutdownReturns, Executor!vars
<1> QED
  BY <1>2, <1>4, <1>5, <1>6, <1>7, <1>8, <1>9, <1>10 DEF OwnerStep

LEMMA StepImplements ==
  ASSUME Bookkeeping, PoolInv, [Next]_vars
  PROVE  [Executor!Next]_(Executor!vars)
<1> USE DEF queueVars, vars
<1>1. CASE \E t \in Tasks : Post(t) \/ PostForBlocks(t) \/ SpaceTimeout(t)
                              \/ SubmitterStep(t)
  BY <1>1, CallImplements DEF Executor!Next
<1>2. CASE \E w \in Threads : WorkerStep(w) \/ WorkerTimeout(w)
  BY <1>2, WorkerImplements DEF Executor!Next
<1>3. CASE \/ Start \/ StartFails \/ ShutdownUnstarted \/ ShutdownDrain \/ ShutdownCancel
           \/ OwnerStep
  BY <1>3, OwnerImplements
<1>4. CASE \/ \E target \in 1..(Max + 1) : Reserve(target)
           \/ WaitIdleBlocks \/ WaitIdleWakes \/ WaitIdleTimeout
           \/ Terminated \/ UNCHANGED vars
  <2>1. UNCHANGED <<state, tasks, job>>
    BY <1>4 DEF Reserve, WaitIdleBlocks, WaitIdleWakes, WaitIdleTimeout, Terminated,
                otherThanWaiter
  <2> QED
    BY <2>1 DEF Executor!vars
<1> QED
  BY <1>1, <1>2, <1>3, <1>4 DEF Next

\* Whatever its threads do, callers of the pool see a bounded FIFO executor
\* that runs each accepted task exactly once, at most max_threads at a time,
\* or breaks its promise, and that is stopped only when nothing is left.
THEOREM PoolIsAnExecutor == Spec => ImplementsExecutor
<1>1. Init => Executor!Init
  BY DEF Init, Executor!Init
<1>2. Bookkeeping /\ PoolInv /\ [Next]_vars => [Executor!Next]_(Executor!vars)
  BY StepImplements
<1> QED
  BY <1>1, <1>2, PoolInvHolds, PTL DEF Spec, ImplementsExecutor, Executor!Spec

=============================================================================
