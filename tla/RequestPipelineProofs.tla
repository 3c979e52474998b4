----------------------- MODULE RequestPipelineProofs -----------------------
(***************************************************************************)
(* Theorems about RequestPipeline, for any number of requests, pool        *)
(* threads, queue places and admitted requests.                            *)
(*                                                                         *)
(* The argument behind all of them: a request under way holds its ticket,  *)
(* so the shutdown of its service waits for it, and main() shuts a pool    *)
(* down only after the services that post to it from their workers.  That  *)
(* takes knowing who holds a request, which is what the invariant says.    *)
(***************************************************************************)
EXTENDS RequestPipeline, FiniteSetTheorems, TLAPS

Outcomes == {"new", "refused", "queued", "running", "done"}

\* The queue of a pool holds the tasks that are queued, each once.
Fifo(T, q, f) ==
  /\ f \in [T -> Outcomes]
  /\ q \in Seq(T)
  /\ \A i \in 1..Len(q) : f[q[i]] = "queued"
  /\ \A i, j \in 1..Len(q) : q[i] = q[j] => i = j

PoolOK(T, capacity, phase, q, f) ==
  /\ Fifo(T, q, f)
  /\ Len(q) <= capacity
  /\ phase \in {"Running", "Draining", "Stopped"}
  /\ phase = "Stopped" => \A t \in T : ~InPool(f, t)
  /\ \A t \in T : f[t] = "queued" => \E i \in 1..Len(q) : q[i] = t

Pools ==
  /\ PoolOK(DbTasks, DbQueue, dbPhase, dbQueue, dbTasks)
  /\ PoolOK(WorkTasks, AnalysisQueue, analysisPhase, analysisQueue, analysisTasks)
  /\ PoolOK(WorkTasks, InferenceQueue, inferencePhase, inferenceQueue, inferenceTasks)

\* The body of a request's first task has returned.
Loaded(r) == Load(r) \in ran \/ dbTasks[Load(r)] = "done"

\* A request without an answer is in exactly one place that will give it one.
Waits(r) ==
  \/ io[r] \in {"admit", "post"}
  \/ \E t \in {Load(r), Save(r)} : InPool(dbTasks, t) /\ t \notin ran
  \/ InPool(analysisTasks, Work(r)) /\ Work(r) \notin ran
  \/ InPool(inferenceTasks, Work(r)) /\ Work(r) \notin ran

\* A copy of the completion is with the handler, or in a closure that a pool
\* has queued or runs.
HeldWhere(r) ==
  /\ "io" \in held[r] <=> io[r] \in {"post", "leave"}
  /\ "load" \in held[r] <=> InPool(dbTasks, Load(r))
  /\ "work" \in held[r] <=>
       InPool(analysisTasks, Work(r)) \/ InPool(inferenceTasks, Work(r))
  /\ "save" \in held[r] <=> InPool(dbTasks, Save(r))

\* The stages of a request follow each other.
InOrder(r) ==
  /\ kind[r] = "unsent" => io[r] = "out" /\ answer[r] = "none"
  /\ io[r] = "admit" => Ticketed(r)
  /\ dbTasks[Load(r)] # "new" => kind[r] # "unsent" /\ io[r] \in {"leave", "out"}
  /\ analysisTasks[Work(r)] # "new" => Ticketed(r) /\ Loaded(r)
  /\ inferenceTasks[Work(r)] # "new" => kind[r] = "infer" /\ Loaded(r)
  /\ dbTasks[Save(r)] # "new" =>
       kind[r] = "save" /\ (Work(r) \in ran \/ analysisTasks[Work(r)] = "done")
  /\ Load(r) \in ran => dbTasks[Load(r)] = "running"
  /\ Save(r) \in ran => dbTasks[Save(r)] = "running"
  /\ Work(r) \in ran =>
       analysisTasks[Work(r)] = "running" \/ inferenceTasks[Work(r)] = "running"

\* A request has its one answer, or somebody who will give it.
Answered(r) ==
  /\ kind[r] # "unsent" => (answer[r] = "none" <=> Waits(r))
  /\ answer[r] # "twice"
  /\ kind[r] = "save" /\ answer[r] = "ok" => r \in stored
  /\ r \in stored => kind[r] = "save" /\ answer[r] \in {"ok", "failed"}

Journey(r) == HeldWhere(r) /\ InOrder(r) /\ Answered(r)

\* The tickets a service has out, which its counter counts.
Tickets(s) ==
  {r \in Requests : Ticketed(r) /\ ServiceOf(kind[r]) = s /\ held[r] # {}}

TicketsCounted == \A s \in Services : pending[s] = Cardinality(Tickets(s))

\* main() has begun to close part n, or has gone further.
Past(n) == stop > n \/ (stop = n /\ closed)

\* Each part is open, closing or stopped according to how far main() is, and a
\* service main() has left behind has no ticket out.
StopsInOrder ==
  /\ closed => stop \in 1..5
  /\ accepting <=> stop = 0
  /\ closing["classification"] <=> Past(1)
  /\ closing["forecastData"] <=> Past(2)
  /\ stop > 1 => pending["classification"] = 0
  /\ stop > 2 => pending["forecastData"] = 0
  /\ dbPhase = "Running" <=> ~Past(3)
  /\ dbPhase = "Stopped" <=> stop > 3
  /\ connections = "closed" <=> stop > 3
  /\ analysisPhase = "Running" <=> ~Past(4)
  /\ inferencePhase = "Running" <=> ~Past(5)

PipelineInv ==
  /\ TypeOK
  /\ Pools
  /\ \A r \in Requests : Journey(r)
  /\ TicketsCounted
  /\ StopsInOrder

-----------------------------------------------------------------------------
(* The pools.                                                              *)

\* What a step of the system can do to one pool.
PoolMove(T, capacity, phase, q, f, newPhase, newQ, newF) ==
  \/ newPhase = phase /\ newQ = q /\ newF = f
  \/ /\ \E t \in T : /\ f[t] = "new" /\ Len(q) < capacity
                     /\ newQ = Append(q, t) /\ newF = [f EXCEPT ![t] = "queued"]
     /\ phase = "Running" /\ newPhase = phase
  \/ /\ \E t \in T : \/ f[t] = "new" /\ newF = [f EXCEPT ![t] = "refused"]
                     \/ f[t] = "running" /\ newF = [f EXCEPT ![t] = "done"]
     /\ newPhase = phase /\ newQ = q
  \/ /\ phase # "Stopped" /\ newPhase = phase
     /\ q # <<>> /\ newQ = Tail(q) /\ newF = [f EXCEPT ![Head(q)] = "running"]
  \/ phase = "Running" /\ newPhase = "Draining" /\ newQ = q /\ newF = f
  \/ /\ phase = "Draining" /\ newPhase = "Stopped" /\ newQ = q /\ newF = f
     /\ q = <<>> /\ \A t \in T : f[t] # "running"

LEMMA AcceptKeeps ==
  ASSUME NEW T, NEW capacity \in Nat, NEW q, NEW f, NEW t \in T,
         PoolOK(T, capacity, "Running", q, f), f[t] = "new", Len(q) < capacity
  PROVE  PoolOK(T, capacity, "Running", Append(q, t), [f EXCEPT ![t] = "queued"])
  <1> DEFINE q2 == Append(q, t)
             f2 == [f EXCEPT ![t] = "queued"]
  <1>1. q \in Seq(T) /\ f \in [T -> Outcomes] /\ Len(q) \in Nat
    BY DEF PoolOK, Fifo
  <1>2. q2 \in Seq(T) /\ Len(q2) = Len(q) + 1 /\ q2[Len(q) + 1] = t
        /\ \A i \in 1..Len(q) : q2[i] = q[i]
    BY <1>1
  <1>3. f2 \in [T -> Outcomes] /\ f2[t] = "queued" /\ \A u \in T : u # t => f2[u] = f[u]
    BY <1>1 DEF Outcomes
  <1>4. \A i \in 1..Len(q) : f[q[i]] = "queued" /\ q[i] \in T /\ q[i] # t
    BY <1>1 DEF PoolOK, Fifo
  <1>5. \A i \in 1..Len(q2) : i \in 1..Len(q) \/ i = Len(q) + 1
    BY <1>1, <1>2
  <1>6. \A i \in 1..Len(q2) : f2[q2[i]] = "queued"
    BY <1>2, <1>3, <1>4, <1>5
  <1>7. \A i, j \in 1..Len(q2) : q2[i] = q2[j] => i = j
    BY <1>2, <1>4, <1>5 DEF PoolOK, Fifo
  <1>8. \A u \in T : f2[u] = "queued" => \E i \in 1..Len(q2) : q2[i] = u
    <2> SUFFICES ASSUME NEW u \in T, f2[u] = "queued"
                 PROVE  \E i \in 1..Len(q2) : q2[i] = u
      OBVIOUS
    <2>1. CASE u = t
      BY <2>1, <1>1, <1>2
    <2>2. CASE u # t
      <3>1. PICK i \in 1..Len(q) : q[i] = u
        BY <2>2, <1>3 DEF PoolOK
      <3>2. QED
        BY <3>1, <1>1, <1>2
    <2>3. QED
      BY <2>1, <2>2
  <1>9. Len(q2) <= capacity
    BY <1>1, <1>2
  <1> HIDE DEF q2, f2
  <1>10. PoolOK(T, capacity, "Running", q2, f2)
    BY <1>2, <1>3, <1>6, <1>7, <1>8, <1>9 DEF PoolOK, Fifo
  <1>11. QED
    BY <1>10 DEF q2, f2

LEMMA SettleKeeps ==
  ASSUME NEW T, NEW capacity \in Nat, NEW phase, NEW q, NEW f, NEW t \in T,
         NEW v \in {"refused", "done"},
         PoolOK(T, capacity, phase, q, f), f[t] # "queued"
  PROVE  PoolOK(T, capacity, phase, q, [f EXCEPT ![t] = v])
  <1> DEFINE f2 == [f EXCEPT ![t] = v]
  <1>1. f \in [T -> Outcomes]
    BY DEF PoolOK, Fifo
  <1>2. f2 \in [T -> Outcomes] /\ f2[t] = v /\ \A u \in T : u # t => f2[u] = f[u]
    BY <1>1 DEF Outcomes
  <1>3. \A i \in 1..Len(q) : q[i] \in T /\ q[i] # t
    BY DEF PoolOK, Fifo
  <1>4. \A u \in T : f2[u] = "queued" => u # t
    BY <1>2
  <1>5. \A u \in T : InPool(f2, u) => InPool(f, u)
    BY <1>2 DEF InPool
  <1> HIDE DEF f2
  <1>6. PoolOK(T, capacity, phase, q, f2)
    BY <1>2, <1>3, <1>4, <1>5 DEF PoolOK, Fifo
  <1>7. QED
    BY <1>6 DEF f2

LEMMA BeginKeeps ==
  ASSUME NEW T, NEW capacity \in Nat, NEW phase, NEW q, NEW f,
         PoolOK(T, capacity, phase, q, f), phase # "Stopped", q # <<>>
  PROVE  /\ PoolOK(T, capacity, phase, Tail(q), [f EXCEPT ![Head(q)] = "running"])
         /\ Head(q) \in T /\ f[Head(q)] = "queued"
  <1> DEFINE q2 == Tail(q)
             f2 == [f EXCEPT ![Head(q)] = "running"]
  <1>1. q \in Seq(T) /\ f \in [T -> Outcomes] /\ Len(q) \in Nat \ {0}
        /\ Head(q) = q[1] /\ Head(q) \in T
    BY DEF PoolOK, Fifo
  <1>2. q2 \in Seq(T) /\ Len(q2) = Len(q) - 1 /\ \A i \in 1..Len(q2) : q2[i] = q[i + 1]
    BY <1>1
  <1>3. f[Head(q)] = "queued"
    BY <1>1 DEF PoolOK, Fifo
  <1>4. f2 \in [T -> Outcomes] /\ f2[Head(q)] = "running"
        /\ \A u \in T : u # Head(q) => f2[u] = f[u]
    BY <1>1 DEF Outcomes
  <1>5. \A i \in 1..Len(q2) : i + 1 \in 1..Len(q) /\ i + 1 # 1
    BY <1>1, <1>2
  <1>6. \A i, j \in 1..Len(q) : q[i] = q[j] => i = j
    BY DEF PoolOK, Fifo
  <1>7. \A i \in 1..Len(q2) : q2[i] # Head(q) /\ q2[i] \in T
    BY <1>1, <1>2, <1>5, <1>6
  <1>8. \A i \in 1..Len(q2) : f2[q2[i]] = "queued"
    BY <1>2, <1>4, <1>5, <1>7 DEF PoolOK, Fifo
  <1>9. \A i, j \in 1..Len(q2) : q2[i] = q2[j] => i = j
    <2> SUFFICES ASSUME NEW i \in 1..Len(q2), NEW j \in 1..Len(q2), q2[i] = q2[j]
                 PROVE  i = j
      OBVIOUS
    <2>1. i + 1 = j + 1
      BY <1>2, <1>5, <1>6
    <2>2. QED
      BY <2>1
  <1>10. \A u \in T : f2[u] = "queued" => \E i \in 1..Len(q2) : q2[i] = u
    <2> SUFFICES ASSUME NEW u \in T, f2[u] = "queued"
                 PROVE  \E i \in 1..Len(q2) : q2[i] = u
      OBVIOUS
    <2>1. u # Head(q) /\ f[u] = "queued"
      BY <1>4
    <2>2. PICK i \in 1..Len(q) : q[i] = u
      BY <2>1 DEF PoolOK
    <2>3. i - 1 \in 1..Len(q2) /\ (i - 1) + 1 = i
      BY <2>1, <2>2, <1>1, <1>2
    <2>4. QED
      BY <2>2, <2>3, <1>2
  <1>11. Len(q2) <= capacity
    BY <1>1, <1>2 DEF PoolOK
  <1>12. phase \in {"Running", "Draining", "Stopped"}
    BY DEF PoolOK
  <1> HIDE DEF q2, f2
  <1>13. PoolOK(T, capacity, phase, q2, f2)
    BY <1>2, <1>4, <1>8, <1>9, <1>10, <1>11, <1>12 DEF PoolOK, Fifo
  <1>14. QED
    BY <1>1, <1>3, <1>13 DEF q2, f2

LEMMA PoolKept ==
  ASSUME NEW T, NEW capacity \in Nat, NEW phase, NEW q, NEW f,
         NEW newPhase, NEW newQ, NEW newF,
         PoolOK(T, capacity, phase, q, f),
         PoolMove(T, capacity, phase, q, f, newPhase, newQ, newF)
  PROVE  PoolOK(T, capacity, newPhase, newQ, newF)
  <1>1. CASE newPhase = phase /\ newQ = q /\ newF = f
    BY <1>1
  <1>2. ASSUME NEW t \in T, f[t] = "new", Len(q) < capacity,
               newQ = Append(q, t), newF = [f EXCEPT ![t] = "queued"],
               phase = "Running", newPhase = phase
        PROVE  PoolOK(T, capacity, newPhase, newQ, newF)
    BY <1>2, AcceptKeeps
  <1>3. ASSUME NEW t \in T, NEW v \in {"refused", "done"}, f[t] \in {"new", "running"},
               newF = [f EXCEPT ![t] = v], newPhase = phase, newQ = q
        PROVE  PoolOK(T, capacity, newPhase, newQ, newF)
    BY <1>3, SettleKeeps
  <1>4. CASE /\ phase # "Stopped" /\ newPhase = phase
             /\ q # <<>> /\ newQ = Tail(q) /\ newF = [f EXCEPT ![Head(q)] = "running"]
    BY <1>4, BeginKeeps
  <1>5. CASE phase = "Running" /\ newPhase = "Draining" /\ newQ = q /\ newF = f
    BY <1>5 DEF PoolOK
  <1>6. CASE /\ phase = "Draining" /\ newPhase = "Stopped" /\ newQ = q /\ newF = f
             /\ q = <<>> /\ \A t \in T : f[t] # "running"
    <2>1. \A t \in T : ~InPool(f, t)
      BY <1>6 DEF PoolOK, InPool
    <2>2. QED
      BY <1>6, <2>1 DEF PoolOK
  <1>7. QED
    BY <1>1, <1>2, <1>3, <1>4, <1>5, <1>6 DEF PoolMove

\* The steps that leave all pools alone.
Handlers(r) ==
  \/ \E k \in Kinds : TurnedAway(r, k) \/ Rejected(r, k) \/ Handle(r, k) \/ HandleData(r, k)
  \/ NotAdmitted(r) \/ Admitted(r) \/ Leave(r)

Replies(r) ==
  \/ LoadFails(r) \/ LoadAnswers(r) \/ SaveAnswers(r) \/ SaveFails(r)
  \/ AnalysisFails(r) \/ AnalysisAnswers(r)
  \/ \E a \in {"ok", "failed"} : InferenceAnswers(r, a)

MainAlone == StopAccepting \/ \E s \in Services : CloseService(s) \/ AwaitTickets(s)

LEMMA NextSteps ==
  ASSUME [Next]_vars
  PROVE  \/ \E r \in Requests :
              \/ Handlers(r) \/ Replies(r) \/ PostLoad(r)
              \/ LoadInfers(r) \/ LoadAnalyses(r) \/ AnalysisSaves(r)
              \/ EndAnalysis(r) \/ EndInference(r)
         \/ \E t \in DbTasks : EndDb(t)
         \/ BeginDb \/ BeginAnalysis \/ BeginInference
         \/ MainAlone \/ CloseDb \/ JoinDb
         \/ \E p \in {"analysis", "inference"} : ClosePool(p) \/ JoinPool(p)
         \/ UNCHANGED vars
  BY DEF Next, HandlerNext, DbNext, AnalysisNext, InferenceNext, MainNext, Terminated,
         Handlers, Replies, MainAlone

LEMMA OthersKeepPools ==
  ASSUME \/ \E r \in Requests : Handlers(r) \/ Replies(r)
         \/ MainAlone \/ UNCHANGED vars
  PROVE  UNCHANGED dbVars /\ UNCHANGED analysisVars /\ UNCHANGED inferenceVars
  <1>1. ASSUME NEW r \in Requests, Handlers(r)
        PROVE  UNCHANGED dbVars /\ UNCHANGED analysisVars /\ UNCHANGED inferenceVars
    BY <1>1 DEF Handlers, Arrives, TurnedAway, Rejected, Handle, HandleData, NotAdmitted,
                Admitted, Leave
  <1>2. ASSUME NEW r \in Requests, Replies(r)
        PROVE  UNCHANGED dbVars /\ UNCHANGED analysisVars /\ UNCHANGED inferenceVars
    BY <1>2 DEF Replies, LoadFails, LoadAnswers, SaveAnswers, SaveFails, AnalysisFails,
                AnalysisAnswers, InferenceAnswers
  <1>3. CASE MainAlone
    BY <1>3 DEF MainAlone, StopAccepting, CloseService, AwaitTickets, Close, Proceed
  <1>4. CASE UNCHANGED vars
    BY <1>4 DEF vars
  <1>5. QED
    BY <1>1, <1>2, <1>3, <1>4

LEMMA TaskSets ==
  \A r \in Requests : Load(r) \in DbTasks /\ Save(r) \in DbTasks /\ Work(r) \in WorkTasks
  BY DEF Load, Save, Work, DbTasks, WorkTasks

LEMMA DbMoves ==
  ASSUME Pools, [Next]_vars
  PROVE  PoolMove(DbTasks, DbQueue, dbPhase, dbQueue, dbTasks, dbPhase', dbQueue', dbTasks')
  <1>1. ASSUME NEW r \in Requests, NEW t \in DbTasks, db!Accept(t) \/ db!Refuse(t)
        PROVE  PoolMove(DbTasks, DbQueue, dbPhase, dbQueue, dbTasks, dbPhase', dbQueue', dbTasks')
    BY <1>1 DEF db!Accept, db!Refuse, PoolMove
  <1>2. ASSUME NEW r \in Requests, PostLoad(r) \/ AnalysisSaves(r)
        PROVE  db!Accept(Load(r)) \/ db!Refuse(Load(r)) \/ db!Accept(Save(r)) \/ db!Refuse(Save(r))
    BY <1>2 DEF PostLoad, AnalysisSaves
  <1>3. ASSUME NEW t \in DbTasks, EndDb(t)
        PROVE  PoolMove(DbTasks, DbQueue, dbPhase, dbQueue, dbTasks, dbPhase', dbQueue', dbTasks')
    BY <1>3 DEF EndDb, db!Complete, PoolMove
  <1>4. CASE BeginDb
    BY <1>4 DEF BeginDb, db!Begin, PoolMove
  <1>5. CASE CloseDb
    BY <1>5 DEF CloseDb, db!CloseGracefully, PoolMove
  <1>6. CASE JoinDb
    <2>1. dbPhase = "Draining"
      BY <1>6 DEF JoinDb, db!Stop, Pools, PoolOK
    <2>2. QED
      BY <1>6, <2>1 DEF JoinDb, db!Stop, db!InProgress, PoolMove
  <1>7. CASE UNCHANGED dbVars
    BY <1>7 DEF dbVars, PoolMove
  <1>8. ASSUME NEW r \in Requests,
               LoadInfers(r) \/ LoadAnalyses(r) \/ EndAnalysis(r) \/ EndInference(r)
        PROVE  UNCHANGED dbVars
    BY <1>8 DEF LoadInfers, LoadAnalyses, EndAnalysis, EndInference
  <1>9. ASSUME BeginAnalysis \/ BeginInference
               \/ \E p \in {"analysis", "inference"} : ClosePool(p) \/ JoinPool(p)
        PROVE  UNCHANGED dbVars
    BY <1>9 DEF BeginAnalysis, BeginInference, ClosePool, JoinPool
  <1>10. QED
    BY <1>1, <1>2, <1>3, <1>4, <1>5, <1>6, <1>7, <1>8, <1>9, NextSteps, OthersKeepPools, TaskSets

LEMMA AnalysisMoves ==
  ASSUME Pools, [Next]_vars
  PROVE  PoolMove(WorkTasks, AnalysisQueue, analysisPhase, analysisQueue, analysisTasks,
                  analysisPhase', analysisQueue', analysisTasks')
  <1> DEFINE Moves == PoolMove(WorkTasks, AnalysisQueue, analysisPhase, analysisQueue,
                               analysisTasks, analysisPhase', analysisQueue', analysisTasks')
  <1>1. ASSUME NEW r \in Requests, LoadAnalyses(r) PROVE Moves
    BY <1>1, TaskSets DEF LoadAnalyses, analysis!Accept, analysis!Refuse, PoolMove
  <1>2. ASSUME NEW r \in Requests, EndAnalysis(r) PROVE Moves
    BY <1>2, TaskSets DEF EndAnalysis, analysis!Complete, PoolMove
  <1>3. CASE BeginAnalysis
    BY <1>3 DEF BeginAnalysis, analysis!Begin, PoolMove
  <1>4. ASSUME NEW p \in {"analysis", "inference"}, ClosePool(p) PROVE Moves
    BY <1>4 DEF ClosePool, analysis!CloseGracefully, PoolMove, analysisVars
  <1>5. ASSUME NEW p \in {"analysis", "inference"}, JoinPool(p) PROVE Moves
    <2>1. analysis!Stop \/ UNCHANGED analysisVars
      BY <1>5 DEF JoinPool
    <2>2. analysis!Stop => analysisPhase = "Draining"
      BY DEF analysis!Stop, Pools, PoolOK
    <2>3. QED
      BY <2>1, <2>2 DEF analysis!Stop, analysis!InProgress, PoolMove, analysisVars
  <1>6. CASE UNCHANGED analysisVars
    BY <1>6 DEF analysisVars, PoolMove
  <1>7. ASSUME NEW r \in Requests,
               LoadInfers(r) \/ PostLoad(r) \/ AnalysisSaves(r) \/ EndInference(r)
        PROVE  UNCHANGED analysisVars
    BY <1>7 DEF LoadInfers, PostLoad, AnalysisSaves, EndInference
  <1>8. ASSUME \/ BeginDb \/ BeginInference \/ CloseDb \/ JoinDb \/ \E t \in DbTasks : EndDb(t)
        PROVE  UNCHANGED analysisVars
    BY <1>8 DEF BeginDb, BeginInference, CloseDb, JoinDb, EndDb
  <1>9. QED
    BY <1>1, <1>2, <1>3, <1>4, <1>5, <1>6, <1>7, <1>8, NextSteps, OthersKeepPools

LEMMA InferenceMoves ==
  ASSUME Pools, [Next]_vars
  PROVE  PoolMove(WorkTasks, InferenceQueue, inferencePhase, inferenceQueue, inferenceTasks,
                  inferencePhase', inferenceQueue', inferenceTasks')
  <1> DEFINE Moves == PoolMove(WorkTasks, InferenceQueue, inferencePhase, inferenceQueue,
                               inferenceTasks, inferencePhase', inferenceQueue', inferenceTasks')
  <1>1. ASSUME NEW r \in Requests, LoadInfers(r) PROVE Moves
    BY <1>1, TaskSets DEF LoadInfers, inference!Accept, inference!Refuse, PoolMove
  <1>2. ASSUME NEW r \in Requests, EndInference(r) PROVE Moves
    BY <1>2, TaskSets DEF EndInference, inference!Complete, PoolMove
  <1>3. CASE BeginInference
    BY <1>3 DEF BeginInference, inference!Begin, PoolMove
  <1>4. ASSUME NEW p \in {"analysis", "inference"}, ClosePool(p) PROVE Moves
    BY <1>4 DEF ClosePool, inference!CloseGracefully, PoolMove, inferenceVars
  <1>5. ASSUME NEW p \in {"analysis", "inference"}, JoinPool(p) PROVE Moves
    <2>1. inference!Stop \/ UNCHANGED inferenceVars
      BY <1>5 DEF JoinPool
    <2>2. inference!Stop => inferencePhase = "Draining"
      BY DEF inference!Stop, Pools, PoolOK
    <2>3. QED
      BY <2>1, <2>2 DEF inference!Stop, inference!InProgress, PoolMove, inferenceVars
  <1>6. CASE UNCHANGED inferenceVars
    BY <1>6 DEF inferenceVars, PoolMove
  <1>7. ASSUME NEW r \in Requests,
               LoadAnalyses(r) \/ PostLoad(r) \/ AnalysisSaves(r) \/ EndAnalysis(r)
        PROVE  UNCHANGED inferenceVars
    BY <1>7 DEF LoadAnalyses, PostLoad, AnalysisSaves, EndAnalysis
  <1>8. ASSUME \/ BeginDb \/ BeginAnalysis \/ CloseDb \/ JoinDb \/ \E t \in DbTasks : EndDb(t)
        PROVE  UNCHANGED inferenceVars
    BY <1>8 DEF BeginDb, BeginAnalysis, CloseDb, JoinDb, EndDb
  <1>9. QED
    BY <1>1, <1>2, <1>3, <1>4, <1>5, <1>6, <1>7, <1>8, NextSteps, OthersKeepPools

LEMMA PoolsStep ==
  ASSUME Pools, [Next]_vars
  PROVE  Pools'
  <1>1. {DbQueue, AnalysisQueue, InferenceQueue} \subseteq Nat
    BY OptionsAssumption
  <1>2. PoolOK(DbTasks, DbQueue, dbPhase', dbQueue', dbTasks')
    BY <1>1, DbMoves, PoolKept DEF Pools
  <1>3. PoolOK(WorkTasks, AnalysisQueue, analysisPhase', analysisQueue', analysisTasks')
    BY <1>1, AnalysisMoves, PoolKept DEF Pools
  <1>4. PoolOK(WorkTasks, InferenceQueue, inferencePhase', inferenceQueue', inferenceTasks')
    BY <1>1, InferenceMoves, PoolKept DEF Pools
  <1>5. QED
    BY <1>2, <1>3, <1>4 DEF Pools

-----------------------------------------------------------------------------
(* The journey of a request.                                               *)

\* What the steps of one request need to know of the variables.
Shapes ==
  /\ kind \in [Requests -> Kinds \cup {"unsent"}]
  /\ io \in [Requests -> {"out", "admit", "post", "leave"}]
  /\ answer \in [Requests -> Answers \cup {"none", "twice"}]
  /\ held \in [Requests -> SUBSET Places]
  /\ dbTasks \in [DbTasks -> Outcomes]
  /\ analysisTasks \in [WorkTasks -> Outcomes]
  /\ inferenceTasks \in [WorkTasks -> Outcomes]

LEMMA ShapesHold ==
  ASSUME TypeOK, Pools PROVE Shapes
  BY DEF TypeOK, Pools, PoolOK, Fifo, Shapes

LEMMA TaskNames ==
  \A r, q \in Requests :
    /\ Load(r) # Save(q) /\ Load(r) # Work(q) /\ Save(r) # Work(q)
    /\ r # q => Load(r) # Load(q) /\ Save(r) # Save(q) /\ Work(r) # Work(q)
  BY DEF Load, Save, Work

LEMMA DbTaskIsNamed ==
  ASSUME NEW t \in DbTasks
  PROVE  \E r \in Requests : \/ t = Load(r) /\ t[1] = r /\ t[2] = "load"
                             \/ t = Save(r) /\ t[1] = r /\ t[2] = "save"
  BY DEF DbTasks, Load, Save

\* A step that is not of this request.
Still(q) ==
  /\ kind'[q] = kind[q] /\ io'[q] = io[q] /\ answer'[q] = answer[q] /\ held'[q] = held[q]
  /\ dbTasks'[Load(q)] = dbTasks[Load(q)] /\ dbTasks'[Save(q)] = dbTasks[Save(q)]
  /\ analysisTasks'[Work(q)] = analysisTasks[Work(q)]
  /\ inferenceTasks'[Work(q)] = inferenceTasks[Work(q)]
  /\ \A t \in {Load(q), Save(q), Work(q)} : t \in ran' <=> t \in ran
  /\ q \in stored' <=> q \in stored

LEMMA StillKeeps ==
  ASSUME NEW q \in Requests, Journey(q), Still(q) PROVE Journey(q)'
  <1>1. HeldWhere(q)'
    BY DEF Journey, HeldWhere, Still, InPool
  <1>2. InOrder(q)'
    BY DEF Journey, InOrder, Still, Ticketed, Loaded
  <1>3. Waits(q)' <=> Waits(q)
    BY DEF Still, Waits, InPool
  <1>4. Answered(q)'
    BY <1>3 DEF Journey, Answered, Still
  <1>5. QED
    BY <1>1, <1>2, <1>4 DEF Journey

\* All that a step of this request may touch.
Touches(r) ==
  /\ \A q \in Requests \ {r} : /\ kind'[q] = kind[q] /\ io'[q] = io[q]
                              /\ answer'[q] = answer[q] /\ held'[q] = held[q]
  /\ \A t \in DbTasks \ {Load(r), Save(r)} : dbTasks'[t] = dbTasks[t]
  /\ \A t \in WorkTasks \ {Work(r)} : /\ analysisTasks'[t] = analysisTasks[t]
                                     /\ inferenceTasks'[t] = inferenceTasks[t]
  /\ ran' \ {Load(r), Save(r), Work(r)} = ran \ {Load(r), Save(r), Work(r)}
  /\ stored' \ {r} = stored \ {r}

LEMMA TouchesOne ==
  ASSUME NEW r \in Requests, Touches(r)
  PROVE  \A q \in Requests \ {r} : Still(q)
  BY TaskNames, TaskSets DEF Touches, Still

LEMMA HandlersTouch ==
  ASSUME Shapes, NEW r \in Requests, Handlers(r) PROVE Touches(r)
  <1>1. UNCHANGED <<ran, stored, dbTasks, analysisTasks, inferenceTasks>>
    BY OthersKeepPools
    DEF Handlers, TurnedAway, Rejected, Handle, HandleData, Arrives, NotAdmitted, Admitted, Leave,
        dbVars, analysisVars, inferenceVars
  <1>2. \A q \in Requests \ {r} : /\ kind'[q] = kind[q] /\ io'[q] = io[q]
                                /\ answer'[q] = answer[q] /\ held'[q] = held[q]
    BY DEF Shapes, Handlers, TurnedAway, Rejected, Handle, HandleData, Arrives, NotAdmitted,
           Admitted, Leave, Answer, Hold, Release
  <1>3. QED
    BY <1>1, <1>2 DEF Touches

LEMMA RepliesTouch ==
  ASSUME Shapes, NEW r \in Requests, Replies(r) PROVE Touches(r)
  <1>1. UNCHANGED <<kind, io, held, dbTasks, analysisTasks, inferenceTasks>>
    BY OthersKeepPools
    DEF Replies, LoadFails, LoadAnswers, SaveAnswers, SaveFails, AnalysisFails, AnalysisAnswers,
        InferenceAnswers, Body, dbVars, analysisVars, inferenceVars
  <1>2. /\ \E t \in {Load(r), Save(r), Work(r)} : ran' = ran \cup {t}
        /\ stored' \in {stored, stored \cup {r}}
        /\ \A q \in Requests \ {r} : answer'[q] = answer[q]
    BY DEF Shapes, Replies, LoadFails, LoadAnswers, SaveAnswers, SaveFails, AnalysisFails,
           AnalysisAnswers, InferenceAnswers, Body, Answer
  <1>3. QED
    BY <1>1, <1>2 DEF Touches

LEMMA PostsTouch ==
  ASSUME Shapes, NEW r \in Requests,
         PostLoad(r) \/ LoadInfers(r) \/ LoadAnalyses(r) \/ AnalysisSaves(r)
  PROVE  Touches(r)
  <1>1. CASE PostLoad(r)
    BY <1>1 DEF Shapes, PostLoad, db!Accept, db!Refuse, Hold, Answer, Touches, analysisVars,
                inferenceVars
  <1>2. CASE LoadInfers(r)
    BY <1>2 DEF Shapes, LoadInfers, Body, inference!Accept, inference!Refuse, Hold, Answer,
                Touches, dbVars, analysisVars
  <1>3. CASE LoadAnalyses(r)
    BY <1>3 DEF Shapes, LoadAnalyses, Body, analysis!Accept, analysis!Refuse, Hold, Answer,
                Touches, dbVars, inferenceVars
  <1>4. CASE AnalysisSaves(r)
    BY <1>4 DEF Shapes, AnalysisSaves, Body, db!Accept, db!Refuse, Hold, Answer,
                Touches, analysisVars, inferenceVars
  <1>5. QED
    BY <1>1, <1>2, <1>3, <1>4

LEMMA EndsTouch ==
  ASSUME Shapes, NEW r \in Requests,
         EndDb(Load(r)) \/ EndDb(Save(r)) \/ EndAnalysis(r) \/ EndInference(r)
  PROVE  Touches(r)
  <1>1. Load(r)[1] = r /\ Save(r)[1] = r
    BY DEF Load, Save
  <1>2. CASE EndDb(Load(r)) \/ EndDb(Save(r))
    BY <1>1, <1>2 DEF Shapes, EndDb, db!Complete, Release, Touches, analysisVars, inferenceVars
  <1>3. CASE EndAnalysis(r)
    BY <1>3 DEF Shapes, EndAnalysis, analysis!Complete, Release, Touches, dbVars, inferenceVars
  <1>4. CASE EndInference(r)
    BY <1>4 DEF Shapes, EndInference, inference!Complete, Release, Touches, dbVars, analysisVars
  <1>5. QED
    BY <1>2, <1>3, <1>4

\* A request that has not arrived, or has no database task yet, has none.
LEMMA NothingBefore ==
  ASSUME Shapes, NEW r \in Requests, Journey(r),
         kind[r] = "unsent" \/ io[r] \in {"admit", "post"}
  PROVE  /\ dbTasks[Load(r)] = "new" /\ dbTasks[Save(r)] = "new"
         /\ analysisTasks[Work(r)] = "new" /\ inferenceTasks[Work(r)] = "new"
         /\ {Load(r), Save(r), Work(r)} \cap ran = {}
         /\ held[r] \subseteq {"io"}
  <1>1. dbTasks[Load(r)] = "new" /\ Load(r) \notin ran
    BY DEF Journey, InOrder
  <1>2. analysisTasks[Work(r)] = "new" /\ inferenceTasks[Work(r)] = "new" /\ Work(r) \notin ran
    BY <1>1 DEF Journey, InOrder, Loaded
  <1>3. dbTasks[Save(r)] = "new" /\ Save(r) \notin ran
    BY <1>2 DEF Journey, InOrder
  <1>4. held[r] \subseteq {"io"}
    BY <1>1, <1>2, <1>3 DEF Journey, HeldWhere, InPool, Shapes, Places
  <1>5. QED
    BY <1>1, <1>2, <1>3, <1>4

LEMMA ArrivalJourney ==
  ASSUME Shapes, NEW r \in Requests, NEW k \in Kinds, Journey(r),
         TurnedAway(r, k) \/ Rejected(r, k) \/ Handle(r, k) \/ HandleData(r, k)
  PROVE  Journey(r)'
  <1>1. kind[r] = "unsent" /\ kind'[r] = k /\ io[r] = "out" /\ answer[r] = "none"
    BY DEF TurnedAway, Rejected, Handle, HandleData, Arrives, Shapes, Journey, InOrder
  <1>2. UNCHANGED <<ran, stored, dbTasks, analysisTasks, inferenceTasks>>
    BY DEF TurnedAway, Rejected, Handle, HandleData, Arrives, dbVars, analysisVars, inferenceVars
  <1>3. held[r] = {} /\ r \notin stored
    BY <1>1, NothingBefore DEF Journey, HeldWhere, Answered
  <1>4. \/ io'[r] = "out" /\ held'[r] = {} /\ answer'[r] \in {"stopping", "rejected"}
        \/ io'[r] = "post" /\ held'[r] = {"io"} /\ answer'[r] = "none"
        \/ /\ io'[r] = "admit" /\ held'[r] = {} /\ answer'[r] = "none"
           /\ k \in {"classification", "save", "forecastData"}
    BY <1>1, <1>3 DEF TurnedAway, Rejected, Handle, HandleData, Hold, Shapes
  <1>5. k # "unsent"
    BY DEF Kinds
  <1>6. HeldWhere(r)'
    BY <1>1, <1>2, <1>4, NothingBefore DEF HeldWhere, InPool
  <1>7. InOrder(r)'
    BY <1>1, <1>2, <1>4, <1>5, NothingBefore DEF InOrder, Ticketed
  <1>8. Answered(r)'
    BY <1>1, <1>2, <1>3, <1>4, <1>5, NothingBefore DEF Answered, Waits, InPool
  <1>9. QED
    BY <1>6, <1>7, <1>8 DEF Journey

LEMMA HandlerJourney ==
  ASSUME Shapes, NEW r \in Requests, Journey(r),
         NotAdmitted(r) \/ Admitted(r) \/ Leave(r)
  PROVE  Journey(r)'
  <1>1. UNCHANGED <<kind, ran, stored, dbTasks, analysisTasks, inferenceTasks>>
    BY DEF NotAdmitted, Admitted, Leave, dbVars, analysisVars, inferenceVars
  <1>2. CASE NotAdmitted(r) \/ Admitted(r)
    <2>1. io[r] = "admit" /\ kind[r] # "unsent" /\ answer[r] = "none" /\ held[r] = {}
      BY <1>2, NothingBefore
      DEF NotAdmitted, Admitted, Journey, InOrder, HeldWhere, Answered, Waits
    <2>2. \/ io'[r] = "out" /\ held'[r] = {} /\ answer'[r] \in {"stopping", "busy"}
          \/ io'[r] = "post" /\ held'[r] = {"io"} /\ answer'[r] = "none"
      BY <1>2, <2>1 DEF NotAdmitted, Admitted, Hold, Answer, Shapes
    <2>3. HeldWhere(r)'
      BY <1>1, <2>1, <2>2, NothingBefore DEF HeldWhere, InPool
    <2>4. InOrder(r)'
      BY <1>1, <2>1, <2>2, NothingBefore DEF InOrder, Ticketed
    <2>5. r \notin stored
      BY <2>1 DEF Journey, Answered
    <2>6. Answered(r)'
      BY <1>1, <2>1, <2>2, <2>5, NothingBefore DEF Answered, Waits, InPool
    <2>7. QED
      BY <2>3, <2>4, <2>6 DEF Journey
  <1>3. CASE Leave(r)
    <2>1. /\ io[r] = "leave" /\ io'[r] = "out" /\ answer'[r] = answer[r]
          /\ held'[r] = held[r] \ {"io"}
      BY <1>3 DEF Leave, Release, Shapes
    <2>2. HeldWhere(r)'
      BY <1>1, <2>1 DEF Journey, HeldWhere, InPool
    <2>3. InOrder(r)'
      BY <1>1, <2>1 DEF Journey, InOrder, Ticketed, Loaded
    <2>4. Waits(r)' <=> Waits(r)
      BY <1>1, <2>1 DEF Waits, InPool
    <2>5. Answered(r)'
      BY <1>1, <2>1, <2>4 DEF Journey, Answered
    <2>6. QED
      BY <2>2, <2>3, <2>5 DEF Journey
  <1>4. QED
    BY <1>2, <1>3

LEMMA PostLoadJourney ==
  ASSUME Shapes, NEW r \in Requests, Journey(r), PostLoad(r)
  PROVE  Journey(r)'
  <1>1. UNCHANGED <<kind, ran, stored, analysisTasks, inferenceTasks>>
    BY DEF PostLoad, analysisVars, inferenceVars
  <1>2. io[r] = "post" /\ io'[r] = "leave" /\ kind[r] # "unsent" /\ answer[r] = "none"
        /\ held[r] = {"io"} /\ r \notin stored
    BY NothingBefore DEF PostLoad, Shapes, Journey, HeldWhere, InOrder, Answered, Waits
  <1>3. dbTasks'[Save(r)] = "new"
    BY <1>2, NothingBefore, TaskNames, TaskSets DEF PostLoad, db!Accept, db!Refuse, Shapes
  <1>4. \/ dbTasks'[Load(r)] = "queued" /\ held'[r] = {"io", "load"} /\ answer'[r] = "none"
        \/ dbTasks'[Load(r)] = "refused" /\ held'[r] = {"io"} /\ answer'[r] = "busy"
    BY <1>2, TaskSets DEF PostLoad, db!Accept, db!Refuse, Shapes, Hold, Answer
  <1>5. HeldWhere(r)'
    BY <1>1, <1>2, <1>3, <1>4, NothingBefore DEF HeldWhere, InPool
  <1>6. InOrder(r)'
    BY <1>1, <1>2, <1>3, <1>4, NothingBefore DEF InOrder
  <1>7. Answered(r)'
    BY <1>1, <1>2, <1>3, <1>4, NothingBefore DEF Answered, Waits, InPool
  <1>8. QED
    BY <1>5, <1>6, <1>7 DEF Journey

\* Where a request is whose task is in its body: nowhere else.
LEMMA LoadBody ==
  ASSUME Shapes, NEW r \in Requests, Journey(r), Body(Load(r), dbTasks)
  PROVE  /\ io[r] \in {"leave", "out"} /\ kind[r] # "unsent" /\ answer[r] = "none"
         /\ dbTasks[Save(r)] = "new" /\ analysisTasks[Work(r)] = "new"
         /\ inferenceTasks[Work(r)] = "new"
         /\ Work(r) \notin ran /\ Save(r) \notin ran /\ r \notin stored
  <1>1. dbTasks[Load(r)] = "running" /\ Load(r) \notin ran
    BY DEF Body
  <1>2. io[r] \in {"leave", "out"} /\ kind[r] # "unsent"
        /\ analysisTasks[Work(r)] = "new" /\ inferenceTasks[Work(r)] = "new"
    BY <1>1 DEF Journey, InOrder, Loaded
  <1>3. dbTasks[Save(r)] = "new" /\ Work(r) \notin ran /\ Save(r) \notin ran
    BY <1>2 DEF Journey, InOrder
  <1>4. answer[r] = "none"
    BY <1>1, <1>2 DEF Journey, Answered, Waits, InPool
  <1>5. QED
    BY <1>2, <1>3, <1>4 DEF Journey, Answered

LEMMA AnalysisBody ==
  ASSUME Shapes, NEW r \in Requests, Journey(r), Body(Work(r), analysisTasks)
  PROVE  /\ io[r] \in {"leave", "out"} /\ Ticketed(r) /\ answer[r] = "none"
         /\ Loaded(r) /\ dbTasks[Save(r)] = "new" /\ inferenceTasks[Work(r)] = "new"
         /\ Save(r) \notin ran /\ r \notin stored
  <1>1. analysisTasks[Work(r)] = "running" /\ Work(r) \notin ran
    BY DEF Body
  <1>2. Ticketed(r) /\ Loaded(r) /\ inferenceTasks[Work(r)] = "new"
        /\ dbTasks[Save(r)] = "new" /\ Save(r) \notin ran
    BY <1>1 DEF Journey, InOrder, Ticketed
  <1>3. io[r] \in {"leave", "out"}
    BY <1>2 DEF Journey, InOrder, Loaded
  <1>4. answer[r] = "none"
    BY <1>1, <1>2 DEF Journey, Answered, Waits, InPool, Ticketed
  <1>5. QED
    BY <1>2, <1>3, <1>4 DEF Journey, Answered

LEMMA InferenceBody ==
  ASSUME Shapes, NEW r \in Requests, Journey(r), Body(Work(r), inferenceTasks)
  PROVE  /\ io[r] \in {"leave", "out"} /\ kind[r] = "infer" /\ answer[r] = "none"
         /\ Loaded(r) /\ dbTasks[Save(r)] = "new" /\ analysisTasks[Work(r)] = "new"
         /\ Save(r) \notin ran /\ r \notin stored
  <1>1. inferenceTasks[Work(r)] = "running" /\ Work(r) \notin ran
    BY DEF Body
  <1>2. kind[r] = "infer" /\ Loaded(r) /\ analysisTasks[Work(r)] = "new"
        /\ dbTasks[Save(r)] = "new" /\ Save(r) \notin ran
    BY <1>1 DEF Journey, InOrder, Ticketed
  <1>3. io[r] \in {"leave", "out"}
    BY <1>2 DEF Journey, InOrder, Loaded
  <1>4. answer[r] = "none"
    BY <1>1, <1>2 DEF Journey, Answered, Waits, InPool
  <1>5. QED
    BY <1>2, <1>3, <1>4 DEF Journey, Answered

LEMMA SaveBody ==
  ASSUME Shapes, NEW r \in Requests, Journey(r), Body(Save(r), dbTasks)
  PROVE  /\ io[r] \in {"leave", "out"} /\ kind[r] = "save" /\ answer[r] = "none"
         /\ Loaded(r) /\ inferenceTasks[Work(r)] = "new"
         /\ Work(r) \in ran \/ analysisTasks[Work(r)] = "done"
         /\ r \notin stored
  <1>1. dbTasks[Save(r)] = "running" /\ Save(r) \notin ran
    BY DEF Body
  <1>2. kind[r] = "save" /\ (Work(r) \in ran \/ analysisTasks[Work(r)] = "done")
        /\ inferenceTasks[Work(r)] = "new"
    BY <1>1 DEF Journey, InOrder
  <1>3. Loaded(r) /\ io[r] \in {"leave", "out"}
    BY <1>2 DEF Journey, InOrder, Loaded
  <1>4. answer[r] = "none"
    BY <1>1, <1>2 DEF Journey, Answered, Waits, InPool
  <1>5. QED
    BY <1>2, <1>3, <1>4 DEF Journey, Answered

\* The body of a task gives the answer: the request is nowhere after it.
LEMMA ReplyJourney ==
  ASSUME Shapes, NEW r \in Requests, Journey(r), Replies(r)
  PROVE  Journey(r)'
  <1>1. UNCHANGED <<kind, io, held, dbTasks, analysisTasks, inferenceTasks>>
    BY OthersKeepPools
    DEF Replies, LoadFails, LoadAnswers, SaveAnswers, SaveFails, AnalysisFails, AnalysisAnswers,
        InferenceAnswers, Body, dbVars, analysisVars, inferenceVars
  <1>2. HeldWhere(r)'
    BY <1>1 DEF Journey, HeldWhere, InPool
  <1>3. CASE LoadFails(r) \/ LoadAnswers(r)
    <2>1. /\ Body(Load(r), dbTasks) /\ ran' = ran \cup {Load(r)} /\ stored' = stored
          /\ dbTasks[Load(r)] = "running"
      BY <1>3 DEF LoadFails, LoadAnswers, Body
    <2>2. answer'[r] \in {"failed", "ok"} /\ (answer'[r] = "ok" => kind[r] = "read")
      BY <1>3, <2>1, LoadBody DEF LoadFails, LoadAnswers, Answer, Shapes
    <2>3. InOrder(r)'
      BY <1>1, <2>1, LoadBody, TaskNames DEF Journey, InOrder, Ticketed, Loaded
    <2>4. Answered(r)'
      BY <1>1, <2>1, <2>2, LoadBody, TaskNames DEF Answered, Waits, InPool
    <2>5. QED
      BY <1>2, <2>3, <2>4 DEF Journey
  <1>4. CASE SaveFails(r) \/ SaveAnswers(r)
    <2>1. /\ Body(Save(r), dbTasks) /\ ran' = ran \cup {Save(r)}
          /\ dbTasks[Save(r)] = "running"
      BY <1>4 DEF SaveFails, SaveAnswers, Body
    <2>2. \/ answer'[r] = "failed" /\ stored' \in {stored, stored \cup {r}}
          \/ answer'[r] = "ok" /\ stored' = stored \cup {r}
      BY <1>4, <2>1, SaveBody DEF SaveFails, SaveAnswers, Answer, Shapes
    <2>3. InOrder(r)'
      BY <1>1, <2>1, SaveBody, TaskNames DEF Journey, InOrder, Ticketed, Loaded
    <2>4. Answered(r)'
      BY <1>1, <2>1, <2>2, SaveBody, TaskNames DEF Answered, Waits, InPool, Loaded
    <2>5. QED
      BY <1>2, <2>3, <2>4 DEF Journey
  <1>5. CASE AnalysisFails(r) \/ AnalysisAnswers(r)
    <2>1. /\ Body(Work(r), analysisTasks) /\ ran' = ran \cup {Work(r)} /\ stored' = stored
          /\ analysisTasks[Work(r)] = "running"
      BY <1>5 DEF AnalysisFails, AnalysisAnswers, Body
    <2>2. answer'[r] \in {"failed", "ok"} /\ (answer'[r] = "ok" => kind[r] # "save")
      BY <1>5, <2>1, AnalysisBody DEF AnalysisFails, AnalysisAnswers, Answer, Shapes
    <2>3. InOrder(r)'
      BY <1>1, <2>1, AnalysisBody, TaskNames DEF Journey, InOrder, Ticketed, Loaded
    <2>4. Answered(r)'
      BY <1>1, <2>1, <2>2, AnalysisBody, TaskNames DEF Answered, Waits, InPool, Loaded
    <2>5. QED
      BY <1>2, <2>3, <2>4 DEF Journey
  <1>6. ASSUME NEW a \in {"ok", "failed"}, InferenceAnswers(r, a)
        PROVE  Journey(r)'
    <2>1. /\ Body(Work(r), inferenceTasks) /\ ran' = ran \cup {Work(r)} /\ stored' = stored
          /\ inferenceTasks[Work(r)] = "running"
      BY <1>6 DEF InferenceAnswers, Body
    <2>2. answer'[r] = a /\ kind[r] = "infer"
      BY <1>6, <2>1, InferenceBody DEF InferenceAnswers, Answer, Shapes
    <2>3. InOrder(r)'
      BY <1>1, <2>1, InferenceBody, TaskNames DEF Journey, InOrder, Ticketed, Loaded
    <2>4. Answered(r)'
      BY <1>1, <2>1, <2>2, InferenceBody, TaskNames DEF Answered, Waits, InPool, Loaded
    <2>5. QED
      BY <1>2, <2>3, <2>4 DEF Journey
  <1>7. QED
    BY <1>3, <1>4, <1>5, <1>6 DEF Replies

\* The body of a task hands the request over to the next pool, or answers.
LEMMA HandOverJourney ==
  ASSUME Shapes, NEW r \in Requests, Journey(r),
         LoadInfers(r) \/ LoadAnalyses(r) \/ AnalysisSaves(r)
  PROVE  Journey(r)'
  <1>1. CASE LoadInfers(r)
    <2>1. /\ Body(Load(r), dbTasks) /\ ran' = ran \cup {Load(r)} /\ kind[r] = "infer"
          /\ dbTasks[Load(r)] = "running"
          /\ UNCHANGED <<kind, io, stored, dbTasks, analysisTasks>>
      BY <1>1 DEF LoadInfers, Body, dbVars, analysisVars
    <2>2. \/ /\ inferenceTasks'[Work(r)] = "queued" /\ held'[r] = held[r] \cup {"work"}
             /\ answer'[r] = "none"
          \/ /\ inferenceTasks'[Work(r)] = "refused" /\ held'[r] = held[r]
             /\ answer'[r] = "busy"
      BY <1>1, <2>1, LoadBody, TaskSets
      DEF LoadInfers, inference!Accept, inference!Refuse, Hold, Answer, Shapes, Ticketed
    <2>3. HeldWhere(r)'
      BY <2>1, <2>2, LoadBody DEF Journey, HeldWhere, InPool
    <2>4. InOrder(r)'
      BY <2>1, <2>2, LoadBody, TaskNames DEF Journey, InOrder, Ticketed, Loaded
    <2>5. Answered(r)'
      BY <2>1, <2>2, LoadBody, TaskNames DEF Answered, Waits, InPool
    <2>6. QED
      BY <2>3, <2>4, <2>5 DEF Journey
  <1>2. CASE LoadAnalyses(r)
    <2>1. /\ Body(Load(r), dbTasks) /\ ran' = ran \cup {Load(r)} /\ Ticketed(r)
          /\ dbTasks[Load(r)] = "running"
          /\ UNCHANGED <<kind, io, stored, dbTasks, inferenceTasks>>
      BY <1>2 DEF LoadAnalyses, Body, dbVars, inferenceVars
    <2>2. \/ /\ analysisTasks'[Work(r)] = "queued" /\ held'[r] = held[r] \cup {"work"}
             /\ answer'[r] = "none"
          \/ /\ analysisTasks'[Work(r)] = "refused" /\ held'[r] = held[r]
             /\ answer'[r] = "busy"
      BY <1>2, <2>1, LoadBody, TaskSets
      DEF LoadAnalyses, analysis!Accept, analysis!Refuse, Hold, Answer, Shapes, Ticketed
    <2>3. HeldWhere(r)'
      BY <2>1, <2>2, LoadBody DEF Journey, HeldWhere, InPool
    <2>4. InOrder(r)'
      BY <2>1, <2>2, LoadBody, TaskNames DEF Journey, InOrder, Ticketed, Loaded
    <2>5. Answered(r)'
      BY <2>1, <2>2, LoadBody, TaskNames DEF Answered, Waits, InPool
    <2>6. QED
      BY <2>3, <2>4, <2>5 DEF Journey
  <1>3. CASE AnalysisSaves(r)
    <2>1. /\ Body(Work(r), analysisTasks) /\ ran' = ran \cup {Work(r)} /\ kind[r] = "save"
          /\ analysisTasks[Work(r)] = "running"
          /\ UNCHANGED <<kind, io, stored, analysisTasks, inferenceTasks>>
      BY <1>3 DEF AnalysisSaves, Body, analysisVars, inferenceVars
    <2>2. \/ /\ dbTasks'[Save(r)] = "queued" /\ held'[r] = held[r] \cup {"save"}
             /\ answer'[r] = "none"
          \/ /\ dbTasks'[Save(r)] = "refused" /\ held'[r] = held[r]
             /\ answer'[r] = "busy"
      BY <1>3, <2>1, AnalysisBody, TaskSets
      DEF AnalysisSaves, db!Accept, db!Refuse, Hold, Answer, Shapes, Ticketed
    <2>3. dbTasks'[Load(r)] = dbTasks[Load(r)]
      BY <1>3, TaskNames, TaskSets DEF AnalysisSaves, db!Accept, db!Refuse, Shapes
    <2>4. HeldWhere(r)'
      BY <2>1, <2>2, <2>3, AnalysisBody DEF Journey, HeldWhere, InPool
    <2>5. InOrder(r)'
      BY <2>1, <2>2, <2>3, AnalysisBody, TaskNames DEF Journey, InOrder, Ticketed, Loaded
    <2>6. Answered(r)'
      BY <2>1, <2>2, <2>3, AnalysisBody, TaskNames DEF Answered, Waits, InPool, Loaded
    <2>7. QED
      BY <2>4, <2>5, <2>6 DEF Journey
  <1>4. QED
    BY <1>1, <1>2, <1>3

\* The closure of a task is destroyed, and with it its copy of the completion.
LEMMA EndJourney ==
  ASSUME Shapes, NEW r \in Requests, Journey(r),
         EndDb(Load(r)) \/ EndDb(Save(r)) \/ EndAnalysis(r) \/ EndInference(r)
  PROVE  Journey(r)'
  <1> DEFINE Ends(t, place) ==
        /\ t \in ran /\ ran' = ran \ {t} /\ held'[r] = held[r] \ {place}
        /\ UNCHANGED <<kind, io, answer, stored>>
  <1>1. Load(r)[1] = r /\ Load(r)[2] = "load" /\ Save(r)[1] = r /\ Save(r)[2] = "save"
    BY DEF Load, Save
  <1>2. CASE EndDb(Load(r))
    <2>1. Ends(Load(r), "load")
      BY <1>1, <1>2 DEF EndDb, Release, Shapes
    <2>2. /\ dbTasks[Load(r)] = "running" /\ dbTasks'[Load(r)] = "done"
          /\ dbTasks'[Save(r)] = dbTasks[Save(r)]
          /\ UNCHANGED <<analysisTasks, inferenceTasks>>
      BY <1>2, TaskNames, TaskSets
      DEF EndDb, db!Complete, Shapes, analysisVars, inferenceVars
    <2>3. HeldWhere(r)'
      BY <2>1, <2>2 DEF Journey, HeldWhere, InPool
    <2>4. InOrder(r)'
      BY <2>1, <2>2, TaskNames DEF Journey, InOrder, Ticketed, Loaded
    <2>5. Waits(r)' <=> Waits(r)
      BY <2>1, <2>2, TaskNames DEF Waits, InPool
    <2>6. Answered(r)'
      BY <2>1, <2>5 DEF Journey, Answered
    <2>7. QED
      BY <2>3, <2>4, <2>6 DEF Journey
  <1>3. CASE EndDb(Save(r))
    <2>1. Ends(Save(r), "save")
      BY <1>1, <1>3 DEF EndDb, Release, Shapes
    <2>2. /\ dbTasks[Save(r)] = "running" /\ dbTasks'[Save(r)] = "done"
          /\ dbTasks'[Load(r)] = dbTasks[Load(r)]
          /\ UNCHANGED <<analysisTasks, inferenceTasks>>
      BY <1>3, TaskNames, TaskSets
      DEF EndDb, db!Complete, Shapes, analysisVars, inferenceVars
    <2>3. HeldWhere(r)'
      BY <2>1, <2>2 DEF Journey, HeldWhere, InPool
    <2>4. InOrder(r)'
      BY <2>1, <2>2, TaskNames DEF Journey, InOrder, Ticketed, Loaded
    <2>5. Waits(r)' <=> Waits(r)
      BY <2>1, <2>2, TaskNames DEF Waits, InPool
    <2>6. Answered(r)'
      BY <2>1, <2>5 DEF Journey, Answered
    <2>7. QED
      BY <2>3, <2>4, <2>6 DEF Journey
  <1>4. CASE EndAnalysis(r)
    <2>1. Ends(Work(r), "work")
      BY <1>4 DEF EndAnalysis, Release, Shapes
    <2>2. /\ analysisTasks[Work(r)] = "running" /\ analysisTasks'[Work(r)] = "done"
          /\ UNCHANGED <<dbTasks, inferenceTasks>>
      BY <1>4, TaskSets DEF EndAnalysis, analysis!Complete, Shapes, dbVars, inferenceVars
    <2>3. inferenceTasks[Work(r)] = "new"
      BY <2>2 DEF Journey, InOrder, Ticketed
    <2>4. HeldWhere(r)'
      BY <2>1, <2>2, <2>3 DEF Journey, HeldWhere, InPool
    <2>5. InOrder(r)'
      BY <2>1, <2>2, <2>3, TaskNames DEF Journey, InOrder, Ticketed, Loaded
    <2>6. Waits(r)' <=> Waits(r)
      BY <2>1, <2>2, <2>3, TaskNames DEF Waits, InPool
    <2>7. Answered(r)'
      BY <2>1, <2>6 DEF Journey, Answered
    <2>8. QED
      BY <2>4, <2>5, <2>7 DEF Journey
  <1>5. CASE EndInference(r)
    <2>1. Ends(Work(r), "work")
      BY <1>5 DEF EndInference, Release, Shapes
    <2>2. /\ inferenceTasks[Work(r)] = "running" /\ inferenceTasks'[Work(r)] = "done"
          /\ UNCHANGED <<dbTasks, analysisTasks>>
      BY <1>5, TaskSets DEF EndInference, inference!Complete, Shapes, dbVars, analysisVars
    <2>3. analysisTasks[Work(r)] = "new" /\ dbTasks[Save(r)] = "new"
      BY <2>2 DEF Journey, InOrder, Ticketed
    <2>4. HeldWhere(r)'
      BY <2>1, <2>2, <2>3 DEF Journey, HeldWhere, InPool
    <2>5. InOrder(r)'
      BY <2>1, <2>2, <2>3, TaskNames DEF Journey, InOrder, Ticketed, Loaded
    <2>6. Waits(r)' <=> Waits(r)
      BY <2>1, <2>2, <2>3, TaskNames DEF Waits, InPool
    <2>7. Answered(r)'
      BY <2>1, <2>6 DEF Journey, Answered
    <2>8. QED
      BY <2>4, <2>5, <2>7 DEF Journey
  <1>6. QED
    BY <1>2, <1>3, <1>4, <1>5

\* A queued task begins, or nothing happens to the tasks.
Advances(f, g, t) == g[t] = f[t] \/ (f[t] = "queued" /\ g[t] = "running")

LEMMA BeginJourney ==
  ASSUME NEW r \in Requests, Journey(r),
         UNCHANGED <<kind, io, answer, held, ran, stored>>,
         Advances(dbTasks, dbTasks', Load(r)), Advances(dbTasks, dbTasks', Save(r)),
         Advances(analysisTasks, analysisTasks', Work(r)),
         Advances(inferenceTasks, inferenceTasks', Work(r))
  PROVE  Journey(r)'
  <1>1. HeldWhere(r)'
    BY DEF Journey, HeldWhere, InPool, Advances
  <1>2. InOrder(r)'
    BY DEF Journey, InOrder, Ticketed, Loaded, Advances
  <1>3. Waits(r)' <=> Waits(r)
    BY DEF Waits, InPool, Advances
  <1>4. Answered(r)'
    BY <1>3 DEF Journey, Answered
  <1>5. QED
    BY <1>1, <1>2, <1>4 DEF Journey

LEMMA PoolsAdvance ==
  ASSUME Shapes, Pools, NEW r \in Requests,
         \/ BeginDb \/ BeginAnalysis \/ BeginInference
         \/ MainAlone \/ CloseDb \/ JoinDb
         \/ \E p \in {"analysis", "inference"} : ClosePool(p) \/ JoinPool(p)
         \/ UNCHANGED vars
  PROVE  /\ UNCHANGED <<kind, io, answer, held, ran, stored>>
         /\ Advances(dbTasks, dbTasks', Load(r)) /\ Advances(dbTasks, dbTasks', Save(r))
         /\ Advances(analysisTasks, analysisTasks', Work(r))
         /\ Advances(inferenceTasks, inferenceTasks', Work(r))
  <1>1. UNCHANGED <<kind, io, answer, held, ran, stored>>
    BY DEF BeginDb, BeginAnalysis, BeginInference, MainAlone, StopAccepting, CloseService,
           AwaitTickets, CloseDb, JoinDb, ClosePool, JoinPool, Close, Proceed, vars, requestVars
  <1>2. CASE BeginDb
    <2>1. UNCHANGED <<analysisTasks, inferenceTasks>>
      BY <1>2 DEF BeginDb, analysisVars, inferenceVars
    <2>2. dbTasks[Head(dbQueue)] = "queued" /\ dbTasks' = [dbTasks EXCEPT ![Head(dbQueue)] = "running"]
      BY <1>2, BeginKeeps, OptionsAssumption DEF BeginDb, db!Begin, Pools
    <2>3. QED
      BY <1>1, <2>1, <2>2, TaskSets DEF Advances, Shapes
  <1>3. CASE BeginAnalysis
    <2>1. UNCHANGED <<dbTasks, inferenceTasks>>
      BY <1>3 DEF BeginAnalysis, dbVars, inferenceVars
    <2>2. /\ analysisTasks[Head(analysisQueue)] = "queued"
          /\ analysisTasks' = [analysisTasks EXCEPT ![Head(analysisQueue)] = "running"]
      BY <1>3, BeginKeeps, OptionsAssumption DEF BeginAnalysis, analysis!Begin, Pools
    <2>3. QED
      BY <1>1, <2>1, <2>2, TaskSets DEF Advances, Shapes
  <1>4. CASE BeginInference
    <2>1. UNCHANGED <<dbTasks, analysisTasks>>
      BY <1>4 DEF BeginInference, dbVars, analysisVars
    <2>2. /\ inferenceTasks[Head(inferenceQueue)] = "queued"
          /\ inferenceTasks' = [inferenceTasks EXCEPT ![Head(inferenceQueue)] = "running"]
      BY <1>4, BeginKeeps, OptionsAssumption DEF BeginInference, inference!Begin, Pools
    <2>3. QED
      BY <1>1, <2>1, <2>2, TaskSets DEF Advances, Shapes
  <1>5. ASSUME MainAlone \/ UNCHANGED vars
        PROVE  UNCHANGED <<dbTasks, analysisTasks, inferenceTasks>>
    BY <1>5, OthersKeepPools DEF dbVars, analysisVars, inferenceVars
  <1>6. ASSUME \/ CloseDb \/ JoinDb
               \/ \E p \in {"analysis", "inference"} : ClosePool(p) \/ JoinPool(p)
        PROVE  UNCHANGED <<dbTasks, analysisTasks, inferenceTasks>>
    BY <1>6 DEF CloseDb, JoinDb, ClosePool, JoinPool, db!CloseGracefully, db!Stop,
                analysis!CloseGracefully, analysis!Stop, inference!CloseGracefully, inference!Stop,
                dbVars, analysisVars, inferenceVars
  <1>7. QED
    BY <1>1, <1>2, <1>3, <1>4, <1>5, <1>6 DEF Advances

LEMMA JourneyStep ==
  ASSUME TypeOK, Pools, \A r \in Requests : Journey(r), [Next]_vars
  PROVE  \A r \in Requests : Journey(r)'
  <1>1. Shapes
    BY ShapesHold
  <1>2. ASSUME NEW r \in Requests, Touches(r), Journey(r)'
        PROVE  \A q \in Requests : Journey(q)'
    BY <1>2, TouchesOne, StillKeeps
  <1>3. ASSUME NEW r \in Requests, Handlers(r)
        PROVE  Journey(r)'
    BY <1>1, <1>3, ArrivalJourney, HandlerJourney DEF Handlers
  <1>4. ASSUME NEW r \in Requests,
               \/ Handlers(r) \/ Replies(r) \/ PostLoad(r)
               \/ LoadInfers(r) \/ LoadAnalyses(r) \/ AnalysisSaves(r)
               \/ EndAnalysis(r) \/ EndInference(r) \/ EndDb(Load(r)) \/ EndDb(Save(r))
        PROVE  \A q \in Requests : Journey(q)'
    <2>1. Touches(r)
      BY <1>1, <1>4, HandlersTouch, RepliesTouch, PostsTouch, EndsTouch
    <2>2. Journey(r)'
      BY <1>1, <1>3, <1>4, ReplyJourney, PostLoadJourney, HandOverJourney, EndJourney
    <2>3. QED
      BY <1>2, <2>1, <2>2
  <1>5. ASSUME NEW t \in DbTasks, EndDb(t)
        PROVE  \A q \in Requests : Journey(q)'
    BY <1>4, <1>5, DbTaskIsNamed
  <1>6. ASSUME \/ BeginDb \/ BeginAnalysis \/ BeginInference
               \/ MainAlone \/ CloseDb \/ JoinDb
               \/ \E p \in {"analysis", "inference"} : ClosePool(p) \/ JoinPool(p)
               \/ UNCHANGED vars
        PROVE  \A q \in Requests : Journey(q)'
    BY <1>1, <1>6, PoolsAdvance, BeginJourney
  <1>7. QED
    BY <1>4, <1>5, <1>6, NextSteps

-----------------------------------------------------------------------------
(* Tickets.                                                                *)

InRange == pending \in [Services -> 0..Capacity]

\* What a step may do to the tickets of a service.
Drained == \A s \in Services : pending[s] = 0 => pending'[s] = 0

LEMMA TicketsAreFinite ==
  \A s \in Services : IsFiniteSet(Tickets(s)) /\ Cardinality(Tickets(s)) \in Nat
  <1>1. \A s \in Services : Tickets(s) \in SUBSET Requests
    BY DEF Tickets
  <1>2. QED
    BY <1>1, OptionsAssumption, FS_Subset, FS_CardinalityType

LEMMA SameTickets ==
  ASSUME TicketsCounted, InRange, pending' = pending,
         \A q \in Requests : Ticketed(q)' /\ held'[q] # {} <=> Ticketed(q) /\ held[q] # {},
         \A q \in Requests : Ticketed(q) /\ held[q] # {} => kind'[q] = kind[q]
  PROVE  TicketsCounted' /\ InRange' /\ Drained
  <1>1. \A s \in Services : Tickets(s)' = Tickets(s)
    BY DEF Tickets
  <1>2. QED
    BY <1>1 DEF TicketsCounted, InRange, Drained

LEMMA CapacityIsNat == Capacity \in Nat
  BY OptionsAssumption DEF Capacity

LEMMA ReleaseTickets ==
  ASSUME Shapes, TicketsCounted, InRange, NEW r \in Requests, NEW place \in held[r],
         Release(r, place), UNCHANGED kind
  PROVE  TicketsCounted' /\ InRange' /\ Drained
  <1>1. held' = [held EXCEPT ![r] = @ \ {place}] /\ held[r] # {}
    BY DEF Release
  <1>2. CASE ~(Ticketed(r) /\ held[r] = {place})
    <2>1. pending' = pending
      BY <1>2 DEF Release
    <2>2. \A q \in Requests : Ticketed(q)' <=> Ticketed(q)
      BY DEF Ticketed
    <2>3. \A q \in Requests : Ticketed(q) => (held'[q] # {} <=> held[q] # {})
      BY <1>1, <1>2 DEF Shapes
    <2>4. QED
      BY <2>1, <2>2, <2>3, SameTickets
  <1>3. CASE Ticketed(r) /\ held[r] = {place}
    <2>1. PICK s \in Services : s = ServiceOf(kind[r])
      BY DEF ServiceOf, Services
    <2>2. pending' = [pending EXCEPT ![s] = @ - 1]
      BY <1>3, <2>1 DEF Release
    <2>3. held'[r] = {} /\ \A q \in Requests \ {r} : held'[q] = held[q]
      BY <1>1, <1>3 DEF Shapes
    <2>4. r \in Tickets(s) /\ Tickets(s)' = Tickets(s) \ {r}
      BY <1>1, <1>3, <2>1, <2>3 DEF Tickets, Ticketed
    <2>5. \A u \in Services \ {s} : Tickets(u)' = Tickets(u)
      BY <1>3, <2>1, <2>3 DEF Tickets, Ticketed
    <2>6. Cardinality(Tickets(s) \ {r}) = Cardinality(Tickets(s)) - 1
          /\ Cardinality(Tickets(s)) # 0
      BY <2>1, <2>4, TicketsAreFinite, FS_RemoveElement, FS_EmptySet
    <2>7. pending[s] = Cardinality(Tickets(s)) /\ pending[s] \in Nat \ {0}
      BY <2>1, <2>6, TicketsAreFinite DEF TicketsCounted
    <2>8. /\ pending'[s] = pending[s] - 1
          /\ \A u \in Services \ {s} : pending'[u] = pending[u]
      BY <2>1, <2>2 DEF InRange
    <2>9. TicketsCounted'
      BY <2>4, <2>5, <2>6, <2>7, <2>8 DEF TicketsCounted
    <2>10. pending[s] - 1 \in 0..Capacity
      BY <2>1, <2>7, CapacityIsNat DEF InRange
    <2>11. InRange'
      BY <2>1, <2>2, <2>10 DEF InRange
    <2>12. Drained
      BY <2>7, <2>8 DEF Drained
    <2>13. QED
      BY <2>9, <2>11, <2>12
  <1>4. QED
    BY <1>2, <1>3

LEMMA AdmitTickets ==
  ASSUME Shapes, TicketsCounted, InRange, NEW r \in Requests, Journey(r), Admitted(r)
  PROVE  /\ TicketsCounted' /\ InRange'
         /\ \A s \in Services : closing[s] => pending'[s] = pending[s]
  <1>1. PICK s \in Services : s = ServiceOf(kind[r])
    BY DEF ServiceOf, Services
  <1>2. /\ pending[s] < Capacity /\ ~closing[s] /\ pending' = [pending EXCEPT ![s] = @ + 1]
        /\ kind' = kind /\ held' = [held EXCEPT ![r] = @ \cup {"io"}]
    BY <1>1 DEF Admitted, MayAdmit, Room, Hold
  <1>3. held[r] = {} /\ Ticketed(r)
    BY NothingBefore DEF Admitted, Journey, HeldWhere, InOrder
  <1>4. held'[r] # {} /\ \A q \in Requests \ {r} : held'[q] = held[q]
    BY <1>2 DEF Shapes
  <1>5. r \notin Tickets(s) /\ Tickets(s)' = Tickets(s) \cup {r}
    BY <1>1, <1>2, <1>3, <1>4 DEF Tickets, Ticketed
  <1>6. \A u \in Services \ {s} : Tickets(u)' = Tickets(u)
    BY <1>1, <1>2, <1>3, <1>4 DEF Tickets, Ticketed
  <1>7. Cardinality(Tickets(s) \cup {r}) = Cardinality(Tickets(s)) + 1
    BY <1>1, <1>5, TicketsAreFinite, FS_AddElement
  <1>8. pending'[s] = pending[s] + 1 /\ \A u \in Services \ {s} : pending'[u] = pending[u]
    BY <1>1, <1>2 DEF InRange
  <1>9. TicketsCounted'
    BY <1>1, <1>5, <1>6, <1>7, <1>8 DEF TicketsCounted
  <1>10. pending[s] + 1 \in 0..Capacity
    BY <1>1, <1>2, CapacityIsNat DEF InRange
  <1>11. InRange'
    BY <1>1, <1>2, <1>10 DEF InRange
  <1>12. QED
    BY <1>2, <1>8, <1>9, <1>11

\* All other steps keep the tickets as they are.
LEMMA HoldTickets ==
  ASSUME Shapes, TicketsCounted, InRange, NEW r \in Requests, Journey(r),
         \/ \E k \in Kinds : TurnedAway(r, k) \/ Rejected(r, k) \/ Handle(r, k) \/ HandleData(r, k)
         \/ NotAdmitted(r) \/ Replies(r)
         \/ PostLoad(r) \/ LoadInfers(r) \/ LoadAnalyses(r) \/ AnalysisSaves(r)
  PROVE  TicketsCounted' /\ InRange' /\ Drained
  <1>1. ASSUME NEW k \in Kinds,
               TurnedAway(r, k) \/ Rejected(r, k) \/ Handle(r, k) \/ HandleData(r, k)
        PROVE  TicketsCounted' /\ InRange' /\ Drained
    <2>1. kind[r] = "unsent" /\ kind' = [kind EXCEPT ![r] = k] /\ pending' = pending
      BY <1>1 DEF TurnedAway, Rejected, Handle, HandleData, Arrives, serviceVars
    <2>2. held[r] = {}
      BY <2>1, NothingBefore DEF Journey, HeldWhere, InOrder
    <2>3. \A q \in Requests \ {r} : held'[q] = held[q]
      BY <1>1 DEF TurnedAway, Rejected, Handle, HandleData, Hold, Shapes
    <2>4. held'[r] = {} \/ k \in {"read", "infer"}
      BY <1>1, <2>2 DEF TurnedAway, Rejected, Handle, HandleData
    <2>5. \A q \in Requests \ {r} : kind'[q] = kind[q]
      BY <2>1 DEF Shapes
    <2>6. kind'[r] = k
      BY <2>1 DEF Shapes
    <2>7. \A q \in Requests : Ticketed(q)' /\ held'[q] # {} <=> Ticketed(q) /\ held[q] # {}
      BY <2>1, <2>2, <2>3, <2>4, <2>5, <2>6 DEF Ticketed
    <2>8. QED
      BY <2>1, <2>2, <2>5, <2>7, SameTickets
  <1>2. ASSUME NotAdmitted(r) \/ Replies(r) \/ PostLoad(r) \/ LoadInfers(r)
               \/ LoadAnalyses(r) \/ AnalysisSaves(r)
        PROVE  TicketsCounted' /\ InRange' /\ Drained
    <2>1. UNCHANGED <<kind, pending>>
      BY <1>2 DEF NotAdmitted, Replies, LoadFails, LoadAnswers, SaveAnswers, SaveFails,
                  AnalysisFails, AnalysisAnswers, InferenceAnswers, PostLoad, LoadInfers,
                  LoadAnalyses, AnalysisSaves, Body, serviceVars
    <2>2. \/ held' = held
          \/ \E place \in Places : Hold(r, place) /\ held[r] # {}
      <3>1. CASE NotAdmitted(r) \/ Replies(r)
        BY <3>1 DEF NotAdmitted, Replies, LoadFails, LoadAnswers, SaveAnswers, SaveFails,
                    AnalysisFails, AnalysisAnswers, InferenceAnswers
      <3>2. CASE PostLoad(r)
        BY <3>2 DEF PostLoad, Journey, HeldWhere, Places
      <3>3. CASE LoadInfers(r) \/ LoadAnalyses(r)
        <4>1. "load" \in held[r]
          BY <3>3 DEF LoadInfers, LoadAnalyses, Body, Journey, HeldWhere, InPool
        <4>2. QED
          BY <3>3, <4>1 DEF LoadInfers, LoadAnalyses, Places
      <3>4. CASE AnalysisSaves(r)
        <4>1. "work" \in held[r]
          BY <3>4 DEF AnalysisSaves, Body, Journey, HeldWhere, InPool
        <4>2. QED
          BY <3>4, <4>1 DEF AnalysisSaves, Places
      <3>5. QED
        BY <1>2, <3>1, <3>2, <3>3, <3>4
    <2>3. \A q \in Requests : held'[q] # {} <=> held[q] # {}
      BY <2>2 DEF Hold, Shapes
    <2>4. \A q \in Requests : Ticketed(q)' <=> Ticketed(q)
      BY <2>1 DEF Ticketed
    <2>5. QED
      BY <2>1, <2>3, <2>4, SameTickets
  <1>3. QED
    BY <1>1, <1>2

LEMMA EndTickets ==
  ASSUME Shapes, TicketsCounted, InRange, NEW r \in Requests, Journey(r),
         \/ Leave(r) \/ EndDb(Load(r)) \/ EndDb(Save(r))
         \/ EndAnalysis(r) \/ EndInference(r)
  PROVE  TicketsCounted' /\ InRange' /\ Drained
  <1>1. Load(r)[1] = r /\ Load(r)[2] = "load" /\ Save(r)[1] = r /\ Save(r)[2] = "save"
    BY DEF Load, Save
  <1>2. UNCHANGED kind
    BY DEF Leave, EndDb, EndAnalysis, EndInference
  <1>3. \E place \in held[r] : Release(r, place)
    BY <1>1 DEF Leave, EndDb, EndAnalysis, EndInference, db!Complete, analysis!Complete,
                inference!Complete, Journey, HeldWhere, InPool
  <1>4. QED
    BY <1>2, <1>3, ReleaseTickets

LEMMA MainTickets ==
  ASSUME TicketsCounted, InRange,
         \/ BeginDb \/ BeginAnalysis \/ BeginInference
         \/ MainAlone \/ CloseDb \/ JoinDb
         \/ \E p \in {"analysis", "inference"} : ClosePool(p) \/ JoinPool(p)
         \/ UNCHANGED vars
  PROVE  TicketsCounted' /\ InRange' /\ Drained
  <1>1. UNCHANGED <<kind, held, pending>>
    BY DEF BeginDb, BeginAnalysis, BeginInference, MainAlone, StopAccepting, CloseService,
           AwaitTickets, CloseDb, JoinDb, ClosePool, JoinPool, Close, Proceed, vars, requestVars,
           serviceVars
  <1>2. QED
    BY <1>1, SameTickets DEF Ticketed

LEMMA TicketsStep ==
  ASSUME TypeOK, Pools, \A r \in Requests : Journey(r), TicketsCounted, [Next]_vars
  PROVE  /\ TicketsCounted' /\ InRange'
         /\ Drained \/ \A s \in Services : closing[s] => pending'[s] = pending[s]
  <1>1. Shapes /\ InRange
    BY ShapesHold DEF TypeOK, InRange
  <1>2. ASSUME NEW t \in DbTasks, EndDb(t)
        PROVE  TicketsCounted' /\ InRange' /\ Drained
    BY <1>1, <1>2, DbTaskIsNamed, EndTickets
  <1>3. QED
    BY <1>1, <1>2, NextSteps, HoldTickets, AdmitTickets, EndTickets, MainTickets DEF Handlers

-----------------------------------------------------------------------------
(* The order in which main() stops the parts.                              *)

LEMMA PartsInOrder ==
  ASSUME stop \in Nat
  PROVE  /\ Stopping("classification") <=> stop = 1
         /\ Stopping("forecastData") <=> stop = 2
         /\ Stopping("database") <=> stop = 3
         /\ Stopping("analysis") <=> stop = 4
         /\ Stopping("inference") <=> stop = 5
         /\ Len(StopOrder) = 5
  <1>1. Len(StopOrder) = 5
    BY DEF StopOrder
  <1>2. stop \in 1..5 <=> stop = 1 \/ stop = 2 \/ stop = 3 \/ stop = 4 \/ stop = 5
    OBVIOUS
  <1>3. /\ StopOrder[1] = "classification" /\ StopOrder[2] = "forecastData"
        /\ StopOrder[3] = "database" /\ StopOrder[4] = "analysis" /\ StopOrder[5] = "inference"
    BY DEF StopOrder
  <1>4. QED
    BY <1>1, <1>2, <1>3 DEF Stopping

\* The steps of requests and workers close nothing.
LEMMA RequestsCloseNothing ==
  ASSUME \/ \E r \in Requests :
              \/ Handlers(r) \/ Replies(r) \/ PostLoad(r)
              \/ LoadInfers(r) \/ LoadAnalyses(r) \/ AnalysisSaves(r)
              \/ EndAnalysis(r) \/ EndInference(r)
         \/ \E t \in DbTasks : EndDb(t)
         \/ BeginDb \/ BeginAnalysis \/ BeginInference
         \/ UNCHANGED vars
  PROVE  UNCHANGED <<closing, accepting, connections, stop, closed, dbPhase, analysisPhase,
                     inferencePhase>>
  <1>1. UNCHANGED <<closing, accepting, connections, stop, closed>>
    BY DEF Handlers, TurnedAway, Rejected, Handle, HandleData, Arrives, NotAdmitted, Admitted, Leave,
           Replies, LoadFails, LoadAnswers, SaveAnswers, SaveFails, AnalysisFails,
           AnalysisAnswers, InferenceAnswers, PostLoad, LoadInfers, LoadAnalyses, AnalysisSaves,
           EndAnalysis, EndInference, EndDb, BeginDb, BeginAnalysis, BeginInference, Body, vars,
           serviceVars, stopVars
  <1>2. ASSUME NEW r \in Requests, Handlers(r) \/ Replies(r)
        PROVE  UNCHANGED <<dbPhase, analysisPhase, inferencePhase>>
    BY <1>2, OthersKeepPools DEF dbVars, analysisVars, inferenceVars
  <1>3. ASSUME NEW r \in Requests,
               PostLoad(r) \/ LoadInfers(r) \/ LoadAnalyses(r) \/ AnalysisSaves(r)
        PROVE  UNCHANGED <<dbPhase, analysisPhase, inferencePhase>>
    BY <1>3 DEF PostLoad, LoadInfers, LoadAnalyses, AnalysisSaves, db!Accept, db!Refuse,
                analysis!Accept, analysis!Refuse, inference!Accept, inference!Refuse,
                dbVars, analysisVars, inferenceVars
  <1>4. ASSUME \/ \E r \in Requests : EndAnalysis(r) \/ EndInference(r)
               \/ \E t \in DbTasks : EndDb(t)
        PROVE  UNCHANGED <<dbPhase, analysisPhase, inferencePhase>>
    BY <1>4 DEF EndAnalysis, EndInference, EndDb, db!Complete, analysis!Complete,
                inference!Complete, dbVars, analysisVars, inferenceVars
  <1>5. ASSUME BeginDb \/ BeginAnalysis \/ BeginInference \/ UNCHANGED vars
        PROVE  UNCHANGED <<dbPhase, analysisPhase, inferencePhase>>
    BY <1>5 DEF BeginDb, BeginAnalysis, BeginInference, db!Begin, analysis!Begin, inference!Begin,
                dbVars, analysisVars, inferenceVars, vars
  <1>6. QED
    BY <1>1, <1>2, <1>3, <1>4, <1>5

StopTypes ==
  /\ closing \in [Services -> BOOLEAN]
  /\ accepting \in BOOLEAN
  /\ connections \in {"open", "closed"}
  /\ stop \in 0..6
  /\ closed \in BOOLEAN
  /\ {dbPhase, analysisPhase, inferencePhase} \subseteq {"Running", "Draining", "Stopped"}

LEMMA ServicesClose ==
  ASSUME StopTypes, StopsInOrder, InRange, MainAlone
  PROVE  StopTypes' /\ StopsInOrder'
  <1>1. UNCHANGED <<dbPhase, analysisPhase, inferencePhase>>
    BY OthersKeepPools DEF dbVars, analysisVars, inferenceVars
  <1>2. UNCHANGED <<pending, connections>>
    BY DEF MainAlone, StopAccepting, CloseService, AwaitTickets, Close, Proceed, serviceVars
  <1>3. stop \in Nat
    BY DEF StopTypes
  <1> DEFINE Gates ==
        /\ accepting <=> stop = 0
        /\ closing["classification"] <=> Past(1)
        /\ closing["forecastData"] <=> Past(2)
  <1>4. Gates
    BY DEF StopsInOrder
  <1>5. CASE StopAccepting
    <2>1. stop = 0 /\ stop' = 1 /\ closed = FALSE /\ closed' = FALSE
      BY <1>5 DEF StopAccepting, StopsInOrder, StopTypes
    <2>2. accepting' = FALSE /\ closing' = closing
      BY <1>5 DEF StopAccepting
    <2>3. \A n \in 1..5 : Past(n)' <=> Past(n)
      BY <2>1 DEF Past
    <2>4. stop' # 0 /\ 1 \in 1..5 /\ 2 \in 1..5
      BY <2>1
    <2>5. Gates'
      BY <1>4, <2>2, <2>3, <2>4, Zenon
    <2>6. StopTypes'
      <3>1. accepting' \in BOOLEAN /\ closed' \in BOOLEAN /\ closing' \in [Services -> BOOLEAN]
        BY <2>1, <2>2, Zenon DEF StopTypes
      <3>2. stop' \in 0..6
        BY <2>1
      <3>3. QED
        BY <1>1, <1>2, <3>1, <3>2 DEF StopTypes
    <2>7. QED
      BY <1>1, <1>2, <2>1, <2>3, <2>5, <2>6 DEF StopTypes, StopsInOrder
  <1>6. ASSUME NEW s \in Services, CloseService(s)
        PROVE  StopTypes' /\ StopsInOrder'
    <2>1. \/ s = "classification" /\ stop = 1
          \/ s = "forecastData" /\ stop = 2
      BY <1>3, <1>6, PartsInOrder DEF CloseService, Close, Services
    <2>2. closed = FALSE /\ closed' = TRUE /\ UNCHANGED <<stop, accepting>>
      BY <1>6 DEF CloseService, Close, StopTypes
    <2>3. closing' = [closing EXCEPT ![s] = TRUE]
      BY <1>6 DEF CloseService
    <2>4. \A n \in 1..5 : Past(n)' <=> Past(n) \/ n = stop
      BY <1>3, <2>2 DEF Past
    <2>5. 1 \in 1..5 /\ 2 \in 1..5 /\ 1 # 2
      OBVIOUS
    <2>6. /\ closing'[s] = TRUE
          /\ \A u \in Services \ {s} : closing'[u] = closing[u]
          /\ closing' \in [Services -> BOOLEAN]
      BY <2>3 DEF StopTypes
    <2>7. CASE s = "classification"
      <3>1. stop = 1
        BY <2>1, <2>7
      <3>2. closing'["classification"] = TRUE /\ closing'["forecastData"] = closing["forecastData"]
        BY <2>6, <2>7 DEF Services
      <3>3. Past(1)' /\ (Past(2)' <=> Past(2))
        BY <2>4, <2>5, <3>1
      <3>4. Gates'
        BY <1>4, <2>2, <3>2, <3>3, Zenon
      <3>5. StopTypes'
        BY <1>1, <1>2, <2>2, <2>6 DEF StopTypes
      <3>6. \A n \in 3..5 : Past(n)' <=> Past(n)
        BY <2>4, <3>1
      <3>7. QED
        BY <1>1, <1>2, <2>2, <3>1, <3>4, <3>5, <3>6 DEF StopTypes, StopsInOrder
    <2>8. CASE s = "forecastData"
      <3>1. stop = 2
        BY <2>1, <2>8
      <3>2. closing'["forecastData"] = TRUE /\ closing'["classification"] = closing["classification"]
        BY <2>6, <2>8 DEF Services
      <3>3. Past(2)' /\ (Past(1)' <=> Past(1))
        BY <2>4, <2>5, <3>1
      <3>4. Gates'
        BY <1>4, <2>2, <3>2, <3>3, Zenon
      <3>5. StopTypes'
        BY <1>1, <1>2, <2>2, <2>6 DEF StopTypes
      <3>6. \A n \in 3..5 : Past(n)' <=> Past(n)
        BY <2>4, <3>1
      <3>7. QED
        BY <1>1, <1>2, <2>2, <3>1, <3>4, <3>5, <3>6 DEF StopTypes, StopsInOrder
    <2>9. QED
      BY <2>7, <2>8 DEF Services
  <1>7. ASSUME NEW s \in Services, AwaitTickets(s)
        PROVE  StopTypes' /\ StopsInOrder'
    <2>1. \/ s = "classification" /\ stop = 1
          \/ s = "forecastData" /\ stop = 2
      BY <1>3, <1>7, PartsInOrder DEF AwaitTickets, Proceed, Services
    <2>2. closed /\ closed' = FALSE /\ pending[s] = 0 /\ stop' = stop + 1
      BY <1>7 DEF AwaitTickets, Proceed
    <2>3. UNCHANGED <<closing, accepting>>
      BY <1>7 DEF AwaitTickets, Proceed, serviceVars
    <2>4. \A n \in 1..5 : Past(n)' <=> Past(n)
      BY <1>3, <2>2 DEF Past
    <2>5. stop # 0 /\ stop' # 0 /\ 1 \in 1..5 /\ 2 \in 1..5
      BY <2>1, <2>2
    <2>6. Gates'
      BY <1>4, <2>3, <2>4, <2>5, Zenon
    <2>7. StopTypes'
      <3>1. accepting' \in BOOLEAN /\ closed' \in BOOLEAN /\ closing' \in [Services -> BOOLEAN]
        BY <2>2, <2>3, Zenon DEF StopTypes
      <3>2. stop' \in 0..6
        BY <2>1, <2>2
      <3>3. QED
        BY <1>1, <1>2, <3>1, <3>2 DEF StopTypes
    <2>8. ~closed' /\ stop' > 0 /\ (stop' > 1 => pending'["classification"] = 0)
          /\ (stop' > 2 => pending'["forecastData"] = 0)
      BY <1>2, <2>1, <2>2 DEF StopsInOrder
    <2>9. /\ Past(3)' <=> Past(3)
          /\ Past(4)' <=> Past(4)
          /\ Past(5)' <=> Past(5)
      BY <2>4
    <2>10. ~(stop > 3) /\ ~(stop' > 3)
      BY <2>1, <2>2
    <2>11. QED
      BY <1>1, <1>2, <2>6, <2>7, <2>8, <2>9, <2>10 DEF StopsInOrder
  <1>8. QED
    BY <1>5, <1>6, <1>7 DEF MainAlone

LEMMA PoolsClose ==
  ASSUME StopTypes, StopsInOrder, InRange,
         \/ CloseDb \/ JoinDb
         \/ \E p \in {"analysis", "inference"} : ClosePool(p) \/ JoinPool(p)
  PROVE  StopTypes' /\ StopsInOrder'
  <1>1. UNCHANGED <<pending, closing, accepting>>
    BY DEF CloseDb, JoinDb, ClosePool, JoinPool, Close, Proceed, serviceVars
  <1>2. stop \in Nat
    BY DEF StopTypes
  <1>3. CASE CloseDb
    <2>1. /\ stop = 3 /\ closed = FALSE /\ closed' = TRUE /\ dbPhase' = "Draining"
          /\ UNCHANGED <<stop, connections, analysisPhase, inferencePhase>>
      BY <1>2, <1>3, PartsInOrder
      DEF CloseDb, Close, db!CloseGracefully, analysisVars, inferenceVars, StopTypes
    <2>2. QED
      BY <1>1, <2>1 DEF StopTypes, StopsInOrder, Past
  <1>4. CASE JoinDb
    <2>1. /\ stop = 3 /\ closed /\ closed' = FALSE /\ dbPhase' = "Stopped"
          /\ stop' = stop + 1 /\ connections' = "closed"
          /\ UNCHANGED <<analysisPhase, inferencePhase>>
      BY <1>2, <1>4, PartsInOrder DEF JoinDb, Proceed, db!Stop, analysisVars, inferenceVars
    <2>2. closed' \in BOOLEAN /\ ~closed'
      BY <2>1, Zenon
    <2>3. /\ Past(1)' <=> Past(1)
          /\ Past(2)' <=> Past(2)
          /\ Past(3)' <=> Past(3)
          /\ Past(4)' <=> Past(4)
          /\ Past(5)' <=> Past(5)
      BY <1>2, <2>1 DEF Past
    <2>4. stop' \in 0..6 /\ stop' # 0 /\ stop # 0
      BY <2>1
    <2>5. StopTypes'
      BY <1>1, <2>1, <2>2, <2>4 DEF StopTypes
    <2>6. (accepting' <=> stop' = 0) /\ (closing'["classification"] <=> Past(1)')
          /\ (closing'["forecastData"] <=> Past(2)')
      BY <1>1, <2>3, <2>4, Zenon DEF StopsInOrder
    <2>7. /\ stop' > 1 => pending'["classification"] = 0
          /\ stop' > 2 => pending'["forecastData"] = 0
      BY <1>1, <2>1 DEF StopsInOrder
    <2>8. /\ dbPhase' = "Stopped" <=> stop' > 3
          /\ connections' = "closed" <=> stop' > 3
      BY <2>1 DEF StopsInOrder
    <2>9. /\ dbPhase' = "Running" <=> ~Past(3)'
          /\ analysisPhase' = "Running" <=> ~Past(4)'
          /\ inferencePhase' = "Running" <=> ~Past(5)'
      BY <2>1, <2>3 DEF StopsInOrder, Past
    <2>10. QED
      BY <2>2, <2>5, <2>6, <2>7, <2>8, <2>9 DEF StopsInOrder
  <1>5. ASSUME NEW p \in {"analysis", "inference"}, ClosePool(p)
        PROVE  StopTypes' /\ StopsInOrder'
    <2>1. /\ \/ stop = 4 /\ analysisPhase' = "Draining" /\ inferencePhase' = inferencePhase
             \/ stop = 5 /\ inferencePhase' = "Draining" /\ analysisPhase' = analysisPhase
          /\ closed = FALSE /\ closed' = TRUE /\ UNCHANGED <<stop, connections, dbPhase>>
      BY <1>2, <1>5, PartsInOrder
      DEF ClosePool, Close, analysis!CloseGracefully, inference!CloseGracefully, dbVars,
          analysisVars, inferenceVars, StopTypes
    <2>2. QED
      BY <1>1, <2>1 DEF StopTypes, StopsInOrder, Past
  <1>6. ASSUME NEW p \in {"analysis", "inference"}, JoinPool(p)
        PROVE  StopTypes' /\ StopsInOrder'
    <2>1. /\ \/ stop = 4 /\ analysisPhase' = "Stopped" /\ inferencePhase' = inferencePhase
             \/ stop = 5 /\ inferencePhase' = "Stopped" /\ analysisPhase' = analysisPhase
          /\ closed /\ closed' = FALSE /\ stop' = stop + 1
          /\ UNCHANGED <<connections, dbPhase>>
      BY <1>2, <1>6, PartsInOrder
      DEF JoinPool, Proceed, analysis!Stop, inference!Stop, dbVars, analysisVars, inferenceVars
    <2>2. closed' \in BOOLEAN /\ ~closed'
      BY <2>1, Zenon
    <2>3. /\ Past(1)' <=> Past(1)
          /\ Past(2)' <=> Past(2)
          /\ Past(3)' <=> Past(3)
          /\ Past(4)' <=> Past(4)
          /\ Past(5)' <=> Past(5)
      BY <1>2, <2>1 DEF Past
    <2>4. stop' \in 0..6 /\ stop' # 0 /\ stop # 0
      BY <2>1
    <2>5. StopTypes'
      BY <1>1, <2>1, <2>2, <2>4 DEF StopTypes
    <2>6. (accepting' <=> stop' = 0) /\ (closing'["classification"] <=> Past(1)')
          /\ (closing'["forecastData"] <=> Past(2)')
      BY <1>1, <2>3, <2>4, Zenon DEF StopsInOrder
    <2>7. /\ stop' > 1 => pending'["classification"] = 0
          /\ stop' > 2 => pending'["forecastData"] = 0
      BY <1>1, <2>1 DEF StopsInOrder
    <2>8. /\ dbPhase' = "Stopped" <=> stop' > 3
          /\ connections' = "closed" <=> stop' > 3
      BY <2>1 DEF StopsInOrder
    <2>9. /\ dbPhase' = "Running" <=> ~Past(3)'
          /\ analysisPhase' = "Running" <=> ~Past(4)'
          /\ inferencePhase' = "Running" <=> ~Past(5)'
      BY <2>1, <2>3 DEF StopsInOrder, Past
    <2>10. QED
      BY <2>2, <2>5, <2>6, <2>7, <2>8, <2>9 DEF StopsInOrder
  <1>7. QED
    BY <1>3, <1>4, <1>5, <1>6

LEMMA StopStep ==
  ASSUME StopTypes, StopsInOrder, InRange, [Next]_vars,
         Drained \/ \A s \in Services : closing[s] => pending'[s] = pending[s]
  PROVE  StopTypes' /\ StopsInOrder'
  <1>1. ASSUME UNCHANGED <<closing, accepting, connections, stop, closed, dbPhase, analysisPhase,
                           inferencePhase>>
        PROVE  StopTypes' /\ StopsInOrder'
    <2>1. /\ stop > 1 => closing["classification"]
          /\ stop > 2 => closing["forecastData"]
      BY DEF StopsInOrder, Past
    <2>2. /\ stop > 1 => pending'["classification"] = 0
          /\ stop > 2 => pending'["forecastData"] = 0
      BY <2>1 DEF StopsInOrder, Drained, Services
    <2>3. QED
      BY <1>1, <2>2 DEF StopTypes, StopsInOrder, Past
  <1>2. QED
    BY <1>1, NextSteps, RequestsCloseNothing, ServicesClose, PoolsClose

-----------------------------------------------------------------------------
(* The invariant.                                                          *)

RequestTypes ==
  /\ Shapes
  /\ ran \subseteq DbTasks \cup WorkTasks
  /\ stored \subseteq Requests

LEMMA TypeParts ==
  ASSUME Pools
  PROVE  TypeOK <=> RequestTypes /\ InRange /\ StopTypes
  <1>1. Len(StopOrder) + 1 = 6
    BY DEF StopOrder
  <1>2. QED
    BY <1>1 DEF TypeOK, RequestTypes, Shapes, InRange, StopTypes, Pools, PoolOK, Fifo

LEMMA RequestTypesStep ==
  ASSUME RequestTypes, Pools, Pools', [Next]_vars
  PROVE  RequestTypes'
  <1>1. /\ dbTasks' \in [DbTasks -> Outcomes] /\ analysisTasks' \in [WorkTasks -> Outcomes]
        /\ inferenceTasks' \in [WorkTasks -> Outcomes]
    BY DEF Pools, PoolOK, Fifo
  <1> DEFINE Typed ==
        /\ kind' \in [Requests -> Kinds \cup {"unsent"}]
        /\ io' \in [Requests -> {"out", "admit", "post", "leave"}]
        /\ answer' \in [Requests -> Answers \cup {"none", "twice"}]
        /\ held' \in [Requests -> SUBSET Places]
        /\ ran' \subseteq DbTasks \cup WorkTasks
        /\ stored' \subseteq Requests
  <1>2. ASSUME NEW r \in Requests, NEW a \in Answers, Answer(r, a)
        PROVE  answer' \in [Requests -> Answers \cup {"none", "twice"}]
    BY <1>2 DEF Answer, RequestTypes, Shapes
  <1>3. ASSUME NEW r \in Requests, NEW p \in Places, Hold(r, p) \/ Release(r, p)
        PROVE  held' \in [Requests -> SUBSET Places]
    BY <1>3 DEF Hold, Release, RequestTypes, Shapes
  <1>4. {"io", "load", "work", "save"} = Places
        /\ {"ok", "rejected", "stopping", "busy", "failed"} = Answers
    BY DEF Places, Answers
  <1>5. ASSUME NEW r \in Requests, Handlers(r)
        PROVE  Typed
    BY <1>2, <1>3, <1>4, <1>5
    DEF Handlers, TurnedAway, Rejected, Handle, HandleData, Arrives, NotAdmitted, Admitted, Leave,
        RequestTypes, Shapes
  <1>6. ASSUME NEW r \in Requests, Replies(r)
        PROVE  Typed
    BY <1>2, <1>4, <1>6, TaskSets
    DEF Replies, LoadFails, LoadAnswers, SaveAnswers, SaveFails, AnalysisFails, AnalysisAnswers,
        InferenceAnswers, Body, RequestTypes, Shapes
  <1>7. ASSUME NEW r \in Requests,
               PostLoad(r) \/ LoadInfers(r) \/ LoadAnalyses(r) \/ AnalysisSaves(r)
        PROVE  Typed
    BY <1>2, <1>3, <1>4, <1>7, TaskSets
    DEF PostLoad, LoadInfers, LoadAnalyses, AnalysisSaves, Body, RequestTypes, Shapes
  <1>8. ASSUME NEW r \in Requests,
               EndAnalysis(r) \/ EndInference(r) \/ EndDb(Load(r)) \/ EndDb(Save(r))
        PROVE  Typed
    <2>1. Load(r)[1] = r /\ Load(r)[2] = "load" /\ Save(r)[1] = r /\ Save(r)[2] = "save"
      BY DEF Load, Save
    <2>2. QED
      BY <1>3, <1>4, <1>8, <2>1 DEF EndAnalysis, EndInference, EndDb, RequestTypes, Shapes
  <1>9. ASSUME NEW t \in DbTasks, EndDb(t)
        PROVE  Typed
    BY <1>8, <1>9, DbTaskIsNamed
  <1>10. ASSUME \/ BeginDb \/ BeginAnalysis \/ BeginInference
                \/ MainAlone \/ CloseDb \/ JoinDb
                \/ \E p \in {"analysis", "inference"} : ClosePool(p) \/ JoinPool(p)
                \/ UNCHANGED vars
         PROVE  Typed
    <2>1. UNCHANGED <<kind, io, answer, held, ran, stored>>
      BY <1>10 DEF BeginDb, BeginAnalysis, BeginInference, MainAlone, StopAccepting, CloseService,
                   AwaitTickets, CloseDb, JoinDb, ClosePool, JoinPool, Close, Proceed, vars,
                   requestVars
    <2>2. QED
      BY <2>1 DEF RequestTypes, Shapes
  <1> HIDE DEF Typed
  <1>11. Typed
    BY <1>5, <1>6, <1>7, <1>8, <1>9, <1>10, NextSteps
  <1>12. QED
    BY <1>1, <1>11 DEF Typed, RequestTypes, Shapes

LEMMA InitPipeline == Init => PipelineInv
  <1> SUFFICES ASSUME Init PROVE PipelineInv
    OBVIOUS
  <1>1. /\ PoolOK(DbTasks, DbQueue, dbPhase, dbQueue, dbTasks)
        /\ PoolOK(WorkTasks, AnalysisQueue, analysisPhase, analysisQueue, analysisTasks)
        /\ PoolOK(WorkTasks, InferenceQueue, inferencePhase, inferenceQueue, inferenceTasks)
    BY OptionsAssumption DEF Init, PoolOK, Fifo, Outcomes
  <1>2. Pools
    BY <1>1 DEF Pools
  <1>3. \A r \in Requests : Journey(r)
    BY TaskSets DEF Init, Journey, HeldWhere, InOrder, Answered, InPool
  <1>4. \A s \in Services : Tickets(s) = {}
    BY DEF Init, Tickets
  <1>5. TicketsCounted
    BY <1>4, FS_EmptySet DEF Init, TicketsCounted
  <1>6. StopTypes /\ StopsInOrder
    <2>1. stop = 0 /\ ~closed /\ \A n \in 1..5 : ~Past(n)
      BY DEF Init, Past
    <2>2. 1 \in 1..5 /\ 2 \in 1..5
      OBVIOUS
    <2>3. (accepting <=> stop = 0) /\ (closing["classification"] <=> Past(1))
          /\ (closing["forecastData"] <=> Past(2))
      BY <2>1, <2>2, Zenon DEF Init, Services
    <2>4. accepting \in BOOLEAN /\ closed \in BOOLEAN /\ closing \in [Services -> BOOLEAN]
      BY Zenon DEF Init
    <2>5. StopTypes
      BY <2>4 DEF Init, StopTypes
    <2>6. closed => stop \in 1..5
      BY <2>1
    <2>7. QED
      BY <2>1, <2>3, <2>5, <2>6 DEF Init, StopsInOrder
  <1>7. RequestTypes
    BY <1>2 DEF Init, RequestTypes, Shapes, Pools, PoolOK, Fifo
  <1>8. InRange
    BY CapacityIsNat DEF Init, InRange
  <1>9. QED
    BY <1>2, <1>3, <1>5, <1>6, <1>7, <1>8, TypeParts DEF PipelineInv

LEMMA PipelineStep == PipelineInv /\ [Next]_vars => PipelineInv'
  <1> SUFFICES ASSUME PipelineInv, [Next]_vars PROVE PipelineInv'
    OBVIOUS
  <1>1. /\ TypeOK /\ Pools /\ TicketsCounted /\ StopsInOrder
        /\ \A r \in Requests : Journey(r)
        /\ RequestTypes /\ InRange /\ StopTypes
    BY TypeParts DEF PipelineInv
  <1>2. Pools'
    BY <1>1, PoolsStep
  <1>3. \A r \in Requests : Journey(r)'
    BY <1>1, JourneyStep
  <1>4. /\ TicketsCounted' /\ InRange'
        /\ Drained \/ \A s \in Services : closing[s] => pending'[s] = pending[s]
    BY <1>1, TicketsStep
  <1>5. StopTypes' /\ StopsInOrder'
    BY <1>1, <1>4, StopStep
  <1>6. RequestTypes'
    BY <1>1, <1>2, RequestTypesStep
  <1>7. TypeOK'
    <2>1. Len(StopOrder) + 1 = 6
      BY DEF StopOrder
    <2>2. QED
      BY <1>2, <1>4, <1>5, <1>6, <2>1
      DEF TypeOK, RequestTypes, Shapes, InRange, StopTypes, Pools, PoolOK, Fifo
  <1>8. QED
    BY <1>2, <1>3, <1>4, <1>5, <1>7 DEF PipelineInv

LEMMA PipelineIsInvariant == Spec => []PipelineInv
  BY InitPipeline, PipelineStep, PTL DEF Spec

-----------------------------------------------------------------------------
(* Theorems.                                                               *)

\* For a request of a data service, to be under way is to hold a ticket.
LEMMA UnderwayHolds ==
  ASSUME Shapes, NEW r \in Requests, Journey(r), Ticketed(r)
  PROVE  Underway(r) <=> held[r] # {}
  <1>1. inferenceTasks[Work(r)] = "new"
    BY DEF Journey, InOrder, Ticketed
  <1>2. held[r] \subseteq {"io", "load", "work", "save"}
    BY DEF Shapes, Places
  <1>3. QED
    BY <1>1, <1>2 DEF Journey, HeldWhere, Underway, InPool

LEMMA UnderwayCounts ==
  ASSUME Shapes, \A r \in Requests : Journey(r), TicketsCounted, InRange, NEW r \in Requests,
         Ticketed(r), held[r] # {}
  PROVE  pending[ServiceOf(kind[r])] # 0
  <1>1. ServiceOf(kind[r]) \in Services /\ r \in Tickets(ServiceOf(kind[r]))
    BY DEF ServiceOf, Services, Tickets
  <1>2. QED
    BY <1>1, TicketsAreFinite, FS_EmptySet DEF TicketsCounted

\* For any number of requests, threads and places: no service admits more than
\* its capacity, its tickets are its requests under way, and past its shutdown
\* nothing of it is left in any thread or pool.
THEOREM ServicesKeepAccount == Spec => []ServicesAccount
  <1>1. PipelineInv => ServicesAccount
    <2> SUFFICES ASSUME PipelineInv PROVE ServicesAccount
      OBVIOUS
    <2>1. TypeOK /\ Shapes /\ TicketsCounted /\ InRange /\ StopsInOrder
          /\ \A r \in Requests : Journey(r)
      BY ShapesHold DEF PipelineInv, TypeOK, InRange
    <2>2. \A s \in Services :
            {r \in Requests : Ticketed(r) /\ ServiceOf(kind[r]) = s /\ Underway(r)} = Tickets(s)
      BY <2>1, UnderwayHolds DEF Tickets
    <2>3. TicketsMatchWork
      BY <2>1, <2>2 DEF TicketsMatchWork, TicketsCounted
    <2>4. ASSUME NEW n \in 1..Len(StopOrder), StopOrder[n] \in Services, n < stop
          PROVE  pending[StopOrder[n]] = 0
      <3>1. n \in 1..5
        BY DEF StopOrder
      <3>2. \/ n = 1 /\ StopOrder[n] = "classification"
            \/ n = 2 /\ StopOrder[n] = "forecastData"
        BY <2>4, <3>1 DEF StopOrder, Services
      <3>3. stop \in Nat
        BY <2>1 DEF TypeOK
      <3>4. QED
        BY <2>1, <2>4, <3>2, <3>3 DEF StopsInOrder
    <2>5. ShutDownServicesAreQuiet
      BY <2>1, <2>4, UnderwayHolds, UnderwayCounts DEF ShutDownServicesAreQuiet
    <2>6. QED
      BY <2>1, <2>3, <2>5 DEF ServicesAccount
  <1>2. QED
    BY <1>1, PipelineIsInvariant, PTL

\* No completion is called twice, no matter which of the threads that hold it
\* finds a reason to.  A save reported done is stored, and one that was turned
\* away before or after its analysis is not and never will be.
THEOREM AnswersHold == Spec => []AnswersAreTrue
  <1>1. PipelineInv => AnswersAreTrue
    BY DEF PipelineInv, Journey, Answered, AnswersAreTrue
  <1>2. QED
    BY <1>1, PipelineIsInvariant, PTL

\* A request without an answer is with somebody who will give it one, at every
\* hand-over and also while main() stops the parts.
THEOREM NobodyIsForgotten == Spec => []NoneForgotten
  <1>1. PipelineInv => NoneForgotten
    BY DEF PipelineInv, Journey, Answered, Waits, NoneForgotten
  <1>2. QED
    BY <1>1, PipelineIsInvariant, PTL

LEMMA ServedStep ==
  ASSUME PipelineInv, [Next]_vars, NEW r \in Requests
  PROVE  /\ dbTasks'[Save(r)] = "refused" /\ dbTasks[Save(r)] = "new"
              => dbPhase = "Running"
         /\ analysisTasks'[Work(r)] = "refused" /\ analysisTasks[Work(r)] = "new"
              => analysisPhase = "Running"
         /\ inferenceTasks'[Work(r)] = "refused" /\ inferenceTasks[Work(r)] = "new"
              => inferencePhase = "Running"
         /\ {Load(r), Save(r)} \cap (ran' \ ran) # {} => connections = "open"
  <1>1. /\ Shapes /\ Pools /\ TicketsCounted /\ InRange /\ StopsInOrder /\ stop \in Nat
        /\ connections \in {"open", "closed"} /\ \A q \in Requests : Journey(q)
    BY ShapesHold DEF PipelineInv, TypeOK, InRange
  \* While a data request is under way, its service has not been shut down, and
  \* so none of the parts that come later has been.
  <1>2. ASSUME NEW q \in Requests, Ticketed(q), held[q] # {}
        PROVE  stop <= 2
    <2>1. pending[ServiceOf(kind[q])] # 0 /\ ServiceOf(kind[q]) \in Services
      BY <1>1, <1>2, UnderwayCounts DEF ServiceOf, Services
    <2>2. QED
      BY <1>1, <2>1 DEF StopsInOrder, Services
  \* A database worker that runs has its connections.
  <1>3. ASSUME NEW t \in DbTasks, dbTasks[t] = "running"
        PROVE  stop <= 3 /\ connections = "open"
    <2>1. dbPhase # "Stopped"
      BY <1>1, <1>3 DEF Pools, PoolOK, InPool
    <2>2. QED
      BY <1>1, <2>1 DEF StopsInOrder
  <1>4. ASSUME NEW q \in Requests, Touches(q), q # r
        PROVE  Still(r)
    BY <1>4, TouchesOne
  <1>5. CASE Still(r)
    BY <1>5 DEF Still
  <1>6. CASE \/ Handlers(r) \/ EndDb(Load(r)) \/ EndDb(Save(r)) \/ EndAnalysis(r)
             \/ EndInference(r)
    <2>1. ran' \subseteq ran
      BY <1>6 DEF Handlers, TurnedAway, Rejected, Handle, HandleData, Arrives, NotAdmitted,
                  Admitted, Leave, EndDb, EndAnalysis, EndInference
    <2>2. CASE Handlers(r)
      BY <2>1, <2>2, OthersKeepPools DEF dbVars, analysisVars, inferenceVars
    <2>3. CASE EndDb(Load(r)) \/ EndDb(Save(r)) \/ EndAnalysis(r) \/ EndInference(r)
      BY <1>1, <2>1, <2>3, TaskSets
      DEF EndDb, EndAnalysis, EndInference, db!Complete, analysis!Complete, inference!Complete,
          Shapes, dbVars, analysisVars, inferenceVars
    <2>4. QED
      BY <1>6, <2>2, <2>3
  <1>7. CASE Replies(r)
    <2>1. UNCHANGED <<dbTasks, analysisTasks, inferenceTasks>>
      BY <1>7, OthersKeepPools DEF dbVars, analysisVars, inferenceVars
    <2>2. \/ ran' \subseteq ran \cup {Work(r)}
          \/ \E t \in {Load(r), Save(r)} : dbTasks[t] = "running"
      BY <1>7 DEF Replies, LoadFails, LoadAnswers, SaveAnswers, SaveFails, AnalysisFails,
                  AnalysisAnswers, InferenceAnswers, Body
    <2>3. QED
      BY <1>3, <2>1, <2>2, TaskNames, TaskSets
  <1>8. CASE PostLoad(r)
    <2>1. /\ dbTasks'[Save(r)] = dbTasks[Save(r)]
          /\ UNCHANGED <<ran, analysisTasks, inferenceTasks>>
      BY <1>1, <1>8, TaskNames, TaskSets
      DEF PostLoad, db!Accept, db!Refuse, Shapes, analysisVars, inferenceVars
    <2>2. QED
      BY <2>1
  <1>9. CASE LoadInfers(r)
    <2>1. dbTasks[Load(r)] = "running" /\ UNCHANGED <<dbTasks, analysisTasks>>
      BY <1>9 DEF LoadInfers, Body, dbVars, analysisVars
    <2>2. connections = "open" /\ inferencePhase = "Running"
      BY <1>1, <1>3, <2>1, TaskSets DEF StopsInOrder, Past
    <2>3. QED
      BY <2>1, <2>2
  <1>10. CASE LoadAnalyses(r)
    <2>1. dbTasks[Load(r)] = "running" /\ UNCHANGED <<dbTasks, inferenceTasks>>
      BY <1>10 DEF LoadAnalyses, Body, dbVars, inferenceVars
    <2>2. connections = "open" /\ analysisPhase = "Running"
      BY <1>1, <1>3, <2>1, TaskSets DEF StopsInOrder, Past
    <2>3. QED
      BY <2>1, <2>2
  <1>11. CASE AnalysisSaves(r)
    <2>1. /\ analysisTasks[Work(r)] = "running" /\ kind[r] = "save"
          /\ ran' = ran \cup {Work(r)} /\ UNCHANGED <<analysisTasks, inferenceTasks>>
      BY <1>11 DEF AnalysisSaves, Body, analysisVars, inferenceVars
    <2>2. Ticketed(r) /\ held[r] # {}
      BY <1>1, <2>1 DEF Ticketed, Journey, HeldWhere, InPool
    <2>3. dbPhase = "Running"
      BY <1>1, <1>2, <2>2 DEF StopsInOrder, Past
    <2>4. QED
      BY <2>1, <2>3, TaskNames
  <1>12. ASSUME \/ BeginDb \/ BeginAnalysis \/ BeginInference
                \/ MainAlone \/ CloseDb \/ JoinDb
                \/ \E p \in {"analysis", "inference"} : ClosePool(p) \/ JoinPool(p)
                \/ UNCHANGED vars
         PROVE  /\ UNCHANGED ran
                /\ Advances(dbTasks, dbTasks', Save(r))
                /\ Advances(analysisTasks, analysisTasks', Work(r))
                /\ Advances(inferenceTasks, inferenceTasks', Work(r))
    BY <1>1, <1>12, PoolsAdvance
  <1>13. ASSUME UNCHANGED ran, Advances(dbTasks, dbTasks', Save(r)),
                Advances(analysisTasks, analysisTasks', Work(r)),
                Advances(inferenceTasks, inferenceTasks', Work(r))
         PROVE  /\ dbTasks'[Save(r)] # "refused" \/ dbTasks[Save(r)] # "new"
                /\ analysisTasks'[Work(r)] # "refused" \/ analysisTasks[Work(r)] # "new"
                /\ inferenceTasks'[Work(r)] # "refused" \/ inferenceTasks[Work(r)] # "new"
                /\ ran' \ ran = {}
    BY <1>13 DEF Advances
  <1>14. ASSUME NEW q \in Requests, q # r,
                \/ Handlers(q) \/ Replies(q) \/ PostLoad(q)
                \/ LoadInfers(q) \/ LoadAnalyses(q) \/ AnalysisSaves(q)
                \/ EndAnalysis(q) \/ EndInference(q) \/ EndDb(Load(q)) \/ EndDb(Save(q))
         PROVE  Still(r)
    BY <1>1, <1>4, <1>14, HandlersTouch, RepliesTouch, PostsTouch, EndsTouch
  <1>15. ASSUME NEW t \in DbTasks, EndDb(t)
         PROVE  \E q \in Requests : EndDb(Load(q)) \/ EndDb(Save(q))
    BY <1>15, DbTaskIsNamed
  <1>16. QED
    BY <1>5, <1>6, <1>7, <1>8, <1>9, <1>10, <1>11, <1>12, <1>13, <1>14, <1>15, NextSteps

\* No task posted by a worker is turned away because its pool is closing, and
\* no database task runs without its connections: main()'s order is right for
\* any number of requests wherever they are when it stops.
THEOREM WorkIsServed == Spec => AcceptedWorkIsServed
  <1>1. PipelineInv /\ [Next]_vars =>
          [\A r \in Requests :
             /\ dbTasks'[Save(r)] = "refused" /\ dbTasks[Save(r)] = "new"
                  => dbPhase = "Running"
             /\ analysisTasks'[Work(r)] = "refused" /\ analysisTasks[Work(r)] = "new"
                  => analysisPhase = "Running"
             /\ inferenceTasks'[Work(r)] = "refused" /\ inferenceTasks[Work(r)] = "new"
                  => inferencePhase = "Running"
             /\ {Load(r), Save(r)} \cap (ran' \ ran) # {} => connections = "open"]_vars
    BY ServedStep
  <1>2. QED
    BY <1>1, PipelineIsInvariant, PTL DEF Spec, AcceptedWorkIsServed

=============================================================================
