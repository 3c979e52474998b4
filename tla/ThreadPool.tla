----------------------------- MODULE ThreadPool -----------------------------
(***************************************************************************)
(* The server's ThreadPool (server/src/concurrency/thread_pool.cpp): core  *)
(* and elastic worker threads, a bounded FIFO queue, submitters that may   *)
(* block for queue space, one thread blocked in waitIdleFor, and the       *)
(* owning thread that starts and shuts the pool down.                      *)
(*                                                                         *)
(* Every critical section of Impl::mutex is one action.  The notifications *)
(* the code sends after it has released the mutex are actions of their     *)
(* own, so that any other thread may run in between.  A thread blocked on  *)
(* a condition variable leaves it when it is notified or, where the code   *)
(* gives it a deadline, when that deadline passes.                         *)
(***************************************************************************)
EXTENDS Naturals, Sequences, FiniteSets

CONSTANTS
  Tasks,               \* tasks to submit: each has a calling thread of its own
  Threads,             \* worker records; a reaped one is used again
  Core,                \* ThreadPoolOptions::core_threads
  Max,                 \* ThreadPoolOptions::max_threads
  QueueCapacity,       \* ThreadPoolOptions::queue_capacity
  MaxCreationFailures, \* bound on std::thread constructions that throw
  NoTask               \* a worker's task pointer while it has none

\* Impl's constructor rejects every other configuration.
ASSUME OptionsAssumption ==
  /\ Core \in Nat \ {0}
  /\ Max \in Nat
  /\ Max >= Core
  /\ QueueCapacity \in Nat \ {0}

\* The bounds of the model; the code has no limit on any of them.
ASSUME BoundsAssumption ==
  /\ IsFiniteSet(Tasks)
  /\ NoTask \notin Tasks
  /\ IsFiniteSet(Threads)
  /\ Cardinality(Threads) >= Max
  /\ MaxCreationFailures \in Nat

VARIABLES
  state,       \* ThreadPoolState
  tasks,       \* the deque of accepted tasks
  job,         \* per task: where its call, and then its execution, stands
  notifying,   \* submitters between unlock() and task_available.notify_one()
  worker,      \* per record: the point of workerLoop its thread is at
  core,        \* the records created with core_worker = true
  held,        \* the task a worker moved out of the deque
  live,        \* live_threads
  active,      \* active_threads
  submitted,   \* submitted_tasks
  completed,   \* completed_tasks
  cancelled,   \* cancelled_tasks
  failures,    \* worker_creation_failures
  stopping,    \* pool_stop_source (and each worker's token) has a stop request
  owner,       \* where the owning thread is in start() or shutdown()
  waiter       \* a thread calling waitIdleFor

queueVars  == <<tasks, job, notifying>>
threadVars == <<worker, core, held, live, active>>
statVars   == <<submitted, completed, cancelled, failures>>
vars == <<state, queueVars, threadVars, statVars, stopping, owner, waiter>>

-----------------------------------------------------------------------------

(***************************************************************************)
(* job[t]: "new" (not submitted), "blocked" and "woken" (its submitter is  *)
(* in queue_space.wait_for), "refused", "queued", "running", "done", and   *)
(* for a cancelled task "dropped" until its future reports it "broken".    *)
(*                                                                         *)
(* worker[w]: "none" (no such thread), "top" (about to lock at the top of  *)
(* the loop), "waiting" (blocked on task_available), "popped" (owns a task *)
(* and must notify queue_space), "running", "executed" (must lock to count *)
(* the task), "announce" (must notify idle_changed), "leaving" (has given  *)
(* up its place in live_threads), "finished" (its flag is set: joining it  *)
(* does not block).                                                        *)
(***************************************************************************)
JobStates == {"new", "blocked", "woken", "refused", "queued", "running",
              "done", "dropped", "broken"}
Busy      == {"popped", "running", "executed"}
Live      == {"top", "waiting", "announce"} \cup Busy
Points    == {"none", "leaving", "finished"} \cup Live

At(p)       == {w \in Threads : worker[w] = p}
In(P)       == {w \in Threads : worker[w] \in P}
Submitter(s) == {t \in Tasks : job[t] = s}
Least(m, n) == IF m < n THEN m ELSE n

Init ==
  /\ state = "Created"
  /\ tasks = <<>>
  /\ job = [t \in Tasks |-> "new"]
  /\ notifying = {}
  /\ worker = [w \in Threads |-> "none"]
  /\ core = {}
  /\ held = [w \in Threads |-> NoTask]
  /\ live = 0
  /\ active = 0
  /\ submitted = 0
  /\ completed = 0
  /\ cancelled = 0
  /\ failures = 0
  /\ stopping = FALSE
  /\ owner = "ready"
  /\ waiter = "out"

-----------------------------------------------------------------------------
(* Condition variables.                                                    *)

\* task_available.notify_one(): some blocked worker, if there is one.
NotifyTaskNone == UNCHANGED worker
NotifyTask ==
  \/ At("waiting") = {} /\ UNCHANGED worker
  \/ \E w \in At("waiting") : worker' = [worker EXCEPT ![w] = "top"]

\* queue_space.notify_one(): some blocked submitter, if there is one.
NotifySpaceNone == UNCHANGED job
NotifySpace ==
  \/ Submitter("blocked") = {} /\ UNCHANGED job
  \/ \E t \in Submitter("blocked") : job' = [job EXCEPT ![t] = "woken"]

\* idle_changed.notify_all()
NotifyIdle == waiter' = IF waiter = "blocked" THEN "woken" ELSE waiter

-----------------------------------------------------------------------------
(* Worker records.                                                         *)

\* reapFinishedWorkersLocked: join and erase the threads that have finished.
Reaped == [w \in Threads |-> IF worker[w] = "finished" THEN "none" ELSE worker[w]]

(***************************************************************************)
(* Create elastic workers until `target` are live.  A thread that cannot   *)
(* be created ends the loop early and is counted.                          *)
(***************************************************************************)
SpawnElastic(target) ==
  LET missing == IF live < target THEN target - live ELSE 0
  IN  \E S \in SUBSET {w \in Threads : Reaped[w] = "none"} :
        /\ \/ Cardinality(S) = missing /\ UNCHANGED failures
           \/ /\ Cardinality(S) < missing
              /\ failures < MaxCreationFailures
              /\ failures' = failures + 1
        /\ worker' = [w \in Threads |-> IF w \in S THEN "top" ELSE Reaped[w]]
        /\ live' = live + Cardinality(S)

\* maybeGrowLocked's target, for a deque of n tasks.
DesiredOfQueueOnly(n)  == Least(Max, n)
Desired(n) == Least(Max, active + n)

-----------------------------------------------------------------------------
(* Submitters: post, postFor and the submit wrappers all end in enqueue.   *)

HasSpaceOffByOne == Len(tasks) <= QueueCapacity
HasSpace == Len(tasks) < QueueCapacity

CanAdmit == state = "Running" /\ HasSpace

\* The tail of enqueue's critical section: reap, push, count, grow.
Admit(t) ==
  /\ tasks' = Append(tasks, t)
  /\ job' = [job EXCEPT ![t] = "queued"]
  /\ notifying' = notifying \cup {t}
  /\ submitted' = submitted + 1
  /\ SpawnElastic(Desired(Len(tasks) + 1))
  /\ UNCHANGED <<state, core, held, active, completed, cancelled, stopping,
                 owner, waiter>>

\* enqueue returns false.
Refuse(t) ==
  /\ job' = [job EXCEPT ![t] = "refused"]
  /\ UNCHANGED <<state, tasks, notifying, threadVars, statVars, stopping,
                 owner, waiter>>

Block(t) ==
  /\ job' = [job EXCEPT ![t] = "blocked"]
  /\ UNCHANGED <<state, tasks, notifying, threadVars, statVars, stopping,
                 owner, waiter>>

\* post, trySubmit, or a blocking submission that need not wait.
Post(t) ==
  /\ job[t] = "new"
  /\ IF CanAdmit THEN Admit(t) ELSE Refuse(t)

\* postFor or submitFor finds the queue full and waits on queue_space.
PostForBlocks(t) ==
  /\ job[t] = "new"
  /\ state = "Running"
  /\ ~HasSpace
  /\ Block(t)

\* A notified submitter evaluates the wait's predicate again.
SpaceWake(t) ==
  /\ job[t] = "woken"
  /\ \/ CanAdmit /\ Admit(t)
     \/ state # "Running" /\ Refuse(t)
     \/ state = "Running" /\ ~HasSpace /\ Block(t)

\* Its deadline passes: wait_for returns the predicate's value of that moment.
SpaceTimeout(t) ==
  /\ job[t] = "blocked"
  /\ IF CanAdmit THEN Admit(t) ELSE Refuse(t)

\* enqueue has unlocked: task_available.notify_one(), and true is returned.
NotifyAccepted(t) ==
  /\ t \in notifying
  /\ notifying' = notifying \ {t}
  /\ NotifyTask
  /\ UNCHANGED <<state, tasks, job, core, held, live, active, statVars,
                 stopping, owner, waiter>>

\* reserve(target) by any thread while the pool runs.
Reserve(target) ==
  /\ state = "Running"
  /\ SpawnElastic(Least(target, Max))
  /\ UNCHANGED <<state, queueVars, core, held, active, submitted, completed,
                 cancelled, stopping, owner, waiter>>

-----------------------------------------------------------------------------
(* Workers.                                                                *)

\* The predicate of the wait on task_available.
Ready == tasks # <<>> \/ state # "Running" \/ stopping

Move(w, from, to) ==
  /\ worker[w] = from
  /\ worker' = [worker EXCEPT ![w] = to]

\* Leave the loop: the worker's place is free before its thread has ended.
LeaveUncounted(w, from) ==
  /\ Move(w, from, "leaving")
  /\ UNCHANGED <<state, queueVars, core, held, live, active, statVars,
                 stopping, owner, waiter>>
Leave(w, from) ==
  /\ Move(w, from, "leaving")
  /\ live' = live - 1
  /\ UNCHANGED <<state, queueVars, core, held, active, statVars, stopping,
                 owner, waiter>>

WorkerWaits(w) ==
  /\ ~Ready
  /\ Move(w, "top", "waiting")
  /\ UNCHANGED <<state, queueVars, core, held, live, active, statVars,
                 stopping, owner, waiter>>

\* Only elastic workers give their wait a deadline; one that finds nothing
\* to do when it passes retires.
Retires(w) == w \notin core /\ ~Ready
WorkerTimeout(w) ==
  \/ Retires(w) /\ Leave(w, "waiting")
  \/ /\ w \notin core
     /\ Ready
     /\ Move(w, "waiting", "top")
     /\ UNCHANGED <<state, queueVars, core, held, live, active, statVars,
                    stopping, owner, waiter>>

WorkerExits(w) ==
  /\ \/ state = "Stopping" \/ stopping
     \/ state = "Draining" /\ tasks = <<>>
  /\ Leave(w, "top")

TakeTask(w) ==
  /\ ~(state = "Stopping" \/ stopping)
  /\ tasks # <<>>
  /\ Move(w, "top", "popped")
  /\ held' = [held EXCEPT ![w] = Head(tasks)]
  /\ job' = [job EXCEPT ![Head(tasks)] = "running"]
  /\ tasks' = Tail(tasks)
  /\ active' = active + 1
  /\ UNCHANGED <<state, notifying, core, live, statVars, stopping, owner,
                 waiter>>

\* queue_space.notify_one(), outside the lock, before the task runs.
AnnounceSpace(w) ==
  /\ Move(w, "popped", "running")
  /\ NotifySpace
  /\ UNCHANGED <<state, tasks, notifying, core, held, live, active, statVars,
                 stopping, owner, waiter>>

\* The task returns or throws; workerLoop catches whatever it throws.
RunTask(w) ==
  /\ Move(w, "running", "executed")
  /\ job' = [job EXCEPT ![held[w]] = "done"]
  /\ held' = [held EXCEPT ![w] = NoTask]
  /\ UNCHANGED <<state, tasks, notifying, core, live, active, statVars,
                 stopping, owner, waiter>>

\* Faulty: the thread goes back to work without announcing that it is idle.
CountTaskSilently(w) ==
  /\ Move(w, "executed", "top")
  /\ active' = active - 1
  /\ completed' = completed + 1
  /\ UNCHANGED <<state, queueVars, core, held, live, submitted, cancelled,
                 failures, stopping, owner, waiter>>
CountTask(w) ==
  /\ Move(w, "executed", "announce")
  /\ active' = active - 1
  /\ completed' = completed + 1
  /\ UNCHANGED <<state, queueVars, core, held, live, submitted, cancelled,
                 failures, stopping, owner, waiter>>

AnnounceIdle(w) ==
  /\ Move(w, "announce", "top")
  /\ NotifyIdle
  /\ UNCHANGED <<state, queueVars, core, held, live, active, statVars,
                 stopping, owner>>

\* idle_changed.notify_all(), then the finished flag, then the thread ends.
Finish(w) ==
  /\ Move(w, "leaving", "finished")
  /\ NotifyIdle
  /\ UNCHANGED <<state, queueVars, core, held, live, active, statVars,
                 stopping, owner>>

-----------------------------------------------------------------------------
(* waitIdleFor.                                                            *)

Idle == tasks = <<>> /\ active = 0

otherThanWaiter == <<state, queueVars, threadVars, statVars, stopping, owner>>

WaitIdleBlocks ==
  /\ waiter = "out"
  /\ ~Idle
  /\ waiter' = "blocked"
  /\ UNCHANGED otherThanWaiter

WaitIdleWakes ==
  /\ waiter = "woken"
  /\ waiter' = IF Idle THEN "out" ELSE "blocked"
  /\ UNCHANGED otherThanWaiter

WaitIdleTimeout ==
  /\ waiter = "blocked"
  /\ waiter' = "out"
  /\ UNCHANGED otherThanWaiter

-----------------------------------------------------------------------------
(* The owning thread: start() once, then shutdown(mode) once.              *)

Start ==
  /\ owner = "ready"
  /\ state = "Created"
  /\ \E S \in SUBSET Threads :
       /\ Cardinality(S) = Core
       /\ worker' = [w \in Threads |-> IF w \in S THEN "top" ELSE worker[w]]
       /\ core' = S
       /\ live' = live + Core
  /\ state' = "Running"
  /\ UNCHANGED <<queueVars, held, active, statVars, stopping, owner, waiter>>

\* A core thread cannot be created: stop and join those that were.
StartFails ==
  /\ owner = "ready"
  /\ state = "Created"
  /\ failures < MaxCreationFailures
  /\ \E S \in SUBSET Threads :
       /\ Cardinality(S) < Core
       /\ worker' = [w \in Threads |-> IF w \in S THEN "top" ELSE worker[w]]
       /\ core' = S
       /\ live' = live + Cardinality(S)
  /\ state' = "Stopping"
  /\ stopping' = TRUE
  /\ failures' = failures + 1
  /\ owner' = "unwinding"
  /\ UNCHANGED <<queueVars, held, active, submitted, completed, cancelled, waiter>>

AllJoinable == \A w \in Threads : worker[w] \in {"none", "finished"}

\* Every join has returned: drop the records.
DropRecords ==
  /\ worker' = [w \in Threads |-> "none"]
  /\ core' = {}
  /\ state' = "Stopped"

StartUnwinds ==
  /\ owner = "unwinding"
  /\ AllJoinable
  /\ DropRecords
  /\ owner' = "ready"
  /\ UNCHANGED <<queueVars, held, live, active, statVars, stopping, waiter>>

\* shutdown() on a pool that never ran, or already stopped, returns at once.
ShutdownUnstarted ==
  /\ owner = "ready"
  /\ state \in {"Created", "Stopped"}
  /\ worker' = Reaped
  /\ state' = "Stopped"
  /\ owner' = "done"
  /\ UNCHANGED <<queueVars, core, held, live, active, statVars, stopping, waiter>>

ShutdownDrain ==
  /\ owner = "ready"
  /\ state = "Running"
  /\ worker' = Reaped
  /\ state' = "Draining"
  /\ owner' = "waking"
  /\ UNCHANGED <<queueVars, core, held, live, active, statVars, stopping, waiter>>

CountCancelledNone == cancelled
CountCancelled == cancelled + Len(tasks)

ShutdownCancel ==
  /\ owner = "ready"
  /\ state = "Running"
  /\ worker' = Reaped
  /\ state' = "Stopping"
  /\ stopping' = TRUE
  /\ cancelled' = CountCancelled
  /\ tasks' = <<>>
  /\ job' = [t \in Tasks |-> IF job[t] = "queued" THEN "dropped" ELSE job[t]]
  /\ owner' = "dropping"
  /\ UNCHANGED <<notifying, core, held, live, active, submitted, completed,
                 failures, waiter>>

\* cancelled.clear() without the lock: the futures become ready.
BreakPromises ==
  /\ owner = "dropping"
  /\ job' = [t \in Tasks |-> IF job[t] = "dropped" THEN "broken" ELSE job[t]]
  /\ owner' = "waking"
  /\ UNCHANGED <<state, tasks, notifying, threadVars, statVars, stopping, waiter>>

\* task_available.notify_all() and queue_space.notify_all()
WakeSubmittersOnly ==
  /\ owner = "waking"
  /\ job' = [t \in Tasks |-> IF job[t] = "blocked" THEN "woken" ELSE job[t]]
  /\ owner' = "joining"
  /\ UNCHANGED <<state, tasks, notifying, threadVars, statVars, stopping, waiter>>
WakeAll ==
  /\ owner = "waking"
  /\ worker' = [w \in Threads |-> IF worker[w] = "waiting" THEN "top" ELSE worker[w]]
  /\ job' = [t \in Tasks |-> IF job[t] = "blocked" THEN "woken" ELSE job[t]]
  /\ owner' = "joining"
  /\ UNCHANGED <<state, tasks, notifying, core, held, live, active, statVars,
                 stopping, waiter>>

\* Faulty: the pool is declared stopped without joining its workers.
StopWithoutJoin ==
  /\ owner = "joining"
  /\ state' = "Stopped"
  /\ owner' = "announcing"
  /\ UNCHANGED <<queueVars, threadVars, statVars, stopping, waiter>>
JoinAll ==
  /\ owner = "joining"
  /\ AllJoinable
  /\ DropRecords
  /\ live' = 0
  /\ owner' = "announcing"
  /\ UNCHANGED <<queueVars, held, active, statVars, stopping, waiter>>

ShutdownReturns ==
  /\ owner = "announcing"
  /\ NotifyIdle
  /\ owner' = "done"
  /\ UNCHANGED <<state, queueVars, threadVars, statVars, stopping>>

-----------------------------------------------------------------------------

SubmitterStep(t) == SpaceWake(t) \/ NotifyAccepted(t)

WorkerStep(w) ==
  \/ WorkerWaits(w)
  \/ WorkerExits(w)
  \/ TakeTask(w)
  \/ AnnounceSpace(w)
  \/ RunTask(w)
  \/ CountTask(w)
  \/ AnnounceIdle(w)
  \/ Finish(w)

\* What start() and shutdown() do once they have been called.
OwnerStep ==
  \/ StartUnwinds
  \/ BreakPromises
  \/ WakeAll
  \/ JoinAll
  \/ ShutdownReturns

\* Nothing is left to do; keeps TLC's deadlock check for every other state.
Terminated ==
  /\ owner = "done"
  /\ waiter = "out"
  /\ notifying = {}
  /\ \A t \in Tasks : job[t] \in {"refused", "done", "broken"}
  /\ UNCHANGED vars

Next ==
  \/ \E t \in Tasks : Post(t) \/ PostForBlocks(t) \/ SpaceTimeout(t)
  \/ \E t \in Tasks : SubmitterStep(t)
  \/ \E target \in 1..(Max + 1) : Reserve(target)
  \/ \E w \in Threads : WorkerStep(w) \/ WorkerTimeout(w)
  \/ WaitIdleBlocks
  \/ WaitIdleWakes
  \/ WaitIdleTimeout
  \/ Start
  \/ StartFails
  \/ ShutdownUnstarted
  \/ ShutdownDrain
  \/ ShutdownCancel
  \/ OwnerStep
  \/ Terminated

Spec == Init /\ [][Next]_vars

(***************************************************************************)
(* A thread that can run eventually runs, the mutex is granted to a thread *)
(* that keeps asking for it, and a task returns.  Nobody has to submit,    *)
(* reserve, start or shut down, and no deadline has to pass.               *)
(***************************************************************************)
Fairness ==
  /\ \A t \in Tasks : WF_vars(SubmitterStep(t))
  /\ \A w \in Threads : WF_vars(WorkerStep(w))
  /\ WF_vars(OwnerStep)
  /\ WF_vars(WaitIdleWakes)

FairSpec == Spec /\ Fairness

-----------------------------------------------------------------------------
(* Properties.                                                             *)

\* Every variable stays in its range; the pool never exceeds max_threads and
\* the deque never exceeds queue_capacity.
TypeOK ==
  /\ state \in {"Created", "Running", "Draining", "Stopping", "Stopped"}
  /\ tasks \in Seq(Tasks)
  /\ Len(tasks) <= QueueCapacity
  /\ job \in [Tasks -> JobStates]
  /\ notifying \subseteq Tasks
  /\ worker \in [Threads -> Points]
  /\ core \subseteq Threads
  /\ held \in [Threads -> Tasks \cup {NoTask}]
  /\ live \in 0..Max
  /\ active \in 0..Max
  /\ submitted \in Nat
  /\ completed \in Nat
  /\ cancelled \in Nat
  /\ failures \in 0..MaxCreationFailures
  /\ stopping \in BOOLEAN
  /\ owner \in {"ready", "unwinding", "dropping", "waking", "joining",
                "announcing", "done"}
  /\ waiter \in {"out", "blocked", "woken"}

\* statistics() adds up under every interleaving: each accepted task is
\* counted in exactly one of queued, active, completed and cancelled.
Conservation == submitted = Len(tasks) + active + completed + cancelled

\* live_threads and active_threads are what workerLoop's growth decisions are
\* based on: they equal the number of threads inside the loop, and of those
\* that hold or have just executed a task, although a thread adjusts them in
\* a different critical section from the one that wakes it.
ThreadCounts ==
  /\ live = Cardinality(In(Live))
  /\ active = Cardinality(In(Busy))

\* A running pool keeps its core workers, and unless a thread could not be
\* created it has enough workers for the backlog: one for each queued or
\* active task, up to max_threads, whatever elastic workers retire.
Provisioned ==
  state = "Running" =>
    /\ Cardinality(core) = Core
    /\ core \subseteq In(Live)
    /\ failures = 0 => live >= Least(Max, active + Len(tasks))

\* No wake-up of a worker is lost: as long as workers sleep on task_available
\* while tasks are queued, enough notifications are under way or threads on
\* their way to the queue to reach those tasks; a closing pool leaves no
\* worker asleep behind its notify_all.
WorkerWakeup ==
  IF state = "Running"
  THEN Least(Len(tasks), Cardinality(At("waiting")))
         <= Cardinality(notifying) + Cardinality(At("top"))
  ELSE At("waiting") = {} \/ owner \in {"dropping", "waking"}

\* No wake-up of a blocked submitter is lost: as long as submitters sleep on
\* queue_space while the queue has room, a worker is about to notify one or
\* one is awake, for each free place; a closing pool leaves none asleep.
SpaceWakeup ==
  IF state = "Running"
  THEN Least(QueueCapacity - Len(tasks), Cardinality(Submitter("blocked")))
         <= Cardinality(At("popped")) + Cardinality(Submitter("woken"))
  ELSE Submitter("blocked") = {} \/ owner \in {"dropping", "waking"}

\* waitIdleFor does not sleep on an idle pool with nobody left to notify it.
IdleWakeup ==
  waiter = "blocked" /\ Idle =>
    \/ In({"announce", "leaving"}) # {}
    \/ owner \in {"dropping", "waking", "joining", "announcing"}

\* Stopped means quiet: every thread has ended, and every task that was ever
\* accepted is executed or its future broken.
StoppedIsQuiet ==
  state = "Stopped" =>
    /\ live = 0 /\ active = 0 /\ tasks = <<>>
    /\ \A w \in Threads : worker[w] = "none" /\ held[w] = NoTask
    /\ \A t \in Tasks : job[t] \notin {"queued", "running", "dropped"}

\* start() and shutdown() walk the vector of worker records without the
\* mutex to join the threads: no other thread may add or erase a record then.
RecordsStable ==
  [][ (owner \in {"unwinding", "dropping", "waking", "joining"})
        => (At("none")' = At("none") \/ state' = "Stopped") ]_vars

\* Seen from its callers the pool is a bounded FIFO executor that runs every
\* accepted task exactly once, at most max_threads at a time, or breaks its
\* promise when it is cancelled.
Executor == INSTANCE TaskExecutor WITH
  Parallelism <- Max,
  phase <- state,
  queue <- tasks,
  outcome <- [t \in Tasks |-> IF job[t] \in {"blocked", "woken"}
                              THEN "new" ELSE job[t]]

ImplementsExecutor == Executor!Spec

\* Under fair scheduling every accepted task ends: executed, or broken by a
\* cancelling shutdown.
AcceptedTasksSettle ==
  \A t \in Tasks : job[t] = "queued" ~> job[t] \in {"done", "broken"}

\* shutdown(), and start() that failed, return.
OwnerReturns == owner # "ready" ~> owner \in {"ready", "done"}

\* A submitter blocked for space returns even if its deadline never passes.
BlockedSubmittersReturn ==
  \A t \in Tasks : job[t] = "blocked" ~> job[t] \notin {"blocked", "woken"}

\* Nobody who called the pool sleeps in it for ever: neither the owner that
\* stops it nor a submitter that waits for space, and neither because of the
\* other.
CallersReturn == OwnerReturns /\ BlockedSubmittersReturn

=============================================================================
