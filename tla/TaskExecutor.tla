---------------------------- MODULE TaskExecutor ----------------------------
(***************************************************************************)
(* What a bounded thread pool promises its callers, with no thread, lock   *)
(* or condition variable in sight.  Accepted tasks wait in one FIFO queue  *)
(* of QueueCapacity places, at most Parallelism of them are in progress    *)
(* at once, and each of them is executed exactly once unless the pool is   *)
(* closed in the cancelling mode, which breaks the promise of the tasks    *)
(* that were still queued.  A pool is Stopped only when nothing it         *)
(* accepted is left.                                                       *)
(*                                                                         *)
(* ThreadPool.tla is shown to implement this specification.                *)
(***************************************************************************)
EXTENDS Naturals, Sequences, FiniteSets

CONSTANTS
  Tasks,          \* the tasks callers may submit, each at most once
  QueueCapacity,  \* ThreadPoolOptions::queue_capacity
  Parallelism     \* ThreadPoolOptions::max_threads

VARIABLES
  phase,    \* life cycle of the executor
  queue,    \* accepted tasks nobody has begun
  outcome   \* what has become of each task

vars == <<phase, queue, outcome>>

InProgress == {t \in Tasks : outcome[t] = "running"}
Dropped    == {t \in Tasks : outcome[t] = "dropped"}

Init ==
  /\ phase = "Created"
  /\ queue = <<>>
  /\ outcome = [t \in Tasks |-> "new"]

(***************************************************************************)
(* Opening may fail when no thread can be created: nothing was accepted    *)
(* yet, so nothing is lost.                                                *)
(***************************************************************************)
Open ==
  /\ phase = "Created"
  /\ phase' \in {"Running", "Stopping"}
  /\ UNCHANGED <<queue, outcome>>

Accept(t) ==
  /\ phase = "Running"
  /\ outcome[t] = "new"
  /\ Len(queue) < QueueCapacity
  /\ queue' = Append(queue, t)
  /\ outcome' = [outcome EXCEPT ![t] = "queued"]
  /\ UNCHANGED phase

\* A task is turned away only by a full queue or by a pool that is not open.
Refuse(t) ==
  /\ outcome[t] = "new"
  /\ phase # "Running" \/ Len(queue) = QueueCapacity
  /\ outcome' = [outcome EXCEPT ![t] = "refused"]
  /\ UNCHANGED <<phase, queue>>

\* Tasks begin in the order in which they were accepted.
Begin ==
  /\ phase \in {"Running", "Draining"}
  /\ queue # <<>>
  /\ Cardinality(InProgress) < Parallelism
  /\ outcome' = [outcome EXCEPT ![Head(queue)] = "running"]
  /\ queue' = Tail(queue)
  /\ UNCHANGED phase

Complete(t) ==
  /\ outcome[t] = "running"
  /\ outcome' = [outcome EXCEPT ![t] = "done"]
  /\ UNCHANGED <<phase, queue>>

CloseGracefully ==
  /\ phase = "Running"
  /\ phase' = "Draining"
  /\ UNCHANGED <<queue, outcome>>

CloseCancelling ==
  /\ phase = "Running"
  /\ phase' = "Stopping"
  /\ queue' = <<>>
  /\ outcome' = [t \in Tasks |->
                   IF outcome[t] = "queued" THEN "dropped" ELSE outcome[t]]

\* The futures of the dropped tasks report a broken promise.
BreakPromises ==
  /\ Dropped # {}
  /\ outcome' = [t \in Tasks |->
                   IF t \in Dropped THEN "broken" ELSE outcome[t]]
  /\ UNCHANGED <<phase, queue>>

Stop ==
  /\ phase \in {"Created", "Draining", "Stopping"}
  /\ queue = <<>>
  /\ InProgress = {}
  /\ Dropped = {}
  /\ phase' = "Stopped"
  /\ UNCHANGED <<queue, outcome>>

Next ==
  \/ Open
  \/ \E t \in Tasks : Accept(t)
  \/ \E t \in Tasks : Refuse(t)
  \/ Begin
  \/ \E t \in Tasks : Complete(t)
  \/ CloseGracefully
  \/ CloseCancelling
  \/ BreakPromises
  \/ Stop

Spec == Init /\ [][Next]_vars

=============================================================================
