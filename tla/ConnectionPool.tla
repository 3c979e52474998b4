--------------------------- MODULE ConnectionPool ---------------------------
(***************************************************************************)
(* The server's ConnectionPool (server/src/db/connection_pool.cpp):        *)
(* threads that each borrow a connection once, the maintenance thread, and *)
(* the owning thread that starts the pool and shuts it down.               *)
(*                                                                         *)
(* A critical section of the pool's mutex is one action.  Driver calls     *)
(* (the factory, ping, resetSession, closing) run outside the mutex, and   *)
(* so do most notifications: they are actions of their own.  Connections   *)
(* are interchangeable, so the idle deque is the number of its elements.   *)
(* Whether a connection has outlived max_lifetime or idle_timeout, needs a *)
(* ping, or fails a driver call is chosen freely each time the code asks;  *)
(* failures are bounded by MaxMishaps.                                     *)
(***************************************************************************)
EXTENDS Naturals, FiniteSets

CONSTANTS
  Borrowers,   \* calls of acquire(), each by a thread of its own
  MinConns,    \* ConnectionPoolOptions::min_connections
  MaxConns,    \* ConnectionPoolOptions::max_connections
  MaxMishaps   \* bound on failed driver calls and connections found too old

\* Impl's constructor rejects every other configuration.
ASSUME OptionsAssumption ==
  /\ MaxConns \in Nat \ {0}
  /\ MinConns \in Nat
  /\ MinConns <= MaxConns

\* The bounds of the model.
ASSUME BoundsAssumption ==
  /\ IsFiniteSet(Borrowers)
  /\ MaxMishaps \in Nat

VARIABLES
  state,        \* ConnectionPoolState
  idle,         \* idle.size()
  total,        \* total_connections
  borrowed,     \* borrowed_connections
  creating,     \* creating_connections
  pc,           \* per borrower: where it is in acquireRecord or release
  keeper,       \* where the maintenance thread is in maintenanceLoop
  reserved,     \* its connections_to_create that are still to be created
  expired,      \* connections it has removed and not closed yet
  owner,        \* where the owning thread is in start() or shutdownFor()
  dropping,     \* idle connections shutdownFor() has removed and not closed
  drained,      \* what shutdownFor() returned
  mishaps,      \* failures so far
  keeperFailed  \* a creation by the maintenance thread has failed

poolVars   == <<state, idle, total, borrowed, creating>>
keeperVars == <<keeper, reserved, expired>>
ownerVars  == <<owner, dropping, drained>>
vars == <<poolVars, pc, keeperVars, ownerVars, mishaps, keeperFailed>>

(***************************************************************************)
(* pc[b]: "new"; "locking" (at the top of acquireRecord's loop); "waiting" *)
(* (on available); "checking" (took an idle record, outside the mutex);    *)
(* "discarding" (gave that record up, must close it and notify);           *)
(* "creating" (in the factory); "failing" and "late" (the creation failed, *)
(* or ended after the pool was closed: must notify); "lease"; "returned"   *)
(* and "closing" (releaseConnection has put the record back, or given it   *)
(* up, and must notify); "done".                                           *)
(***************************************************************************)
BorrowerPoints == {"new", "locking", "waiting", "checking", "discarding",
                   "creating", "failing", "late", "lease", "returned",
                   "closing", "done"}
At(p) == {b \in Borrowers : pc[b] = p}
In(P) == {b \in Borrowers : pc[b] \in P}
Holding == {"checking", "lease"}

Least(m, n) == IF m < n THEN m ELSE n

Init ==
  /\ state = "Created"
  /\ idle = 0
  /\ total = 0
  /\ borrowed = 0
  /\ creating = 0
  /\ pc = [b \in Borrowers |-> "new"]
  /\ keeper = "none"
  /\ reserved = 0
  /\ expired = 0
  /\ owner = "ready"
  /\ dropping = 0
  /\ drained = FALSE
  /\ mishaps = 0
  /\ keeperFailed = FALSE

Mishap == mishaps < MaxMishaps /\ mishaps' = mishaps + 1

-----------------------------------------------------------------------------
(* Condition variables.                                                    *)

\* Borrower b goes to point p and calls available.notify_one().
MoveSilently(b, p) == pc' = [pc EXCEPT ![b] = p]
MoveAndNotify(b, p) ==
  \/ At("waiting") = {} /\ pc' = [pc EXCEPT ![b] = p]
  \/ \E v \in At("waiting") : pc' = [pc EXCEPT ![b] = p, ![v] = "locking"]

AllWaitersWoken == [b \in Borrowers |-> IF pc[b] = "waiting" THEN "locking" ELSE pc[b]]

\* maintenance_wakeup.notify_one()
NotifyKeeper == keeper' = IF keeper = "asleep" THEN "woken" ELSE keeper

\* lifecycle_changed.notify_all(): only shutdownFor() waits on it.
NotifyOwner == owner' = IF owner = "asleep" THEN "draining" ELSE owner

-----------------------------------------------------------------------------
(* acquireRecord.                                                          *)

FreeSlotIgnoringCreating == total < MaxConns
FreeSlot == total + creating < MaxConns

\* The predicate of the wait on available.
WaitReady == state # "Running" \/ idle > 0 \/ FreeSlot

\* Nobody borrows before start() has returned: DbExecutor starts its workers
\* after it.
Acquire(b) ==
  /\ pc[b] = "new"
  /\ state # "Created"
  /\ owner \notin {"starting", "spawning"}
  /\ pc' = [pc EXCEPT ![b] = "locking"]
  /\ UNCHANGED <<poolVars, keeperVars, ownerVars, mishaps, keeperFailed>>

\* throw ConnectionPoolStopped
AcquireStopped(b) ==
  /\ pc[b] = "locking"
  /\ state # "Running"
  /\ pc' = [pc EXCEPT ![b] = "done"]
  /\ UNCHANGED <<poolVars, keeperVars, ownerVars, mishaps, keeperFailed>>

TakeIdle(b) ==
  /\ pc[b] = "locking"
  /\ state = "Running"
  /\ idle > 0
  /\ pc' = [pc EXCEPT ![b] = "checking"]
  /\ idle' = idle - 1
  /\ borrowed' = borrowed + 1
  /\ UNCHANGED <<state, total, creating, keeperVars, ownerVars, mishaps, keeperFailed>>

\* Young enough and, if it had to be validated, alive.  The state of the pool
\* is not looked at again.
CheckSucceeds(b) ==
  /\ pc[b] = "checking"
  /\ pc' = [pc EXCEPT ![b] = "lease"]
  /\ UNCHANGED <<poolVars, keeperVars, ownerVars, mishaps, keeperFailed>>

\* Too old, or the ping failed.
CheckFails(b) ==
  /\ pc[b] = "checking"
  /\ Mishap
  /\ pc' = [pc EXCEPT ![b] = "discarding"]
  /\ borrowed' = borrowed - 1
  /\ total' = total - 1
  /\ UNCHANGED <<state, idle, creating, keeperVars, ownerVars, keeperFailed>>

\* Close the record, notify everybody, and try again.
Discarded(b) ==
  /\ pc[b] = "discarding"
  /\ MoveAndNotify(b, "locking")
  /\ NotifyKeeper
  /\ NotifyOwner
  /\ UNCHANGED <<poolVars, reserved, expired, dropping, drained, mishaps, keeperFailed>>

BeginCreate(b) ==
  /\ pc[b] = "locking"
  /\ state = "Running"
  /\ idle = 0
  /\ FreeSlot
  /\ pc' = [pc EXCEPT ![b] = "creating"]
  /\ creating' = creating + 1
  /\ UNCHANGED <<state, idle, total, borrowed, keeperVars, ownerVars, mishaps, keeperFailed>>

CreateSucceeds(b) ==
  /\ pc[b] = "creating"
  /\ state = "Running"
  /\ pc' = [pc EXCEPT ![b] = "lease"]
  /\ creating' = creating - 1
  /\ total' = total + 1
  /\ borrowed' = borrowed + 1
  /\ NotifyOwner
  /\ UNCHANGED <<state, idle, keeperVars, dropping, drained, mishaps, keeperFailed>>

CreateFails(b) ==
  /\ pc[b] = "creating"
  /\ Mishap
  /\ pc' = [pc EXCEPT ![b] = "failing"]
  /\ creating' = creating - 1
  /\ UNCHANGED <<state, idle, total, borrowed, keeperVars, ownerVars, keeperFailed>>

\* The factory succeeded, but the pool was closed in the meantime.
CreateTooLate(b) ==
  /\ pc[b] = "creating"
  /\ state # "Running"
  /\ pc' = [pc EXCEPT ![b] = "late"]
  /\ creating' = creating - 1
  /\ UNCHANGED <<state, idle, total, borrowed, keeperVars, ownerVars, mishaps, keeperFailed>>

\* Notify one borrower, and let acquire() rethrow the factory's error.
CreationFailed(b) ==
  /\ pc[b] = "failing"
  /\ MoveAndNotify(b, "done")
  /\ NotifyOwner
  /\ UNCHANGED <<poolVars, keeperVars, dropping, drained, mishaps, keeperFailed>>

\* Notify all borrowers, close the connection, throw ConnectionPoolStopped.
CreatedTooLate(b) ==
  /\ pc[b] = "late"
  /\ pc' = [AllWaitersWoken EXCEPT ![b] = "done"]
  /\ NotifyOwner
  /\ UNCHANGED <<poolVars, keeperVars, dropping, drained, mishaps, keeperFailed>>

Wait(b) ==
  /\ pc[b] = "locking"
  /\ ~WaitReady
  /\ pc' = [pc EXCEPT ![b] = "waiting"]
  /\ UNCHANGED <<poolVars, keeperVars, ownerVars, mishaps, keeperFailed>>

\* The deadline passes: ConnectionPoolTimeout, unless the predicate holds now.
WaitTimeout(b) ==
  /\ pc[b] = "waiting"
  /\ pc' = [pc EXCEPT ![b] = IF WaitReady THEN "locking" ELSE "done"]
  /\ UNCHANGED <<poolVars, keeperVars, ownerVars, mishaps, keeperFailed>>

-----------------------------------------------------------------------------
(* releaseConnection.                                                      *)

Return(b) ==
  /\ pc[b] = "lease"
  /\ state = "Running"
  /\ pc' = [pc EXCEPT ![b] = "returned"]
  /\ borrowed' = borrowed - 1
  /\ idle' = idle + 1
  /\ UNCHANGED <<state, total, creating, keeperVars, ownerVars, mishaps, keeperFailed>>

\* The pool is closed, the session could not be reset, or it is too old.
GiveUp(b) ==
  /\ pc[b] = "lease"
  /\ IF state = "Running" THEN Mishap ELSE UNCHANGED mishaps
  /\ pc' = [pc EXCEPT ![b] = "closing"]
  /\ borrowed' = borrowed - 1
  /\ total' = total - 1
  /\ UNCHANGED <<state, idle, creating, keeperVars, ownerVars, keeperFailed>>

Returned(b) ==
  /\ pc[b] = "returned"
  /\ MoveAndNotify(b, "done")
  /\ NotifyOwner
  /\ UNCHANGED <<poolVars, keeperVars, dropping, drained, mishaps, keeperFailed>>

Closed(b) ==
  /\ pc[b] = "closing"
  /\ MoveAndNotify(b, "done")
  /\ NotifyKeeper
  /\ NotifyOwner
  /\ UNCHANGED <<poolVars, reserved, expired, dropping, drained, mishaps, keeperFailed>>

-----------------------------------------------------------------------------
(* maintenanceLoop.  keeper: "none", "top" (about to lock), "asleep" and   *)
(* "woken" (on maintenance_wakeup), "closing" (has left the critical       *)
(* section), "announcing" (must notify available), "ended".                *)

BelowMinimum == total + creating < MinConns

KeeperSleeps ==
  /\ keeper \in {"top", "woken"}
  /\ state = "Running"
  /\ ~BelowMinimum
  /\ keeper' = "asleep"
  /\ UNCHANGED <<poolVars, pc, reserved, expired, ownerVars, mishaps, keeperFailed>>

KeeperEnds ==
  /\ keeper \in {"top", "woken"}
  /\ state # "Running"
  /\ keeper' = "ended"
  /\ UNCHANGED <<poolVars, pc, reserved, expired, ownerVars, mishaps, keeperFailed>>

\* The interval passes: retire any idle connections above the minimum.
Expirable == Least(idle, total - MinConns)
KeeperExpires ==
  /\ keeper = "asleep"
  /\ state = "Running"
  /\ total > MinConns
  /\ \E n \in 1..Expirable :
       /\ expired' = n
       /\ idle' = idle - n
       /\ total' = total - n
  /\ keeper' = "closing"
  /\ UNCHANGED <<state, borrowed, creating, pc, reserved, ownerVars, mishaps, keeperFailed>>

\* The interval passes, and there is nothing to do or the pool is closed.
KeeperTimeoutNever == keeper = "asleep" /\ FALSE /\ UNCHANGED vars
KeeperTimeout ==
  /\ keeper = "asleep"
  /\ keeper' = "woken"
  /\ UNCHANGED <<poolVars, pc, reserved, expired, ownerVars, mishaps, keeperFailed>>

\* Reserve the missing connections before leaving the critical section.
ReserveMissing ==
  /\ reserved' = MinConns - total - creating
  /\ creating' = creating + reserved'

KeeperReserves ==
  /\ keeper \in {"top", "woken"}
  /\ state = "Running"
  /\ BelowMinimum
  /\ ReserveMissing
  /\ keeper' = "closing"
  /\ UNCHANGED <<state, idle, total, borrowed, pc, expired, ownerVars, mishaps, keeperFailed>>

\* expired.clear(); without anything to create the loop starts again.
KeeperCloses ==
  /\ keeper = "closing"
  /\ expired > 0 \/ reserved = 0
  /\ expired' = 0
  /\ keeper' = IF reserved = 0 THEN "top" ELSE keeper
  /\ UNCHANGED <<poolVars, pc, reserved, ownerVars, mishaps, keeperFailed>>

\* A creation fails: shutdownFor() is notified, the borrowers are not.
KeeperCreateFails ==
  /\ keeper = "closing"
  /\ reserved > 0
  /\ Mishap
  /\ creating' = creating - 1
  /\ reserved' = reserved - 1
  /\ keeperFailed' = TRUE
  /\ NotifyOwner
  /\ UNCHANGED <<state, idle, total, borrowed, pc, keeper, expired, dropping, drained>>

KeeperCreates ==
  /\ keeper = "closing"
  /\ reserved > 0
  /\ creating' = creating - 1
  /\ reserved' = reserved - 1
  /\ IF state = "Running"
     THEN idle' = idle + 1 /\ total' = total + 1
     ELSE UNCHANGED <<idle, total>>
  /\ keeper' = "announcing"
  /\ UNCHANGED <<state, borrowed, pc, expired, ownerVars, mishaps, keeperFailed>>

KeeperAnnounces ==
  /\ keeper = "announcing"
  /\ \/ At("waiting") = {} /\ UNCHANGED pc
     \/ \E v \in At("waiting") : pc' = [pc EXCEPT ![v] = "locking"]
  /\ NotifyOwner
  /\ keeper' = "closing"
  /\ UNCHANGED <<poolVars, reserved, expired, dropping, drained, mishaps, keeperFailed>>

-----------------------------------------------------------------------------
(* start() and shutdownFor().                                              *)

StartBegins ==
  /\ owner = "ready"
  /\ state = "Created"
  /\ state' = "Starting"
  /\ creating' = MinConns
  /\ owner' = "starting"
  /\ UNCHANGED <<idle, total, borrowed, pc, keeperVars, dropping, drained, mishaps, keeperFailed>>

\* One of the first connections cannot be created: the others are closed.
StartFails ==
  /\ owner = "starting"
  /\ MinConns > 0
  /\ Mishap
  /\ creating' = 0
  /\ state' = "Stopped"
  /\ owner' = "ready"
  /\ UNCHANGED <<idle, total, borrowed, pc, keeperVars, dropping, drained, keeperFailed>>

StartOpens ==
  /\ owner = "starting"
  /\ creating' = 0
  /\ total' = MinConns
  /\ idle' = MinConns
  /\ state' = "Running"
  /\ owner' = "spawning"
  /\ UNCHANGED <<borrowed, pc, keeperVars, dropping, drained, mishaps, keeperFailed>>

\* The maintenance thread runs; available.notify_all().
StartReturns ==
  /\ owner = "spawning"
  /\ keeper' = "top"
  /\ pc' = AllWaitersWoken
  /\ owner' = "ready"
  /\ UNCHANGED <<poolVars, reserved, expired, dropping, drained, mishaps, keeperFailed>>

\* The maintenance thread cannot be created.
StartLosesKeeper ==
  /\ owner = "spawning"
  /\ Mishap
  /\ idle' = 0
  /\ total' = 0
  /\ state' = "Stopped"
  /\ owner' = "ready"
  /\ UNCHANGED <<borrowed, creating, pc, keeperVars, dropping, drained, keeperFailed>>

NothingOut == borrowed = 0 /\ creating = 0

\* shutdownFor() on a pool that never opened, or is stopped.
ShutdownClosed ==
  /\ owner = "ready"
  /\ state \in {"Created", "Stopped"}
  /\ state' = "Stopped"
  /\ drained' = (state = "Created" \/ NothingOut)
  /\ owner' = "done"
  /\ UNCHANGED <<idle, total, borrowed, creating, pc, keeperVars, dropping, mishaps, keeperFailed>>

ShutdownBegins ==
  /\ owner = "ready"
  /\ state = "Running"
  /\ state' = "Stopping"
  /\ dropping' = idle
  /\ idle' = 0
  /\ total' = total - idle
  /\ owner' = "waking"
  /\ UNCHANGED <<borrowed, creating, pc, keeperVars, drained, mishaps, keeperFailed>>

\* notify_all on available and maintenance_wakeup; idle.clear().
ShutdownWakes ==
  /\ owner = "waking"
  /\ pc' = AllWaitersWoken
  /\ NotifyKeeper
  /\ dropping' = 0
  /\ owner' = "joining"
  /\ UNCHANGED <<poolVars, reserved, expired, drained, mishaps, keeperFailed>>

\* Not bounded by the timeout: the maintenance thread may be in the factory.
ShutdownJoins ==
  /\ owner = "joining"
  /\ keeper = "ended"
  /\ owner' = "draining"
  /\ UNCHANGED <<poolVars, pc, keeperVars, dropping, drained, mishaps, keeperFailed>>

\* The predicate of the wait on lifecycle_changed.
AllReturned == NothingOut

ShutdownWaits ==
  /\ owner = "draining"
  /\ ~AllReturned
  /\ owner' = "asleep"
  /\ UNCHANGED <<poolVars, pc, keeperVars, dropping, drained, mishaps, keeperFailed>>

\* The wait ends because everything came back, or because its time is up.
ShutdownReturnsWhenEmpty ==
  /\ owner = "draining"
  /\ AllReturned
  /\ drained' = TRUE
  /\ state' = "Stopped"
  /\ owner' = "done"
  /\ UNCHANGED <<idle, total, borrowed, creating, pc, keeperVars, dropping, mishaps, keeperFailed>>
ShutdownReturns ==
  /\ \/ owner = "draining" /\ AllReturned
     \/ owner = "asleep"
  /\ drained' = AllReturned
  /\ state' = "Stopped"
  /\ owner' = "done"
  /\ UNCHANGED <<idle, total, borrowed, creating, pc, keeperVars, dropping, mishaps, keeperFailed>>

-----------------------------------------------------------------------------

BorrowerStep(b) ==
  \/ AcquireStopped(b)
  \/ TakeIdle(b)
  \/ CheckSucceeds(b)
  \/ CheckFails(b)
  \/ Discarded(b)
  \/ BeginCreate(b)
  \/ CreateSucceeds(b)
  \/ CreateFails(b)
  \/ CreateTooLate(b)
  \/ CreationFailed(b)
  \/ CreatedTooLate(b)
  \/ Wait(b)
  \/ Returned(b)
  \/ Closed(b)

ReleaseStep(b) == Return(b) \/ GiveUp(b)

KeeperStep ==
  \/ KeeperSleeps
  \/ KeeperEnds
  \/ KeeperReserves
  \/ KeeperCloses
  \/ KeeperCreateFails
  \/ KeeperCreates
  \/ KeeperAnnounces

OwnerStep ==
  \/ StartFails
  \/ StartOpens
  \/ StartReturns
  \/ StartLosesKeeper
  \/ ShutdownWakes
  \/ ShutdownJoins
  \/ ShutdownWaits
  \/ ShutdownReturns

\* Everybody has returned; keeps TLC's deadlock check for every other state.
Terminated ==
  /\ owner = "done"
  /\ \A b \in Borrowers : pc[b] = "done"
  /\ UNCHANGED vars

Next ==
  \/ \E b \in Borrowers : Acquire(b) \/ WaitTimeout(b)
  \/ \E b \in Borrowers : BorrowerStep(b)
  \/ \E b \in Borrowers : ReleaseStep(b)
  \/ KeeperStep
  \/ KeeperExpires
  \/ KeeperTimeout
  \/ StartBegins
  \/ ShutdownClosed
  \/ ShutdownBegins
  \/ OwnerStep
  \/ Terminated

Spec == Init /\ [][Next]_vars

(***************************************************************************)
(* A thread that can run eventually runs, the mutex is granted to a thread *)
(* that keeps asking for it, driver calls return (their network timeouts   *)
(* see to that), and the maintenance interval passes.  Nobody has to       *)
(* borrow or shut down, and no borrower's deadline has to pass.            *)
(***************************************************************************)
Fairness ==
  /\ \A b \in Borrowers : WF_vars(BorrowerStep(b))
  /\ WF_vars(KeeperStep)
  /\ WF_vars(KeeperTimeout)
  /\ WF_vars(OwnerStep)

FairSpec == Spec /\ Fairness

\* Borrowers give their leases back: a ConnectionLease is scoped to a task.
\* Assumed only where a property says so.
LeasesReturn == \A b \in Borrowers : WF_vars(ReleaseStep(b))

-----------------------------------------------------------------------------
(* Properties.                                                             *)

\* Every variable stays in its range.  No counter goes below zero, though
\* the code subtracts from them after having released and retaken the mutex.
TypeOK ==
  /\ state \in {"Created", "Starting", "Running", "Stopping", "Stopped"}
  /\ idle \in Nat
  /\ total \in Nat
  /\ borrowed \in Nat
  /\ creating \in Nat
  /\ pc \in [Borrowers -> BorrowerPoints]
  /\ keeper \in {"none", "top", "asleep", "woken", "closing", "announcing", "ended"}
  /\ reserved \in Nat
  /\ expired \in Nat
  /\ owner \in {"ready", "starting", "spawning", "waking", "joining",
                "draining", "asleep", "done"}
  /\ dropping \in Nat
  /\ drained \in BOOLEAN
  /\ mishaps \in 0..MaxMishaps
  /\ keeperFailed \in BOOLEAN

\* The four counters agree with where the connections really are, although
\* each is adjusted in another critical section than the one that moves the
\* connection: nothing leaks and nothing is counted twice.
Accounting ==
  /\ total = idle + borrowed
  /\ borrowed = Cardinality(In(Holding))
  /\ creating = Cardinality(At("creating")) + reserved
                  + (IF owner = "starting" THEN MinConns ELSE 0)

\* max_connections bounds the connections in the pool and those on their way
\* into it, whoever creates them.
WithinLimit == total + creating <= MaxConns

\* As long as borrowers sleep, whatever they could take (an idle connection
\* or a free slot) is matched by a notification under way or by a borrower
\* that is awake; a closing pool leaves no borrower asleep.
BorrowerWakeup ==
  IF state = "Running"
  THEN Least(idle + MaxConns - (total + creating), Cardinality(At("waiting")))
         <= Cardinality(In({"locking", "discarding", "failing", "returned", "closing"}))
              + (IF keeper = "announcing" THEN 1 ELSE 0)
  ELSE At("waiting") = {} \/ owner = "waking"

\* That holds up to the first failed creation by the maintenance thread.
BorrowerWakeupUntilKeeperFails == keeperFailed \/ BorrowerWakeup

\* shutdownFor() does not sleep through the end of the last lease or creation.
OwnerWakeup ==
  owner = "asleep" /\ NothingOut =>
    In({"discarding", "failing", "late", "returned", "closing"}) # {}

\* When shutdownFor() has returned true the pool is empty and stays so.
DrainedIsEmpty ==
  owner = "done" /\ drained =>
    total = 0 /\ creating = 0 /\ At("lease") = {}

\* What the pool says of itself is true at every moment, also outside the
\* critical sections: counters, limit and the empty pool after a shutdown.
Bookkeeping == TypeOK /\ Accounting /\ WithinLimit /\ DrainedIsEmpty

\* Nobody sleeps on the pool who could go on: no borrower, up to the failure
\* that BorrowerWakeup is about, and not the thread that shuts it down.
Wakeups == BorrowerWakeupUntilKeeperFails /\ OwnerWakeup

\* If leases are given back, every waiting borrower is served or turned away,
\* without any deadline passing.
WaitersProceed ==
  LeasesReturn =>
    \A b \in Borrowers : pc[b] = "waiting" ~> pc[b] \notin {"waiting", "locking"}

\* A running pool gets its minimum of connections back after every failure.
MinimumRestored == state = "Running" ~> state # "Running" \/ total >= MinConns

\* start() and shutdownFor() return, even if some lease never comes back.
OwnerProceeds == owner # "ready" ~> owner \in {"ready", "done"}

=============================================================================
