------------------------ MODULE ConnectionPoolProofs ------------------------
(***************************************************************************)
(* The books and wake-ups of ConnectionPool, for any number of borrowers,  *)
(* any limits the constructor accepts and any number of failures.          *)
(*                                                                         *)
(* Accounting alone is not inductive.  start() and the maintenance thread  *)
(* count connections before they exist, so one has to know that nobody     *)
(* borrows before start() has returned (BeforeStart), that the maintenance *)
(* thread reserves nothing on top of what it still has to create           *)
(* (ReservationIsUnderway), and that a pool that is closed has nothing to  *)
(* lend (ClosedHasNoIdle).                                                 *)
(***************************************************************************)
EXTENDS ConnectionPool, FiniteSetTheorems, TLAPS

ReservationIsUnderway == reserved > 0 => keeper \in {"closing", "announcing"}

\* Where the owning thread is agrees with the state of the pool.
LifeCycle ==
  /\ owner = "starting" <=> state = "Starting"
  /\ owner = "spawning" => state = "Running"
  /\ owner \in {"waking", "joining", "draining", "asleep"} => state = "Stopping"
  /\ owner = "done" => state = "Stopped"
  /\ state = "Created" => owner = "ready"

Unopened == state \in {"Created", "Starting"} \/ owner = "spawning"

BeforeStart ==
  Unopened =>
    /\ \A b \in Borrowers : pc[b] = "new"
    /\ keeper = "none"
    /\ reserved = 0

ClosedHasNoIdle == state # "Running" => idle = 0

DrainedStays == owner = "done" /\ drained => NothingOut

PoolInv ==
  /\ TypeOK
  /\ Accounting
  /\ WithinLimit
  /\ ReservationIsUnderway
  /\ LifeCycle
  /\ BeforeStart
  /\ ClosedHasNoIdle
  /\ DrainedStays

-----------------------------------------------------------------------------
(* Counting borrowers.                                                     *)

LEMMA CountIsNat ==
  ASSUME NEW P
  PROVE  IsFiniteSet(In(P)) /\ Cardinality(In(P)) \in Nat
  <1>1. In(P) \in SUBSET Borrowers
    BY DEF In
  <1>2. QED
    BY <1>1, BoundsAssumption, FS_Subset, FS_CardinalityType

\* Borrower b goes to point p, and may wake others on its way.
Moved(b, p) ==
  /\ pc' \in [Borrowers -> BorrowerPoints]
  /\ pc'[b] = p
  /\ \A c \in Borrowers \ {b} :
       pc'[c] = pc[c] \/ (pc[c] = "waiting" /\ pc'[c] = "locking")

LEMMA Moving ==
  ASSUME TypeOK, NEW b \in Borrowers, NEW p \in BorrowerPoints, pc[b] # "waiting",
         \/ MoveSilently(b, p)
         \/ MoveAndNotify(b, p)
         \/ pc' = [AllWaitersWoken EXCEPT ![b] = p]
  PROVE  Moved(b, p)
  <1>1. CASE MoveSilently(b, p)
    BY <1>1 DEF TypeOK, MoveSilently, Moved
  <1>2. CASE MoveAndNotify(b, p)
    BY <1>2 DEF TypeOK, MoveAndNotify, Moved, At, BorrowerPoints
  <1>3. CASE pc' = [AllWaitersWoken EXCEPT ![b] = p]
    BY <1>3 DEF TypeOK, AllWaitersWoken, Moved, BorrowerPoints
  <1>4. QED
    BY <1>1, <1>2, <1>3

\* What that does to the number of borrowers at the points of P.
LEMMA Counting ==
  ASSUME TypeOK, NEW b \in Borrowers, NEW p, Moved(b, p),
         NEW P, "waiting" \in P <=> "locking" \in P
  PROVE  /\ (pc[b] \in P <=> p \in P) => In(P)' = In(P)
         /\ pc[b] \notin P /\ p \in P =>
              Cardinality(In(P)') = Cardinality(In(P)) + 1
         /\ pc[b] \in P /\ p \notin P =>
              Cardinality(In(P)') = Cardinality(In(P)) - 1
  <1>1. \A c \in Borrowers \ {b} : pc'[c] \in P <=> pc[c] \in P
    BY DEF Moved
  <1>2. pc'[b] = p
    BY DEF Moved
  <1>3. ASSUME pc[b] \in P <=> p \in P PROVE In(P)' = In(P)
    BY <1>1, <1>2, <1>3 DEF In
  <1>4. ASSUME pc[b] \notin P, p \in P
        PROVE  Cardinality(In(P)') = Cardinality(In(P)) + 1
    <2>1. In(P)' = In(P) \cup {b} /\ b \notin In(P)
      BY <1>1, <1>2, <1>4 DEF In
    <2>2. QED
      BY <2>1, CountIsNat, FS_AddElement
  <1>5. ASSUME pc[b] \in P, p \notin P
        PROVE  Cardinality(In(P)') = Cardinality(In(P)) - 1
    <2>1. In(P)' = In(P) \ {b} /\ b \in In(P)
      BY <1>1, <1>2, <1>5 DEF In
    <2>2. QED
      BY <2>1, CountIsNat, FS_RemoveElement
  <1>6. QED
    BY <1>3, <1>4, <1>5

\* The two numbers the books depend on.
Held    == Cardinality(In(Holding))
Opening == Cardinality(At("creating"))

LEMMA HeldAndOpening ==
  /\ Held \in Nat
  /\ Opening \in Nat
  <1>1. At("creating") = In({"creating"})
    BY DEF At, In
  <1>2. QED
    BY <1>1, CountIsNat DEF Held, Opening

LEMMA MovedCounts ==
  ASSUME TypeOK, NEW b \in Borrowers, NEW p, Moved(b, p)
  PROVE  /\ Held' = Held + (IF p \in Holding THEN 1 ELSE 0)
                         - (IF pc[b] \in Holding THEN 1 ELSE 0)
         /\ Opening' = Opening + (IF p = "creating" THEN 1 ELSE 0)
                               - (IF pc[b] = "creating" THEN 1 ELSE 0)
         /\ pc[b] \in Holding => Held > 0
         /\ pc[b] = "creating" => Opening > 0
  <1>1. At("creating") = In({"creating"}) /\ At("creating")' = In({"creating"})'
    BY DEF At, In
  <1>2. Cardinality(In(Holding)) \in Nat /\ Cardinality(In({"creating"})) \in Nat
    BY CountIsNat
  <1>3. /\ "waiting" \notin Holding /\ "locking" \notin Holding
        /\ "waiting" \notin {"creating"} /\ "locking" \notin {"creating"}
    BY DEF Holding
  <1>4. Cardinality(In(Holding)') = Cardinality(In(Holding))
                                      + (IF p \in Holding THEN 1 ELSE 0)
                                      - (IF pc[b] \in Holding THEN 1 ELSE 0)
    BY <1>2, <1>3, Counting
  <1>5. Cardinality(In({"creating"})') = Cardinality(In({"creating"}))
                                      + (IF p = "creating" THEN 1 ELSE 0)
                                      - (IF pc[b] = "creating" THEN 1 ELSE 0)
    BY <1>2, <1>3, Counting
  <1>6. \A P : b \in In(P) => Cardinality(In(P)) > 0
    BY CountIsNat, FS_EmptySet
  <1>7. (pc[b] \in Holding => Held > 0) /\ (pc[b] = "creating" => Opening > 0)
    BY <1>1, <1>6 DEF Held, Opening, In
  <1>8. QED
    BY <1>1, <1>2, <1>4, <1>5, <1>7 DEF Held, Opening

\* The maintenance thread and the owner move no borrower but the sleeping ones.
LEMMA NobodyMoved ==
  ASSUME TypeOK,
         \/ pc' = pc
         \/ \E v \in At("waiting") : pc' = [pc EXCEPT ![v] = "locking"]
         \/ pc' = AllWaitersWoken
  PROVE  /\ pc' \in [Borrowers -> BorrowerPoints]
         /\ In(Holding)' = In(Holding)
         /\ At("creating")' = At("creating")
  BY DEF TypeOK, At, In, Holding, AllWaitersWoken, BorrowerPoints

\* Once somebody has called acquire(), start() has returned.
LEMMA Opened ==
  ASSUME PoolInv, NEW b \in Borrowers, pc[b] # "new"
  PROVE  ~Unopened
  BY DEF PoolInv, BeforeStart

-----------------------------------------------------------------------------
(* Steps that leave the books alone.                                       *)

\* Notifications only wake who sleeps.
Notified ==
  /\ keeper' = keeper \/ (keeper = "asleep" /\ keeper' = "woken")
  /\ owner' = owner \/ (owner = "asleep" /\ owner' = "draining")

LEMMA QuietStep ==
  ASSUME PoolInv,
         pc' \in [Borrowers -> BorrowerPoints],
         In(Holding)' = In(Holding), At("creating")' = At("creating"),
         pc' = pc \/ ~Unopened,
         Notified,
         UNCHANGED <<poolVars, reserved, expired, dropping, drained, mishaps, keeperFailed>>
  PROVE  PoolInv'
  <1>1. TypeOK'
    BY DEF PoolInv, TypeOK, Notified, poolVars
  <1>2. Accounting' /\ WithinLimit'
    BY DEF PoolInv, Accounting, WithinLimit, LifeCycle, Notified, poolVars
  <1>3. ReservationIsUnderway' /\ LifeCycle' /\ ClosedHasNoIdle' /\ DrainedStays'
    BY DEF PoolInv, ReservationIsUnderway, LifeCycle, ClosedHasNoIdle, DrainedStays,
           NothingOut, Notified, poolVars
  <1>4. BeforeStart'
    BY DEF PoolInv, BeforeStart, Unopened, LifeCycle, Notified, poolVars
  <1>5. QED
    BY <1>1, <1>2, <1>3, <1>4 DEF PoolInv

\* A borrower goes on without a connection changing its place.
LEMMA QuietBorrower ==
  ASSUME PoolInv, NEW b \in Borrowers, NEW p, Moved(b, p),
         pc[b] \in Holding <=> p \in Holding,
         pc[b] = "creating" <=> p = "creating",
         ~Unopened, Notified,
         UNCHANGED <<poolVars, reserved, expired, dropping, drained, mishaps, keeperFailed>>
  PROVE  PoolInv'
  <1>1. TypeOK /\ pc' \in [Borrowers -> BorrowerPoints]
    BY DEF PoolInv, Moved
  <1>2. In(Holding)' = In(Holding)
    BY <1>1, Counting DEF Holding
  <1>3. In({"creating"})' = In({"creating"})
    BY <1>1, Counting
  <1>4. At("creating")' = At("creating")
    BY <1>3 DEF In, At
  <1>5. QED
    BY <1>1, <1>2, <1>4, QuietStep

LEMMA QuietBorrowerSteps ==
  ASSUME PoolInv, NEW b \in Borrowers,
         \/ Acquire(b) \/ AcquireStopped(b) \/ CheckSucceeds(b) \/ Discarded(b)
         \/ CreationFailed(b) \/ CreatedTooLate(b) \/ Wait(b)
         \/ Returned(b) \/ Closed(b)
  PROVE  PoolInv'
  <1>1. TypeOK /\ LifeCycle /\ pc \in [Borrowers -> BorrowerPoints]
    BY DEF PoolInv, TypeOK
  <1>2. CASE Acquire(b)
    <2>1. Moved(b, "locking") /\ pc[b] = "new"
      BY <1>1, <1>2, Moving DEF Acquire, MoveSilently, BorrowerPoints
    <2>2. ~Unopened /\ Notified
      BY <1>1, <1>2 DEF Acquire, LifeCycle, Unopened, Notified, keeperVars, ownerVars
    <2>3. QED
      BY <1>2, <2>1, <2>2, QuietBorrower DEF Acquire, Holding, keeperVars, ownerVars
  <1>3. CASE AcquireStopped(b)
    <2>1. Moved(b, "done") /\ pc[b] = "locking"
      BY <1>1, <1>3, Moving DEF AcquireStopped, MoveSilently, BorrowerPoints
    <2>2. ~Unopened /\ Notified
      BY <2>1, <1>3, Opened
      DEF AcquireStopped, Notified, NotifyKeeper, NotifyOwner, keeperVars, ownerVars
    <2>3. QED
      BY <1>3, <2>1, <2>2, QuietBorrower DEF AcquireStopped, Holding, keeperVars, ownerVars
  <1>4. CASE CheckSucceeds(b)
    <2>1. Moved(b, "lease") /\ pc[b] = "checking"
      BY <1>1, <1>4, Moving DEF CheckSucceeds, MoveSilently, BorrowerPoints
    <2>2. ~Unopened /\ Notified
      BY <2>1, <1>4, Opened
      DEF CheckSucceeds, Notified, NotifyKeeper, NotifyOwner, keeperVars, ownerVars
    <2>3. QED
      BY <1>4, <2>1, <2>2, QuietBorrower DEF CheckSucceeds, Holding, keeperVars, ownerVars
  <1>5. CASE Discarded(b)
    <2>1. Moved(b, "locking") /\ pc[b] = "discarding"
      BY <1>1, <1>5, Moving DEF Discarded, BorrowerPoints
    <2>2. ~Unopened /\ Notified
      BY <2>1, <1>5, Opened
      DEF Discarded, Notified, NotifyKeeper, NotifyOwner, keeperVars, ownerVars
    <2>3. QED
      BY <1>5, <2>1, <2>2, QuietBorrower DEF Discarded, Holding, keeperVars, ownerVars
  <1>6. CASE CreationFailed(b)
    <2>1. Moved(b, "done") /\ pc[b] = "failing"
      BY <1>1, <1>6, Moving DEF CreationFailed, BorrowerPoints
    <2>2. ~Unopened /\ Notified
      BY <2>1, <1>6, Opened
      DEF CreationFailed, Notified, NotifyKeeper, NotifyOwner, keeperVars, ownerVars
    <2>3. QED
      BY <1>6, <2>1, <2>2, QuietBorrower DEF CreationFailed, Holding, keeperVars, ownerVars
  <1>7. CASE CreatedTooLate(b)
    <2>1. Moved(b, "done") /\ pc[b] = "late"
      BY <1>1, <1>7, Moving DEF CreatedTooLate, BorrowerPoints
    <2>2. ~Unopened /\ Notified
      BY <2>1, <1>7, Opened
      DEF CreatedTooLate, Notified, NotifyKeeper, NotifyOwner, keeperVars, ownerVars
    <2>3. QED
      BY <1>7, <2>1, <2>2, QuietBorrower DEF CreatedTooLate, Holding, keeperVars, ownerVars
  <1>8. CASE Wait(b)
    <2>1. Moved(b, "waiting") /\ pc[b] = "locking"
      BY <1>1, <1>8, Moving DEF Wait, MoveSilently, BorrowerPoints
    <2>2. ~Unopened /\ Notified
      BY <2>1, <1>8, Opened
      DEF Wait, Notified, NotifyKeeper, NotifyOwner, keeperVars, ownerVars
    <2>3. QED
      BY <1>8, <2>1, <2>2, QuietBorrower DEF Wait, Holding, keeperVars, ownerVars
  <1>9. CASE Returned(b)
    <2>1. Moved(b, "done") /\ pc[b] = "returned"
      BY <1>1, <1>9, Moving DEF Returned, BorrowerPoints
    <2>2. ~Unopened /\ Notified
      BY <2>1, <1>9, Opened
      DEF Returned, Notified, NotifyKeeper, NotifyOwner, keeperVars, ownerVars
    <2>3. QED
      BY <1>9, <2>1, <2>2, QuietBorrower DEF Returned, Holding, keeperVars, ownerVars
  <1>10. CASE Closed(b)
    <2>1. Moved(b, "done") /\ pc[b] = "closing"
      BY <1>1, <1>10, Moving DEF Closed, BorrowerPoints
    <2>2. ~Unopened /\ Notified
      BY <2>1, <1>10, Opened
      DEF Closed, Notified, NotifyKeeper, NotifyOwner, keeperVars, ownerVars
    <2>3. QED
      BY <1>10, <2>1, <2>2, QuietBorrower DEF Closed, Holding, keeperVars, ownerVars
  <1>11. QED
    BY <1>2, <1>3, <1>4, <1>5, <1>6, <1>7, <1>8, <1>9, <1>10

\* The deadline of a sleeping borrower passes.
LEMMA WaitTimeoutStep ==
  ASSUME PoolInv, NEW b \in Borrowers, WaitTimeout(b)
  PROVE  PoolInv'
  <1>1. /\ pc' \in [Borrowers -> BorrowerPoints]
        /\ In(Holding)' = In(Holding) /\ At("creating")' = At("creating")
    BY DEF PoolInv, TypeOK, WaitTimeout, In, At, Holding, BorrowerPoints
  <1>2. ~Unopened
    BY Opened DEF WaitTimeout
  <1>3. QED
    BY <1>1, <1>2, QuietStep DEF WaitTimeout, Notified, keeperVars, ownerVars

-----------------------------------------------------------------------------
(* Borrowers that move connections.                                        *)

\* The books are right again once the numbers agree.
LEMMA Lending ==
  ASSUME PoolInv, ~Unopened, NEW b \in Borrowers, NEW p, Moved(b, p),
         UNCHANGED <<state, keeper, reserved, expired, dropping, drained, keeperFailed>>,
         Notified,
         mishaps' \in 0..MaxMishaps,
         idle' \in Nat, total' \in Nat, borrowed' \in Nat, creating' \in Nat,
         total' = idle' + borrowed', borrowed' = Held', creating' = Opening' + reserved,
         total' + creating' <= MaxConns,
         state # "Running" =>
           idle' = 0 /\ borrowed' <= borrowed /\ creating' <= creating
  PROVE  PoolInv'
  <1>1. TypeOK'
    BY DEF PoolInv, TypeOK, Moved, Notified
  <1>2. ~Unopened' /\ owner' # "starting"
    BY DEF PoolInv, LifeCycle, Unopened, Notified
  <1>3. Accounting' /\ WithinLimit' /\ BeforeStart'
    BY <1>2 DEF Accounting, WithinLimit, BeforeStart, Held, Opening
  <1>4. ReservationIsUnderway' /\ LifeCycle' /\ ClosedHasNoIdle'
    BY DEF PoolInv, ReservationIsUnderway, LifeCycle, ClosedHasNoIdle, Notified
  <1>5. DrainedStays'
    BY DEF PoolInv, DrainedStays, NothingOut, LifeCycle, TypeOK, Notified
  <1>6. QED
    BY <1>1, <1>3, <1>4, <1>5 DEF PoolInv

LEMMA LendingSteps ==
  ASSUME PoolInv, NEW b \in Borrowers,
         \/ TakeIdle(b) \/ CheckFails(b) \/ BeginCreate(b) \/ CreateSucceeds(b)
         \/ CreateFails(b) \/ CreateTooLate(b) \/ Return(b) \/ GiveUp(b)
  PROVE  PoolInv'
  <1>1. TypeOK /\ pc[b] # "waiting" /\ pc[b] # "new"
    BY DEF PoolInv, TakeIdle, CheckFails, BeginCreate, CreateSucceeds, CreateFails,
           CreateTooLate, Return, GiveUp
  <1>2. ~Unopened /\ Held \in Nat /\ Opening \in Nat
    BY <1>1, Opened, HeldAndOpening
  <1>3. /\ idle \in Nat /\ total \in Nat /\ borrowed \in Nat /\ creating \in Nat
        /\ reserved \in Nat /\ mishaps \in Nat
        /\ total = idle + borrowed /\ borrowed = Held /\ creating = Opening + reserved
        /\ total + creating <= MaxConns
        /\ state # "Running" => idle = 0
    BY <1>2 DEF PoolInv, TypeOK, Accounting, WithinLimit, ClosedHasNoIdle, LifeCycle,
                Unopened, Held, Opening
  <1>4. mishaps \in 0..MaxMishaps /\ MaxMishaps \in Nat /\ MaxConns \in Nat
    BY BoundsAssumption, OptionsAssumption DEF PoolInv, TypeOK
  <1>5. Mishap => mishaps' \in 0..MaxMishaps
    BY <1>3, <1>4 DEF Mishap
  <1>6. CASE TakeIdle(b)
    <2>1. Moved(b, "checking") /\ pc[b] = "locking"
      BY <1>1, <1>6, Moving DEF TakeIdle, MoveSilently, BorrowerPoints
    <2>2. /\ Held' = Held + (IF "checking" \in Holding THEN 1 ELSE 0)
                          - (IF pc[b] \in Holding THEN 1 ELSE 0)
          /\ Opening' = Opening + (IF "checking" = "creating" THEN 1 ELSE 0)
                                - (IF pc[b] = "creating" THEN 1 ELSE 0)
          /\ pc[b] \in Holding => Held > 0
          /\ pc[b] = "creating" => Opening > 0
      BY <1>1, <2>1, MovedCounts
    <2>3. QED
      BY <1>2, <1>3, <1>4, <1>5, <1>6, <2>1, <2>2, Lending
      DEF TakeIdle, Holding, Notified, keeperVars, ownerVars
  <1>7. CASE CheckFails(b)
    <2>1. Moved(b, "discarding") /\ pc[b] = "checking"
      BY <1>1, <1>7, Moving DEF CheckFails, MoveSilently, BorrowerPoints
    <2>2. /\ Held' = Held + (IF "discarding" \in Holding THEN 1 ELSE 0)
                          - (IF pc[b] \in Holding THEN 1 ELSE 0)
          /\ Opening' = Opening + (IF "discarding" = "creating" THEN 1 ELSE 0)
                                - (IF pc[b] = "creating" THEN 1 ELSE 0)
          /\ pc[b] \in Holding => Held > 0
          /\ pc[b] = "creating" => Opening > 0
      BY <1>1, <2>1, MovedCounts
    <2>3. QED
      BY <1>2, <1>3, <1>4, <1>5, <1>7, <2>1, <2>2, Lending
      DEF CheckFails, Holding, Notified, keeperVars, ownerVars
  <1>8. CASE BeginCreate(b)
    <2>1. Moved(b, "creating") /\ pc[b] = "locking"
      BY <1>1, <1>8, Moving DEF BeginCreate, MoveSilently, BorrowerPoints
    <2>2. /\ Held' = Held + (IF "creating" \in Holding THEN 1 ELSE 0)
                          - (IF pc[b] \in Holding THEN 1 ELSE 0)
          /\ Opening' = Opening + (IF "creating" = "creating" THEN 1 ELSE 0)
                                - (IF pc[b] = "creating" THEN 1 ELSE 0)
          /\ pc[b] \in Holding => Held > 0
          /\ pc[b] = "creating" => Opening > 0
      BY <1>1, <2>1, MovedCounts
    <2>3. QED
      BY <1>2, <1>3, <1>4, <1>5, <1>8, <2>1, <2>2, Lending
      DEF BeginCreate, FreeSlot, Holding, Notified, keeperVars, ownerVars
  <1>9. CASE CreateSucceeds(b)
    <2>1. Moved(b, "lease") /\ pc[b] = "creating"
      BY <1>1, <1>9, Moving DEF CreateSucceeds, MoveSilently, BorrowerPoints
    <2>2. /\ Held' = Held + (IF "lease" \in Holding THEN 1 ELSE 0)
                          - (IF pc[b] \in Holding THEN 1 ELSE 0)
          /\ Opening' = Opening + (IF "lease" = "creating" THEN 1 ELSE 0)
                                - (IF pc[b] = "creating" THEN 1 ELSE 0)
          /\ pc[b] \in Holding => Held > 0
          /\ pc[b] = "creating" => Opening > 0
      BY <1>1, <2>1, MovedCounts
    <2>3. QED
      BY <1>2, <1>3, <1>4, <1>5, <1>9, <2>1, <2>2, Lending
      DEF CreateSucceeds, NotifyOwner, Holding, Notified, keeperVars, ownerVars
  <1>10. CASE CreateFails(b)
    <2>1. Moved(b, "failing") /\ pc[b] = "creating"
      BY <1>1, <1>10, Moving DEF CreateFails, MoveSilently, BorrowerPoints
    <2>2. /\ Held' = Held + (IF "failing" \in Holding THEN 1 ELSE 0)
                          - (IF pc[b] \in Holding THEN 1 ELSE 0)
          /\ Opening' = Opening + (IF "failing" = "creating" THEN 1 ELSE 0)
                                - (IF pc[b] = "creating" THEN 1 ELSE 0)
          /\ pc[b] \in Holding => Held > 0
          /\ pc[b] = "creating" => Opening > 0
      BY <1>1, <2>1, MovedCounts
    <2>3. QED
      BY <1>2, <1>3, <1>4, <1>5, <1>10, <2>1, <2>2, Lending
      DEF CreateFails, Holding, Notified, keeperVars, ownerVars
  <1>11. CASE CreateTooLate(b)
    <2>1. Moved(b, "late") /\ pc[b] = "creating"
      BY <1>1, <1>11, Moving DEF CreateTooLate, MoveSilently, BorrowerPoints
    <2>2. /\ Held' = Held + (IF "late" \in Holding THEN 1 ELSE 0)
                          - (IF pc[b] \in Holding THEN 1 ELSE 0)
          /\ Opening' = Opening + (IF "late" = "creating" THEN 1 ELSE 0)
                                - (IF pc[b] = "creating" THEN 1 ELSE 0)
          /\ pc[b] \in Holding => Held > 0
          /\ pc[b] = "creating" => Opening > 0
      BY <1>1, <2>1, MovedCounts
    <2>3. QED
      BY <1>2, <1>3, <1>4, <1>5, <1>11, <2>1, <2>2, Lending
      DEF CreateTooLate, Holding, Notified, keeperVars, ownerVars
  <1>12. CASE Return(b)
    <2>1. Moved(b, "returned") /\ pc[b] = "lease"
      BY <1>1, <1>12, Moving DEF Return, MoveSilently, BorrowerPoints
    <2>2. /\ Held' = Held + (IF "returned" \in Holding THEN 1 ELSE 0)
                          - (IF pc[b] \in Holding THEN 1 ELSE 0)
          /\ Opening' = Opening + (IF "returned" = "creating" THEN 1 ELSE 0)
                                - (IF pc[b] = "creating" THEN 1 ELSE 0)
          /\ pc[b] \in Holding => Held > 0
          /\ pc[b] = "creating" => Opening > 0
      BY <1>1, <2>1, MovedCounts
    <2>3. QED
      BY <1>2, <1>3, <1>4, <1>5, <1>12, <2>1, <2>2, Lending
      DEF Return, Holding, Notified, keeperVars, ownerVars
  <1>13. CASE GiveUp(b)
    <2>1. Moved(b, "closing") /\ pc[b] = "lease"
      BY <1>1, <1>13, Moving DEF GiveUp, MoveSilently, BorrowerPoints
    <2>2. /\ Held' = Held + (IF "closing" \in Holding THEN 1 ELSE 0)
                          - (IF pc[b] \in Holding THEN 1 ELSE 0)
          /\ Opening' = Opening + (IF "closing" = "creating" THEN 1 ELSE 0)
                                - (IF pc[b] = "creating" THEN 1 ELSE 0)
          /\ pc[b] \in Holding => Held > 0
          /\ pc[b] = "creating" => Opening > 0
      BY <1>1, <2>1, MovedCounts
    <2>3. QED
      BY <1>2, <1>3, <1>4, <1>5, <1>13, <2>1, <2>2, Lending
      DEF GiveUp, Holding, Notified, keeperVars, ownerVars
  <1>14. QED
    BY <1>6, <1>7, <1>8, <1>9, <1>10, <1>11, <1>12, <1>13

-----------------------------------------------------------------------------
(* The maintenance thread.                                                 *)

\* What the books say while no borrower moves.
LEMMA Books ==
  ASSUME PoolInv
  PROVE  /\ idle \in Nat /\ total \in Nat /\ borrowed \in Nat /\ creating \in Nat
         /\ reserved \in Nat /\ Held \in Nat /\ Opening \in Nat
         /\ total = idle + borrowed /\ borrowed = Held
         /\ creating = Opening + reserved + (IF owner = "starting" THEN MinConns ELSE 0)
         /\ total + creating <= MaxConns
         /\ MaxConns \in Nat /\ MinConns \in Nat /\ MaxMishaps \in Nat
         /\ mishaps \in 0..MaxMishaps
  BY HeldAndOpening, OptionsAssumption, BoundsAssumption
  DEF PoolInv, TypeOK, Accounting, WithinLimit, Held, Opening

LEMMA NobodyCounted ==
  ASSUME TypeOK,
         \/ pc' = pc
         \/ \E v \in At("waiting") : pc' = [pc EXCEPT ![v] = "locking"]
         \/ pc' = AllWaitersWoken
  PROVE  /\ pc' \in [Borrowers -> BorrowerPoints]
         /\ Held' = Held /\ Opening' = Opening
  BY NobodyMoved DEF Held, Opening

LEMMA QuietKeeperSteps ==
  ASSUME PoolInv, KeeperSleeps \/ KeeperEnds \/ KeeperTimeout \/ KeeperCloses \/ KeeperAnnounces
  PROVE  PoolInv'
  <1>1. TypeOK /\ ~Unopened
    BY DEF PoolInv, BeforeStart, KeeperSleeps, KeeperEnds, KeeperTimeout, KeeperCloses,
           KeeperAnnounces
  <1>2. /\ pc' \in [Borrowers -> BorrowerPoints] /\ Held' = Held /\ Opening' = Opening
        /\ UNCHANGED <<poolVars, reserved, dropping, drained, mishaps, keeperFailed>>
        /\ expired' \in Nat
        /\ owner' = owner \/ (owner = "asleep" /\ owner' = "draining")
    BY <1>1, NobodyCounted
    DEF TypeOK, KeeperSleeps, KeeperEnds, KeeperTimeout, KeeperCloses, KeeperAnnounces,
        NotifyOwner, ownerVars
  <1>3. /\ keeper' \in {"top", "asleep", "woken", "closing", "ended"}
        /\ reserved > 0 => keeper' = "closing"
    BY Books DEF PoolInv, ReservationIsUnderway, KeeperSleeps, KeeperEnds, KeeperTimeout,
           KeeperCloses, KeeperAnnounces
  <1>4. TypeOK'
    BY <1>2, <1>3 DEF PoolInv, TypeOK, poolVars
  <1>5. Accounting' /\ WithinLimit' /\ BeforeStart'
    BY <1>1, <1>2 DEF PoolInv, Accounting, WithinLimit, BeforeStart, LifeCycle, Unopened,
           poolVars, Held, Opening
  <1>6. ReservationIsUnderway' /\ LifeCycle' /\ ClosedHasNoIdle' /\ DrainedStays'
    BY <1>2, <1>3 DEF PoolInv, ReservationIsUnderway, LifeCycle, ClosedHasNoIdle,
           DrainedStays, NothingOut, poolVars
  <1>7. QED
    BY <1>4, <1>5, <1>6 DEF PoolInv

LEMMA KeeperExpiresStep == PoolInv /\ KeeperExpires => PoolInv'
  <1> SUFFICES ASSUME PoolInv, KeeperExpires PROVE PoolInv'
    OBVIOUS
  <1>1. TypeOK /\ ~Unopened /\ reserved = 0
    BY Books DEF PoolInv, BeforeStart, ReservationIsUnderway, KeeperExpires
  <1>2. pc' \in [Borrowers -> BorrowerPoints] /\ Held' = Held /\ Opening' = Opening
    BY <1>1, NobodyCounted DEF KeeperExpires
  <1>3. PICK n \in 1..Expirable :
          expired' = n /\ idle' = idle - n /\ total' = total - n
    BY DEF KeeperExpires
  <1>4. n \in Nat /\ n <= idle /\ n <= total
    BY <1>3, Books DEF Expirable, Least, KeeperExpires
  <1>5. TypeOK'
    BY <1>2, <1>3, <1>4, Books DEF PoolInv, TypeOK, KeeperExpires, ownerVars
  <1>6. Accounting' /\ WithinLimit' /\ BeforeStart'
    BY <1>1, <1>2, <1>3, <1>4, Books
    DEF PoolInv, Accounting, WithinLimit, BeforeStart, Unopened, KeeperExpires, ownerVars,
        Held, Opening
  <1>7. ReservationIsUnderway' /\ LifeCycle' /\ ClosedHasNoIdle' /\ DrainedStays'
    BY <1>1, <1>3 DEF PoolInv, ReservationIsUnderway, LifeCycle, ClosedHasNoIdle,
           DrainedStays, NothingOut, KeeperExpires, ownerVars
  <1>8. QED
    BY <1>5, <1>6, <1>7 DEF PoolInv

LEMMA KeeperCreationSteps ==
  ASSUME PoolInv, KeeperReserves \/ KeeperCreateFails \/ KeeperCreates
  PROVE  PoolInv'
  <1>1. TypeOK /\ ~Unopened
    BY DEF PoolInv, BeforeStart, KeeperReserves, KeeperCreateFails, KeeperCreates
  <1>2. pc' \in [Borrowers -> BorrowerPoints] /\ Held' = Held /\ Opening' = Opening
    BY <1>1, NobodyCounted DEF KeeperReserves, KeeperCreateFails, KeeperCreates
  <1>3. /\ idle' \in Nat /\ total' \in Nat /\ creating' \in Nat /\ reserved' \in Nat
        /\ borrowed' = borrowed /\ state' = state
        /\ total' = idle' + borrowed' /\ creating' = Opening' + reserved'
        /\ total' + creating' <= MaxConns
        /\ mishaps' \in 0..MaxMishaps /\ keeperFailed' \in BOOLEAN
        /\ keeper' \in {"closing", "announcing"}
        /\ UNCHANGED <<expired, dropping, drained>>
        /\ owner' = owner \/ (owner = "asleep" /\ owner' = "draining")
        /\ state # "Running" => idle' = idle /\ creating' <= creating
    <2>1. owner # "starting"
      BY <1>1 DEF PoolInv, LifeCycle, Unopened
    <2>2. CASE KeeperReserves
      <3>1. reserved = 0
        BY <2>2, Books DEF PoolInv, ReservationIsUnderway, KeeperReserves
      <3>2. QED
        BY <1>2, <2>1, <2>2, <3>1, Books, OptionsAssumption
        DEF PoolInv, TypeOK, KeeperReserves, BelowMinimum, ReserveMissing, ownerVars
    <2>3. CASE KeeperCreateFails
      BY <1>2, <2>1, <2>3, Books DEF PoolInv, TypeOK, KeeperCreateFails, Mishap, NotifyOwner
    <2>4. CASE KeeperCreates
      BY <1>2, <2>1, <2>4, Books DEF PoolInv, TypeOK, KeeperCreates, ownerVars
    <2>5. QED
      BY <2>2, <2>3, <2>4
  <1>4. TypeOK'
    BY <1>2, <1>3 DEF PoolInv, TypeOK
  <1>5. ~Unopened' /\ owner' # "starting"
    BY <1>1, <1>3 DEF PoolInv, LifeCycle, Unopened
  <1>6. Accounting' /\ WithinLimit' /\ BeforeStart'
    BY <1>2, <1>3, <1>5, Books DEF Accounting, WithinLimit, BeforeStart, Held, Opening
  <1>7. ReservationIsUnderway' /\ LifeCycle' /\ ClosedHasNoIdle'
    BY <1>3 DEF PoolInv, ReservationIsUnderway, LifeCycle, ClosedHasNoIdle
  <1>8. DrainedStays'
    BY <1>3, Books DEF PoolInv, DrainedStays, NothingOut, LifeCycle
  <1>9. QED
    BY <1>4, <1>6, <1>7, <1>8 DEF PoolInv

-----------------------------------------------------------------------------
(* start() and shutdownFor().                                              *)

LEMMA InitPool == Init => PoolInv
  <1> SUFFICES ASSUME Init PROVE PoolInv
    OBVIOUS
  <1>1. In(Holding) = {} /\ At("creating") = {}
    BY DEF Init, In, At, Holding
  <1>2. Cardinality({}) = 0
    BY FS_EmptySet
  <1>3. TypeOK
    <2>1. 0 \in 0..MaxMishaps
      BY BoundsAssumption
    <2>2. QED
      BY <2>1 DEF Init, TypeOK, BorrowerPoints
  <1>4. Accounting /\ WithinLimit
    BY <1>1, <1>2, OptionsAssumption DEF Init, Accounting, WithinLimit
  <1>5. ReservationIsUnderway /\ LifeCycle /\ BeforeStart /\ ClosedHasNoIdle /\ DrainedStays
    BY DEF Init, ReservationIsUnderway, LifeCycle, BeforeStart, ClosedHasNoIdle, DrainedStays
  <1>6. QED
    BY <1>3, <1>4, <1>5 DEF PoolInv

\* Before start() has returned no borrower has anything.
LEMMA UnopenedCounts ==
  ASSUME PoolInv, Unopened
  PROVE  Held = 0 /\ Opening = 0 /\ reserved = 0 /\ borrowed = 0
  <1>1. In(Holding) = {} /\ At("creating") = {}
    BY DEF PoolInv, BeforeStart, In, At, Holding
  <1>2. Held = 0 /\ Opening = 0
    BY <1>1, FS_EmptySet DEF Held, Opening
  <1>3. QED
    BY <1>2, Books DEF PoolInv, BeforeStart

LEMMA StartSteps ==
  ASSUME PoolInv, StartBegins \/ StartFails \/ StartOpens \/ StartLosesKeeper
  PROVE  PoolInv'
  <1>1. /\ Unopened /\ pc' = pc /\ keeper' = keeper
        /\ UNCHANGED <<borrowed, reserved, expired, dropping, drained, keeperFailed>>
        /\ owner # "done"
    BY DEF PoolInv, LifeCycle, Unopened, StartBegins, StartFails, StartOpens,
           StartLosesKeeper, keeperVars
  <1>2. /\ Held' = 0 /\ Opening' = 0 /\ Opening = 0 /\ pc' \in [Borrowers -> BorrowerPoints]
        /\ borrowed = 0 /\ reserved = 0 /\ keeper = "none"
        /\ \A b \in Borrowers : pc[b] = "new"
    BY <1>1, UnopenedCounts, NobodyCounted DEF PoolInv, TypeOK, BeforeStart
  <1>3. /\ idle' \in Nat /\ total' = idle' /\ creating' \in Nat
        /\ creating' = (IF owner' = "starting" THEN MinConns ELSE 0)
        /\ total' + creating' <= MaxConns
        /\ mishaps' \in 0..MaxMishaps
        /\ \/ state' = "Starting" /\ owner' = "starting" /\ idle' = 0
           \/ state' = "Running" /\ owner' = "spawning"
           \/ state' = "Stopped" /\ owner' = "ready" /\ idle' = 0
    <2>1. CASE StartBegins
      BY <1>2, <2>1, Books, OptionsAssumption
      DEF PoolInv, TypeOK, ClosedHasNoIdle, StartBegins
    <2>2. CASE StartFails
      BY <1>2, <2>2, Books DEF PoolInv, TypeOK, LifeCycle, ClosedHasNoIdle, StartFails, Mishap
    <2>3. CASE StartOpens
      BY <1>2, <2>3, Books, OptionsAssumption DEF PoolInv, TypeOK, StartOpens
    <2>4. CASE StartLosesKeeper
      BY <1>2, <2>4, Books DEF PoolInv, TypeOK, StartLosesKeeper, Mishap
    <2>5. QED
      BY <2>1, <2>2, <2>3, <2>4
  <1>4. TypeOK'
    BY <1>1, <1>2, <1>3 DEF PoolInv, TypeOK
  <1>5. Accounting' /\ WithinLimit'
    <2>1. borrowed' = 0 /\ reserved' = 0
      BY <1>1, <1>2
    <2>2. total' = idle' + borrowed' /\ borrowed' = Held'
      <3>1. idle' \in Nat /\ total' = idle'
        BY <1>3
      <3>2. \A n \in Nat : n = n + 0
        OBVIOUS
      <3>3. total' = idle' + 0
        BY <3>1, <3>2, Zenon
      <3>4. Held' = 0
        BY <1>2
      <3>5. QED
        BY <2>1, <3>3, <3>4, Zenon
    <2>3. creating' = Opening' + reserved' + (IF owner' = "starting" THEN MinConns ELSE 0)
      BY <1>2, <1>3, <2>1, OptionsAssumption
    <2>4. QED
      BY <1>3, <2>2, <2>3 DEF Accounting, WithinLimit, Held, Opening
  <1>6. BeforeStart' /\ ReservationIsUnderway' /\ LifeCycle' /\ ClosedHasNoIdle' /\ DrainedStays'
    BY <1>1, <1>2, <1>3
    DEF BeforeStart, ReservationIsUnderway, LifeCycle, ClosedHasNoIdle, DrainedStays
  <1>7. QED
    BY <1>4, <1>5, <1>6 DEF PoolInv

LEMMA StartReturnsStep == PoolInv /\ StartReturns => PoolInv'
  <1> SUFFICES ASSUME PoolInv, StartReturns PROVE PoolInv'
    OBVIOUS
  <1>1. pc' \in [Borrowers -> BorrowerPoints] /\ Held' = Held /\ Opening' = Opening
    BY NobodyCounted DEF PoolInv, StartReturns
  <1>2. /\ keeper' = "top" /\ owner' = "ready" /\ state = "Running" /\ reserved = 0
        /\ UNCHANGED <<poolVars, reserved, expired, dropping, drained, mishaps, keeperFailed>>
    BY DEF PoolInv, LifeCycle, BeforeStart, Unopened, StartReturns
  <1>3. TypeOK'
    BY <1>1, <1>2 DEF PoolInv, TypeOK, poolVars
  <1>4. Accounting' /\ WithinLimit'
    BY <1>1, <1>2 DEF PoolInv, LifeCycle, Accounting, WithinLimit, poolVars, Held, Opening
  <1>5. BeforeStart' /\ ReservationIsUnderway' /\ LifeCycle' /\ ClosedHasNoIdle' /\ DrainedStays'
    BY <1>2 DEF BeforeStart, Unopened, ReservationIsUnderway, LifeCycle, ClosedHasNoIdle,
                DrainedStays, poolVars
  <1>6. QED
    BY <1>3, <1>4, <1>5 DEF PoolInv

LEMMA ShutdownSteps ==
  ASSUME PoolInv,
         \/ ShutdownClosed \/ ShutdownBegins \/ ShutdownWakes \/ ShutdownJoins
         \/ ShutdownWaits \/ ShutdownReturns
  PROVE  PoolInv'
  <1> USE DEF ShutdownClosed, ShutdownBegins, ShutdownWakes, ShutdownJoins,
              ShutdownWaits, ShutdownReturns
  <1>1. /\ pc' \in [Borrowers -> BorrowerPoints] /\ Held' = Held /\ Opening' = Opening
    BY NobodyCounted DEF PoolInv, TypeOK
  <1>2. /\ UNCHANGED <<borrowed, creating, reserved, expired, mishaps, keeperFailed>>
        /\ keeper' = keeper \/ (keeper = "asleep" /\ keeper' = "woken")
    BY DEF NotifyKeeper, keeperVars, poolVars
  <1>3. /\ state' \in {"Stopping", "Stopped"}
        /\ owner' = "done" <=> state' = "Stopped"
        /\ owner' \in {"waking", "joining", "draining", "asleep", "done"}
        /\ owner # "starting"
    BY DEF PoolInv, LifeCycle, poolVars
  <1>4. idle' = 0 /\ total' = borrowed /\ dropping' \in Nat /\ drained' \in BOOLEAN
    <2>1. total = idle + borrowed
      BY Books
    <2>2. drained' \in BOOLEAN
      BY DEF PoolInv, TypeOK, NothingOut, AllReturned
    <2>3. CASE ShutdownBegins
      BY <2>1, <2>2, <2>3, Books
    <2>4. CASE ~ShutdownBegins
      <3>1. state # "Running" /\ idle' = idle /\ total' = total
        BY <2>4 DEF PoolInv, LifeCycle, poolVars
      <3>2. idle = 0 /\ dropping' \in Nat
        BY <2>4, <3>1 DEF PoolInv, TypeOK, ClosedHasNoIdle
      <3>3. QED
        BY <2>1, <2>2, <3>1, <3>2, Books
    <2>5. QED
      BY <2>3, <2>4
  <1>5. owner' = "done" /\ drained' => NothingOut
    <2>1. state = "Created" => NothingOut
      BY UnopenedCounts, Books DEF PoolInv, LifeCycle, Unopened, NothingOut
    <2>2. QED
      BY <2>1 DEF AllReturned, NothingOut
  <1>6. TypeOK'
    BY <1>1, <1>2, <1>3, <1>4, Books DEF PoolInv, TypeOK
  <1>7. Accounting' /\ WithinLimit'
    BY <1>1, <1>2, <1>3, <1>4, Books DEF Accounting, WithinLimit, Held, Opening
  <1>8. BeforeStart' /\ ReservationIsUnderway' /\ LifeCycle' /\ ClosedHasNoIdle'
    BY <1>2, <1>3, <1>4
    DEF PoolInv, BeforeStart, Unopened, ReservationIsUnderway, LifeCycle, ClosedHasNoIdle
  <1>9. DrainedStays'
    BY <1>2, <1>5 DEF DrainedStays, NothingOut
  <1>10. QED
    BY <1>6, <1>7, <1>8, <1>9 DEF PoolInv

LEMMA StutterStep == PoolInv /\ UNCHANGED vars => PoolInv'
  <1> SUFFICES ASSUME PoolInv, UNCHANGED vars PROVE PoolInv'
    OBVIOUS
  <1>1. /\ pc' \in [Borrowers -> BorrowerPoints]
        /\ In(Holding)' = In(Holding) /\ At("creating")' = At("creating")
    BY NobodyMoved DEF PoolInv, vars
  <1>2. QED
    BY <1>1, QuietStep DEF vars, poolVars, keeperVars, ownerVars, Notified

LEMMA PoolStep == PoolInv /\ [Next]_vars => PoolInv'
  <1> SUFFICES ASSUME PoolInv, [Next]_vars PROVE PoolInv'
    OBVIOUS
  <1>1. ASSUME NEW b \in Borrowers, Acquire(b) \/ WaitTimeout(b) PROVE PoolInv'
    BY <1>1, QuietBorrowerSteps, WaitTimeoutStep
  <1>2. ASSUME NEW b \in Borrowers, BorrowerStep(b) PROVE PoolInv'
    BY <1>2, QuietBorrowerSteps, LendingSteps DEF BorrowerStep
  <1>3. ASSUME NEW b \in Borrowers, ReleaseStep(b) PROVE PoolInv'
    BY <1>3, LendingSteps DEF ReleaseStep
  <1>4. CASE KeeperStep \/ KeeperExpires \/ KeeperTimeout
    BY <1>4, QuietKeeperSteps, KeeperExpiresStep, KeeperCreationSteps DEF KeeperStep
  <1>5. CASE StartBegins \/ ShutdownClosed \/ ShutdownBegins \/ OwnerStep
    BY <1>5, StartSteps, StartReturnsStep, ShutdownSteps DEF OwnerStep
  <1>6. CASE Terminated \/ UNCHANGED vars
    BY <1>6, StutterStep DEF Terminated
  <1>7. QED
    BY <1>1, <1>2, <1>3, <1>4, <1>5, <1>6 DEF Next

LEMMA PoolIsInvariant == Spec => []PoolInv
  BY InitPool, PoolStep, PTL DEF Spec

LEMMA BooksAreKept == PoolInv => Bookkeeping
  <1> SUFFICES ASSUME PoolInv PROVE Bookkeeping
    OBVIOUS
  <1>1. ASSUME owner = "done", drained
        PROVE  total = 0 /\ creating = 0 /\ At("lease") = {}
    <2>1. borrowed = 0 /\ creating = 0 /\ total = 0
      BY <1>1, Books DEF PoolInv, DrainedStays, NothingOut, ClosedHasNoIdle, LifeCycle
    <2>2. In(Holding) = {}
      BY <2>1, Books, CountIsNat, FS_EmptySet DEF Held
    <2>3. QED
      BY <2>1, <2>2 DEF In, At, Holding
  <1>2. QED
    BY <1>1 DEF PoolInv, Bookkeeping, DrainedIsEmpty

\* Every counter of the pool agrees with where the connections are, at every
\* moment and whoever fails; no more than max_connections are pooled or on
\* their way; and a pool that reports itself drained is empty and stays so.
THEOREM PoolIsAccounted == Spec => []Bookkeeping
  BY PoolIsInvariant, BooksAreKept, PTL

-----------------------------------------------------------------------------
(***************************************************************************)
(* Whom the pool lets sleep.                                               *)
(*                                                                         *)
(* BorrowerWakeup is not inductive: a borrower that takes a connection     *)
(* uses up its own place on the right-hand side, while more connections    *)
(* than sleepers may be available.  What the code maintains is stronger:   *)
(* as long as somebody sleeps, EVERY available connection or slot has a    *)
(* notification or an awake borrower of its own, since borrowers go to     *)
(* sleep only when nothing is available.                                   *)
(***************************************************************************)

\* Awake borrowers, and those that have yet to notify another one.
Promising == {"locking", "discarding", "failing", "returned", "closing"}
Awake == Cardinality(In(Promising))
Promised == Awake + (IF keeper = "announcing" THEN 1 ELSE 0)

\* What a borrower could take.
Available == idle + MaxConns - (total + creating)

BorrowersWake ==
  \/ keeperFailed
  \/ state = "Running" /\ (At("waiting") = {} \/ Available <= Promised)
  \/ state # "Running" /\ (At("waiting") = {} \/ owner = "waking")

\* shutdownFor() waits for connections only after the maintenance thread has
\* ended.
JoinedFirst == owner \in {"draining", "asleep"} => keeper = "ended"

WakeInv == BorrowersWake /\ JoinedFirst /\ OwnerWakeup

-----------------------------------------------------------------------------
(* The thread that shuts the pool down.                                    *)

LEMMA JoinedStep ==
  ASSUME PoolInv, JoinedFirst, [Next]_vars
  PROVE  JoinedFirst'
  <1> USE DEF JoinedFirst
  <1>1. ASSUME NEW b \in Borrowers,
               Acquire(b) \/ WaitTimeout(b) \/ BorrowerStep(b) \/ ReleaseStep(b)
        PROVE  JoinedFirst'
    <2>1. Notified
      BY <1>1 DEF Notified, BorrowerStep, ReleaseStep, Acquire, WaitTimeout, AcquireStopped,
             TakeIdle, CheckSucceeds, CheckFails, Discarded, BeginCreate, CreateSucceeds,
             CreateFails, CreateTooLate, CreationFailed, CreatedTooLate, Wait, Returned,
             Closed, Return, GiveUp, NotifyKeeper, NotifyOwner, keeperVars, ownerVars
    <2>2. QED
      BY <2>1 DEF Notified
  <1>2. CASE KeeperStep \/ KeeperExpires \/ KeeperTimeout
    BY <1>2 DEF KeeperStep, KeeperExpires, KeeperTimeout, KeeperSleeps, KeeperEnds,
           KeeperReserves, KeeperCloses, KeeperCreateFails, KeeperCreates,
           KeeperAnnounces, NotifyOwner, ownerVars
  <1>3. CASE StartBegins \/ ShutdownClosed \/ ShutdownBegins \/ OwnerStep
    BY <1>3 DEF OwnerStep, StartBegins, StartFails, StartOpens, StartReturns,
           StartLosesKeeper, ShutdownClosed, ShutdownBegins, ShutdownWakes, ShutdownJoins,
           ShutdownWaits, ShutdownReturns, keeperVars
  <1>4. CASE Terminated \/ UNCHANGED vars
    BY <1>4 DEF Terminated, vars, keeperVars, ownerVars
  <1>5. QED
    BY <1>1, <1>2, <1>3, <1>4 DEF Next

Announcers == {"discarding", "failing", "late", "returned", "closing"}

\* Who notices the last connection come back has yet to notify.
LEMMA OwnerWakeupStep ==
  ASSUME PoolInv, JoinedFirst, OwnerWakeup, [Next]_vars
  PROVE  OwnerWakeup'
  <1>1. SUFFICES ASSUME owner' = "asleep", NothingOut'
                 PROVE  In(Announcers)' # {}
    BY DEF OwnerWakeup, Announcers
  <1>2. TypeOK /\ pc \in [Borrowers -> BorrowerPoints]
    BY DEF PoolInv, TypeOK
  <1>3. ASSUME owner = "asleep", NothingOut' = NothingOut,
               In(Announcers) \subseteq In(Announcers)'
        PROVE  In(Announcers)' # {}
    BY <1>1, <1>3 DEF OwnerWakeup, Announcers
  <1>4. owner = "asleep" => keeper = "ended" /\ state = "Stopping"
    BY DEF JoinedFirst, PoolInv, LifeCycle
  <1>5. ASSUME NEW b \in Borrowers,
               Acquire(b) \/ WaitTimeout(b) \/ AcquireStopped(b) \/ CheckSucceeds(b) \/ Wait(b)
        PROVE  In(Announcers)' # {}
    <2>1. owner = "asleep" /\ NothingOut' = NothingOut
      BY <1>1, <1>5 DEF Acquire, WaitTimeout, AcquireStopped, CheckSucceeds, Wait,
             NothingOut, ownerVars, poolVars
    <2>2. In(Announcers) \subseteq In(Announcers)'
      BY <1>2, <1>5 DEF Acquire, WaitTimeout, AcquireStopped, CheckSucceeds, Wait, In, Announcers
    <2>3. QED
      BY <1>3, <2>1, <2>2
  <1>6. ASSUME NEW b \in Borrowers,
               CheckFails(b) \/ CreateFails(b) \/ CreateTooLate(b) \/ GiveUp(b)
        PROVE  In(Announcers)' # {}
    BY <1>2, <1>6 DEF CheckFails, CreateFails, CreateTooLate, GiveUp, In, Announcers
  <1>7. ASSUME NEW b \in Borrowers,
               TakeIdle(b) \/ BeginCreate(b) \/ CreateSucceeds(b) \/ Return(b)
        PROVE  FALSE
    BY <1>1, <1>4, <1>7 DEF TakeIdle, BeginCreate, CreateSucceeds, Return, NotifyOwner, ownerVars
  <1>8. ASSUME NEW b \in Borrowers,
               \/ Discarded(b) \/ CreationFailed(b) \/ CreatedTooLate(b)
               \/ Returned(b) \/ Closed(b)
        PROVE  FALSE
    BY <1>1, <1>8 DEF Discarded, CreationFailed, CreatedTooLate, Returned, Closed, NotifyOwner
  <1>9. ASSUME KeeperStep \/ KeeperExpires \/ KeeperTimeout PROVE FALSE
    BY <1>1, <1>4, <1>9
    DEF KeeperStep, KeeperExpires, KeeperTimeout, KeeperSleeps, KeeperEnds, KeeperReserves,
        KeeperCloses, KeeperCreateFails, KeeperCreates, KeeperAnnounces, NotifyOwner, ownerVars
  <1>10. ASSUME StartBegins \/ ShutdownClosed \/ ShutdownBegins \/ OwnerStep PROVE FALSE
    BY <1>1, <1>10
    DEF OwnerStep, StartBegins, StartFails, StartOpens, StartReturns, StartLosesKeeper,
        ShutdownClosed, ShutdownBegins, ShutdownWakes, ShutdownJoins, ShutdownWaits,
        ShutdownReturns, AllReturned, NothingOut, poolVars
  <1>11. CASE Terminated \/ UNCHANGED vars
    <2>1. owner = "asleep" /\ NothingOut' = NothingOut /\ pc' = pc
      BY <1>1, <1>11 DEF Terminated, vars, ownerVars, poolVars, NothingOut
    <2>2. QED
      BY <1>3, <2>1 DEF In
  <1>12. QED
    BY <1>5, <1>6, <1>7, <1>8, <1>9, <1>10, <1>11 DEF Next, BorrowerStep, ReleaseStep

-----------------------------------------------------------------------------
(* The borrowers.                                                          *)

LEMMA AwakeIsNat == IsFiniteSet(In(Promising)) /\ Awake \in Nat
  BY CountIsNat DEF Awake

\* A borrower goes on without notifying anybody.
LEMMA SilentMove ==
  ASSUME TypeOK, NEW b \in Borrowers, NEW p, pc[b] # "waiting",
         pc' = [pc EXCEPT ![b] = p]
  PROVE  /\ p # "waiting" => At("waiting")' = At("waiting")
         /\ Awake' = Awake + (IF p \in Promising THEN 1 ELSE 0)
                           - (IF pc[b] \in Promising THEN 1 ELSE 0)
  <1>1. pc'[b] = p /\ \A c \in Borrowers \ {b} : pc'[c] = pc[c]
    BY DEF TypeOK
  <1>2. p # "waiting" => At("waiting")' = At("waiting")
    BY <1>1 DEF At
  <1>3. CASE p \in Promising /\ pc[b] \notin Promising
    <2>1. In(Promising)' = In(Promising) \cup {b} /\ b \notin In(Promising)
      BY <1>1, <1>3 DEF In
    <2>2. Cardinality(In(Promising)') = Cardinality(In(Promising)) + 1
      BY <2>1, AwakeIsNat, FS_AddElement
    <2>3. QED
      BY <1>2, <1>3, <2>2, AwakeIsNat DEF Awake
  <1>4. CASE p \notin Promising /\ pc[b] \in Promising
    <2>1. In(Promising)' = In(Promising) \ {b} /\ b \in In(Promising)
      BY <1>1, <1>4 DEF In
    <2>2. Cardinality(In(Promising)') = Cardinality(In(Promising)) - 1
      BY <2>1, AwakeIsNat, FS_RemoveElement
    <2>3. QED
      BY <1>2, <1>4, <2>2, AwakeIsNat DEF Awake
  <1>5. CASE p \in Promising <=> pc[b] \in Promising
    <2>1. In(Promising)' = In(Promising)
      BY <1>1, <1>5 DEF In
    <2>2. QED
      BY <1>2, <1>5, <2>1, AwakeIsNat DEF Awake
  <1>6. QED
    BY <1>3, <1>4, <1>5

\* Who notifies passes its promise on, or finds nobody asleep.
LEMMA NotifyingMove ==
  ASSUME TypeOK, NEW b \in Borrowers, NEW p, p # "waiting", pc[b] \in Promising,
         MoveAndNotify(b, p)
  PROVE  /\ At("waiting")' \subseteq At("waiting")
         /\ At("waiting")' = {} \/ Awake <= Awake'
  <1>1. pc \in [Borrowers -> BorrowerPoints] /\ "waiting" \notin Promising
    BY DEF TypeOK, Promising
  <1>2. At("waiting")' \subseteq At("waiting")
    BY <1>1 DEF MoveAndNotify, At
  <1>3. CASE At("waiting") = {}
    BY <1>2, <1>3
  <1>4. CASE \E v \in At("waiting") : pc' = [pc EXCEPT ![b] = p, ![v] = "locking"]
    <2>1. PICK v \in At("waiting") : pc' = [pc EXCEPT ![b] = p, ![v] = "locking"]
      BY <1>4
    <2>2. (In(Promising) \ {b}) \cup {v} \subseteq In(Promising)'
      BY <1>1, <2>1 DEF At, In, Promising
    <2>3. b \in In(Promising) /\ v \notin In(Promising)
      BY <1>1, <2>1 DEF At, In
    <2>4. /\ IsFiniteSet(In(Promising) \ {b})
          /\ Cardinality(In(Promising) \ {b}) = Cardinality(In(Promising)) - 1
      BY <2>3, AwakeIsNat, FS_RemoveElement
    <2>5. Cardinality((In(Promising) \ {b}) \cup {v}) = Cardinality(In(Promising))
      <3>1. v \notin In(Promising) \ {b}
        BY <2>3
      <3>2. Cardinality((In(Promising) \ {b}) \cup {v}) = Cardinality(In(Promising) \ {b}) + 1
        BY <2>4, <3>1, FS_AddElement
      <3>3. Cardinality(In(Promising)) \in Nat
        BY CountIsNat
      <3>4. QED
        BY <2>4, <3>2, <3>3
    <2>6. IsFiniteSet(In(Promising)')
      <3>1. In(Promising)' \in SUBSET Borrowers
        BY DEF In
      <3>2. QED
        BY <3>1, BoundsAssumption, FS_Subset
    <2>7. Cardinality((In(Promising) \ {b}) \cup {v}) <= Cardinality(In(Promising)')
      <3>1. (In(Promising) \ {b}) \cup {v} \in SUBSET (In(Promising)')
        BY <2>2
      <3>2. \A S, T : IsFiniteSet(S) /\ T \in SUBSET S => Cardinality(T) <= Cardinality(S)
        BY FS_Subset
      <3>3. QED
        BY <2>6, <3>1, <3>2, Zenon
    <2>8. QED
      BY <1>2, <2>5, <2>7 DEF Awake
  <1>5. QED
    BY <1>3, <1>4 DEF MoveAndNotify

LEMMA Numbers ==
  ASSUME PoolInv
  PROVE  Available \in Int /\ Promised \in Nat /\ Awake \in Nat
  BY Books, AwakeIsNat DEF Available, Promised

LEMMA NextNumbers ==
  ASSUME PoolInv'
  PROVE  Available' \in Int /\ Promised' \in Nat /\ Awake' \in Nat
  <1>1. In(Promising)' \in SUBSET Borrowers
    BY DEF In
  <1>2. Cardinality(In(Promising)') \in Nat
    BY <1>1, BoundsAssumption, FS_Subset, FS_CardinalityType
  <1>3. Promised' \in Nat /\ Awake' \in Nat
    BY <1>2 DEF Promised, Awake
  <1>4. idle' \in Nat /\ total' \in Nat /\ creating' \in Nat /\ MaxConns \in Nat
    BY OptionsAssumption DEF PoolInv, TypeOK
  <1>5. Available' \in Int
    BY <1>4 DEF Available
  <1>6. QED
    BY <1>3, <1>5

LEMMA Slack ==
  \A a, p, x, y, d \in Int : a <= p /\ x <= a + d /\ p + d <= y => x <= y
  OBVIOUS

LEMMA NoneMore == \A a \in Int : a <= a + 0
  OBVIOUS

LEMMA MoreAwake ==
  \A n, m \in Nat : n <= m => n + 0 + 0 <= m + 0 /\ n + 1 + 0 <= m + 1
  OBVIOUS

\* What keeps BorrowersWake while the pool stays as it is: a promise for each
\* connection or slot that becomes available.
LEMMA StillWakeful ==
  ASSUME PoolInv, PoolInv', BorrowersWake, NEW d \in Int,
         state' = state, owner = "waking" => owner' = owner,
         keeperFailed => keeperFailed',
         At("waiting")' \subseteq At("waiting"),
         \/ keeperFailed'
         \/ state # "Running"
         \/ At("waiting")' = {}
         \/ Available' <= Available + d /\ Promised + d <= Promised'
  PROVE  BorrowersWake'
  <1>1. /\ Available \in Int /\ Promised \in Nat
        /\ Available' \in Int /\ Promised' \in Nat
    BY Numbers, NextNumbers
  <1>2. CASE state = "Running"
    <2>1. CASE keeperFailed' \/ At("waiting")' = {}
      BY <1>2, <2>1 DEF BorrowersWake
    <2>2. CASE ~keeperFailed' /\ At("waiting")' # {}
      <3>1. /\ Available <= Promised
            /\ Available' <= Available + d /\ Promised + d <= Promised'
        BY <1>2, <2>2 DEF BorrowersWake
      <3>2. Available' <= Promised'
        <4>1. Promised \in Int /\ Promised' \in Int
          BY <1>1
        <4>2. QED
          BY <1>1, <3>1, <4>1, Slack, Zenon
      <3>3. QED
        BY <1>2, <3>2 DEF BorrowersWake
    <2>3. QED
      BY <2>1, <2>2
  <1>3. CASE state # "Running"
    BY <1>3 DEF BorrowersWake
  <1>4. QED
    BY <1>2, <1>3

LEMMA NotifyingSteps ==
  ASSUME PoolInv, PoolInv', BorrowersWake, NEW b \in Borrowers,
         Discarded(b) \/ CreationFailed(b) \/ Returned(b) \/ Closed(b)
  PROVE  BorrowersWake'
  <1> USE DEF Discarded, CreationFailed, Returned, Closed
  <1>1. /\ UNCHANGED <<poolVars, keeperFailed>>
        /\ pc[b] \in Promising
        /\ MoveAndNotify(b, "locking") \/ MoveAndNotify(b, "done")
    BY DEF Promising
  <1>2. /\ keeper = "announcing" <=> keeper' = "announcing"
        /\ owner = "waking" => owner' = owner
    BY DEF NotifyKeeper, NotifyOwner, keeperVars
  <1>3. At("waiting")' \subseteq At("waiting") /\ (At("waiting")' = {} \/ Awake <= Awake')
    BY <1>1, NotifyingMove DEF PoolInv
  <1>4. Available' = Available
    BY <1>1 DEF Available, poolVars
  <1>5. CASE At("waiting")' = {}
    <2>1. 0 \in Int
      OBVIOUS
    <2>2. QED
      BY <1>1, <1>2, <1>3, <1>5, <2>1, StillWakeful DEF poolVars
  <1>6. CASE Awake <= Awake'
    <2>1. Promised + 0 <= Promised'
      BY <1>2, <1>6, Numbers, NextNumbers, MoreAwake, Zenon DEF Promised
    <2>2. Available' <= Available + 0
      BY <1>4, Numbers, NoneMore, Zenon
    <2>3. QED
      BY <1>1, <1>2, <1>3, <2>1, <2>2, StillWakeful DEF poolVars
  <1>7. QED
    BY <1>3, <1>5, <1>6

LEMMA MoreAwakeBy ==
  \A n, m, k, d \in Int :
    m = n + k /\ d <= k => n + 0 + d <= m + 0 /\ n + 1 + d <= m + 1
  OBVIOUS

LEMMA NoMoreThan == \A a, d \in Int : a + d <= a + d
  OBVIOUS

\* One borrower goes on, and at most one connection or slot per promise
\* becomes available.
LEMMA SilentStep ==
  ASSUME PoolInv, PoolInv', BorrowersWake,
         NEW b \in Borrowers, NEW p, pc[b] # "waiting", p # "waiting",
         pc' = [pc EXCEPT ![b] = p],
         state' = state, keeper' = keeper, keeperFailed' = keeperFailed,
         owner = "waking" => owner' = owner,
         NEW d \in Int, Available' = Available + d,
         d <= (IF p \in Promising THEN 1 ELSE 0) - (IF pc[b] \in Promising THEN 1 ELSE 0)
  PROVE  BorrowersWake'
  <1> DEFINE k == (IF p \in Promising THEN 1 ELSE 0) - (IF pc[b] \in Promising THEN 1 ELSE 0)
  <1>1. k \in Int /\ d <= k
    OBVIOUS
  <1>2. At("waiting")' = At("waiting") /\ Awake' = Awake + k
    <2>1. /\ At("waiting")' = At("waiting")
          /\ Awake' = Awake + (IF p \in Promising THEN 1 ELSE 0)
                            - (IF pc[b] \in Promising THEN 1 ELSE 0)
      BY SilentMove DEF PoolInv
    <2>2. \A n \in Int : n + (IF p \in Promising THEN 1 ELSE 0)
                           - (IF pc[b] \in Promising THEN 1 ELSE 0) = n + k
      OBVIOUS
    <2>3. Awake \in Int
      BY Numbers
    <2>4. QED
      BY <2>1, <2>2, <2>3, Zenon
  <1> HIDE DEF k
  <1>3. Awake \in Int /\ Awake' \in Int /\ Available \in Int
    BY Numbers, NextNumbers
  <1>4. Promised + d <= Promised'
    BY <1>1, <1>2, <1>3, MoreAwakeBy, Zenon DEF Promised
  <1>5. Available' <= Available + d
    BY <1>3, NoMoreThan, Zenon
  <1>6. QED
    BY <1>2, <1>4, <1>5, StillWakeful

LEMMA BorrowingSteps ==
  ASSUME PoolInv, PoolInv', BorrowersWake, NEW b \in Borrowers,
         \/ Acquire(b) \/ TakeIdle(b) \/ CheckSucceeds(b) \/ CheckFails(b)
         \/ BeginCreate(b) \/ CreateSucceeds(b) \/ CreateFails(b)
         \/ Return(b) \/ GiveUp(b)
  PROVE  BorrowersWake'
  <1>1. /\ idle \in Int /\ total \in Int /\ creating \in Int /\ MaxConns \in Int
        /\ 0 \in Int /\ 1 \in Int /\ -1 \in Int
    BY Books
  <1>2. CASE Acquire(b)
    <2>1. /\ pc[b] = "new" /\ pc' = [pc EXCEPT ![b] = "locking"]
          /\ UNCHANGED <<state, keeper, keeperFailed>>
          /\ owner = "waking" => owner' = owner
      BY <1>2 DEF Acquire, MoveSilently, NotifyOwner, poolVars, keeperVars, ownerVars
    <2>2. Available' = Available + (0)
      BY <1>1, <1>2 DEF Acquire, Available, poolVars
    <2>3. (0) <= (IF "locking" \in Promising THEN 1 ELSE 0)
                  - (IF "new" \in Promising THEN 1 ELSE 0)
      BY DEF Promising
    <2>4. QED
      BY <1>1, <2>1, <2>2, <2>3, SilentStep
  <1>3. CASE TakeIdle(b)
    <2>1. /\ pc[b] = "locking" /\ pc' = [pc EXCEPT ![b] = "checking"]
          /\ UNCHANGED <<state, keeper, keeperFailed>>
          /\ owner = "waking" => owner' = owner
      BY <1>3 DEF TakeIdle, MoveSilently, NotifyOwner, poolVars, keeperVars, ownerVars
    <2>2. Available' = Available + (-1)
      BY <1>1, <1>3 DEF TakeIdle, Available, poolVars
    <2>3. (-1) <= (IF "checking" \in Promising THEN 1 ELSE 0)
                  - (IF "locking" \in Promising THEN 1 ELSE 0)
      BY DEF Promising
    <2>4. QED
      BY <1>1, <2>1, <2>2, <2>3, SilentStep
  <1>4. CASE CheckSucceeds(b)
    <2>1. /\ pc[b] = "checking" /\ pc' = [pc EXCEPT ![b] = "lease"]
          /\ UNCHANGED <<state, keeper, keeperFailed>>
          /\ owner = "waking" => owner' = owner
      BY <1>4 DEF CheckSucceeds, MoveSilently, NotifyOwner, poolVars, keeperVars, ownerVars
    <2>2. Available' = Available + (0)
      BY <1>1, <1>4 DEF CheckSucceeds, Available, poolVars
    <2>3. (0) <= (IF "lease" \in Promising THEN 1 ELSE 0)
                  - (IF "checking" \in Promising THEN 1 ELSE 0)
      BY DEF Promising
    <2>4. QED
      BY <1>1, <2>1, <2>2, <2>3, SilentStep
  <1>5. CASE CheckFails(b)
    <2>1. /\ pc[b] = "checking" /\ pc' = [pc EXCEPT ![b] = "discarding"]
          /\ UNCHANGED <<state, keeper, keeperFailed>>
          /\ owner = "waking" => owner' = owner
      BY <1>5 DEF CheckFails, MoveSilently, NotifyOwner, poolVars, keeperVars, ownerVars
    <2>2. Available' = Available + (1)
      BY <1>1, <1>5 DEF CheckFails, Available, poolVars
    <2>3. (1) <= (IF "discarding" \in Promising THEN 1 ELSE 0)
                  - (IF "checking" \in Promising THEN 1 ELSE 0)
      BY DEF Promising
    <2>4. QED
      BY <1>1, <2>1, <2>2, <2>3, SilentStep
  <1>6. CASE BeginCreate(b)
    <2>1. /\ pc[b] = "locking" /\ pc' = [pc EXCEPT ![b] = "creating"]
          /\ UNCHANGED <<state, keeper, keeperFailed>>
          /\ owner = "waking" => owner' = owner
      BY <1>6 DEF BeginCreate, MoveSilently, NotifyOwner, poolVars, keeperVars, ownerVars
    <2>2. Available' = Available + (-1)
      BY <1>1, <1>6 DEF BeginCreate, Available, poolVars
    <2>3. (-1) <= (IF "creating" \in Promising THEN 1 ELSE 0)
                  - (IF "locking" \in Promising THEN 1 ELSE 0)
      BY DEF Promising
    <2>4. QED
      BY <1>1, <2>1, <2>2, <2>3, SilentStep
  <1>7. CASE CreateSucceeds(b)
    <2>1. /\ pc[b] = "creating" /\ pc' = [pc EXCEPT ![b] = "lease"]
          /\ UNCHANGED <<state, keeper, keeperFailed>>
          /\ owner = "waking" => owner' = owner
      BY <1>7 DEF CreateSucceeds, MoveSilently, NotifyOwner, poolVars, keeperVars, ownerVars
    <2>2. Available' = Available + (0)
      BY <1>1, <1>7 DEF CreateSucceeds, Available, poolVars
    <2>3. (0) <= (IF "lease" \in Promising THEN 1 ELSE 0)
                  - (IF "creating" \in Promising THEN 1 ELSE 0)
      BY DEF Promising
    <2>4. QED
      BY <1>1, <2>1, <2>2, <2>3, SilentStep
  <1>8. CASE CreateFails(b)
    <2>1. /\ pc[b] = "creating" /\ pc' = [pc EXCEPT ![b] = "failing"]
          /\ UNCHANGED <<state, keeper, keeperFailed>>
          /\ owner = "waking" => owner' = owner
      BY <1>8 DEF CreateFails, MoveSilently, NotifyOwner, poolVars, keeperVars, ownerVars
    <2>2. Available' = Available + (1)
      BY <1>1, <1>8 DEF CreateFails, Available, poolVars
    <2>3. (1) <= (IF "failing" \in Promising THEN 1 ELSE 0)
                  - (IF "creating" \in Promising THEN 1 ELSE 0)
      BY DEF Promising
    <2>4. QED
      BY <1>1, <2>1, <2>2, <2>3, SilentStep
  <1>9. CASE Return(b)
    <2>1. /\ pc[b] = "lease" /\ pc' = [pc EXCEPT ![b] = "returned"]
          /\ UNCHANGED <<state, keeper, keeperFailed>>
          /\ owner = "waking" => owner' = owner
      BY <1>9 DEF Return, MoveSilently, NotifyOwner, poolVars, keeperVars, ownerVars
    <2>2. Available' = Available + (1)
      BY <1>1, <1>9 DEF Return, Available, poolVars
    <2>3. (1) <= (IF "returned" \in Promising THEN 1 ELSE 0)
                  - (IF "lease" \in Promising THEN 1 ELSE 0)
      BY DEF Promising
    <2>4. QED
      BY <1>1, <2>1, <2>2, <2>3, SilentStep
  <1>10. CASE GiveUp(b)
    <2>1. /\ pc[b] = "lease" /\ pc' = [pc EXCEPT ![b] = "closing"]
          /\ UNCHANGED <<state, keeper, keeperFailed>>
          /\ owner = "waking" => owner' = owner
      BY <1>10 DEF GiveUp, MoveSilently, NotifyOwner, poolVars, keeperVars, ownerVars
    <2>2. Available' = Available + (1)
      BY <1>1, <1>10 DEF GiveUp, Available, poolVars
    <2>3. (1) <= (IF "closing" \in Promising THEN 1 ELSE 0)
                  - (IF "lease" \in Promising THEN 1 ELSE 0)
      BY DEF Promising
    <2>4. QED
      BY <1>1, <2>1, <2>2, <2>3, SilentStep
  <1>11. QED
    BY <1>2, <1>3, <1>4, <1>5, <1>6, <1>7, <1>8, <1>9, <1>10

\* Borrowers of a closed pool do not sleep.
LEMMA ClosedSteps ==
  ASSUME PoolInv, PoolInv', BorrowersWake, NEW b \in Borrowers,
         AcquireStopped(b) \/ CreateTooLate(b) \/ CreatedTooLate(b)
  PROVE  BorrowersWake'
  <1>1. /\ state' = state /\ keeperFailed' = keeperFailed
        /\ owner = "waking" => owner' = owner
        /\ 0 \in Int
    BY DEF AcquireStopped, CreateTooLate, CreatedTooLate, NotifyOwner, poolVars, ownerVars
  <1>2. CASE AcquireStopped(b) \/ CreateTooLate(b)
    <2>1. At("waiting")' \subseteq At("waiting") /\ state # "Running"
      BY <1>2 DEF PoolInv, TypeOK, AcquireStopped, CreateTooLate, At
    <2>2. QED
      BY <1>1, <2>1, StillWakeful
  <1>3. CASE CreatedTooLate(b)
    <2>1. At("waiting")' = {}
      BY <1>3 DEF PoolInv, TypeOK, CreatedTooLate, AllWaitersWoken, At
    <2>2. QED
      BY <1>1, <2>1, StillWakeful
  <1>4. QED
    BY <1>2, <1>3

\* A borrower falls asleep when there is nothing for it.
LEMMA WaitStep ==
  ASSUME PoolInv, PoolInv', BorrowersWake, NEW b \in Borrowers, Wait(b)
  PROVE  BorrowersWake'
  <1>1. state = "Running" /\ state' = state /\ idle = 0 /\ ~FreeSlot
    BY Books DEF Wait, WaitReady, poolVars
  <1>2. Available' = Available
    BY DEF Wait, Available, poolVars
  <1>3. Available <= 0
    BY <1>1, Books DEF FreeSlot, Available
  <1>4. \A a \in Int, n \in Nat : a <= 0 => a <= n
    OBVIOUS
  <1>5. Available' <= Promised'
    BY <1>2, <1>3, <1>4, Numbers, NextNumbers, Zenon
  <1>6. QED
    BY <1>1, <1>5 DEF BorrowersWake

LEMMA TimeoutStep ==
  ASSUME PoolInv, PoolInv', BorrowersWake, NEW b \in Borrowers, WaitTimeout(b)
  PROVE  BorrowersWake'
  <1>1. /\ UNCHANGED <<poolVars, keeper, keeperFailed, owner>>
        /\ pc' \in [Borrowers -> BorrowerPoints]
        /\ pc'[b] # "waiting" /\ pc[b] = "waiting"
        /\ \A c \in Borrowers \ {b} : pc'[c] = pc[c]
    BY DEF PoolInv, TypeOK, WaitTimeout, keeperVars, ownerVars, BorrowerPoints
  <1>2. At("waiting")' \subseteq At("waiting")
    BY <1>1 DEF At
  <1>3. Awake <= Awake'
    <2>1. In(Promising) \in SUBSET (In(Promising)') /\ In(Promising)' \in SUBSET Borrowers
      BY <1>1 DEF In, Promising
    <2>2. IsFiniteSet(In(Promising)')
      BY <2>1, BoundsAssumption, FS_Subset
    <2>3. Cardinality(In(Promising)) <= Cardinality(In(Promising)')
      BY <2>1, <2>2, FS_Subset
    <2>4. QED
      BY <2>3 DEF Awake
  <1>4. Promised + 0 <= Promised'
    BY <1>1, <1>3, Numbers, NextNumbers, MoreAwake, Zenon DEF Promised
  <1>5. Available' <= Available + 0
    <2>1. Available' = Available
      BY <1>1 DEF Available, poolVars
    <2>2. QED
      BY <2>1, Numbers, NoneMore, Zenon
  <1>6. 0 \in Int
    OBVIOUS
  <1>7. QED
    BY <1>1, <1>2, <1>4, <1>5, <1>6, StillWakeful DEF poolVars

-----------------------------------------------------------------------------
(* The maintenance thread and the owner.                                   *)

LEMMA KeeperSteps ==
  ASSUME PoolInv, PoolInv', BorrowersWake, KeeperStep \/ KeeperExpires \/ KeeperTimeout
  PROVE  BorrowersWake'
  <1>1. /\ idle \in Int /\ total \in Int /\ creating \in Int /\ MaxConns \in Int
        /\ MinConns \in Int /\ 0 \in Int /\ 1 \in Int
    BY Books
  <1>2. state' = state /\ (owner = "waking" => owner' = owner)
    BY DEF KeeperStep, KeeperExpires, KeeperTimeout, KeeperSleeps, KeeperEnds,
           KeeperReserves, KeeperCloses, KeeperCreateFails, KeeperCreates,
           KeeperAnnounces, NotifyOwner, poolVars, ownerVars
  <1>3. Awake \in Nat /\ Awake \in Int /\ Available \in Int /\ Promised \in Int
    BY Numbers
  <1>4. CASE KeeperSleeps \/ KeeperEnds \/ KeeperTimeout \/ KeeperCloses \/ KeeperExpires
             \/ KeeperReserves
    <2>1. /\ pc' = pc /\ keeperFailed' = keeperFailed
          /\ keeper # "announcing" /\ keeper' # "announcing"
      BY <1>4 DEF KeeperSleeps, KeeperEnds, KeeperTimeout, KeeperCloses, KeeperExpires,
             KeeperReserves
    <2>2. Awake' = Awake /\ At("waiting")' = At("waiting")
      BY <2>1 DEF Awake, In, At
    <2>3. Available' <= Available + 0
      <3>1. CASE KeeperExpires
        <4>1. PICK n \in 1..Expirable : idle' = idle - n /\ total' = total - n
          BY <3>1 DEF KeeperExpires
        <4>2. n \in Int /\ creating' = creating
          BY <1>1, <3>1, <4>1, Books DEF KeeperExpires, Expirable, Least
        <4>3. QED
          BY <1>1, <4>1, <4>2 DEF Available
      <3>2. CASE KeeperReserves
        BY <1>1, <3>2 DEF KeeperReserves, BelowMinimum, ReserveMissing, Available
      <3>3. CASE UNCHANGED poolVars
        BY <1>1, <3>3 DEF poolVars, Available
      <3>4. QED
        BY <1>4, <3>1, <3>2, <3>3 DEF KeeperSleeps, KeeperEnds, KeeperTimeout, KeeperCloses
    <2>4. \A n \in Int : n + 0 + 0 <= n + 0
      OBVIOUS
    <2>5. Promised + 0 <= Promised'
      BY <1>3, <2>1, <2>2, <2>4, Zenon DEF Promised
    <2>6. QED
      BY <1>1, <1>2, <2>1, <2>2, <2>3, <2>5, StillWakeful
  <1>5. CASE KeeperCreateFails
    BY <1>1, <1>2, <1>5, StillWakeful DEF KeeperCreateFails, At
  <1>6. CASE KeeperCreates
    <2>1. /\ pc' = pc /\ keeperFailed' = keeperFailed
          /\ keeper = "closing" /\ keeper' = "announcing"
      BY <1>6 DEF KeeperCreates, ownerVars
    <2>2. Awake' = Awake /\ At("waiting")' = At("waiting")
      BY <2>1 DEF Awake, In, At
    <2>3. state = "Running" => Available' <= Available + 1
      BY <1>1, <1>6 DEF KeeperCreates, Available
    <2>4. \A n \in Int : n + 0 + 1 <= n + 1
      OBVIOUS
    <2>5. Promised + 1 <= Promised'
      BY <1>3, <2>1, <2>2, <2>4, Zenon DEF Promised
    <2>6. QED
      BY <1>1, <1>2, <2>1, <2>2, <2>3, <2>5, StillWakeful
  <1>7. CASE KeeperAnnounces
    <2>1. /\ UNCHANGED <<poolVars, keeperFailed>>
          /\ keeper = "announcing" /\ keeper' = "closing"
      BY <1>7 DEF KeeperAnnounces
    <2>2. CASE At("waiting") = {} /\ pc' = pc
      <3>1. At("waiting")' = {}
        BY <2>2 DEF At
      <3>2. QED
        BY <1>1, <1>2, <2>1, <3>1, StillWakeful
    <2>3. ASSUME NEW v \in At("waiting"), pc' = [pc EXCEPT ![v] = "locking"]
          PROVE  BorrowersWake'
      <3>1. pc \in [Borrowers -> BorrowerPoints] /\ v \in Borrowers /\ pc[v] = "waiting"
        BY <2>3 DEF PoolInv, TypeOK, At
      <3>2. At("waiting")' \subseteq At("waiting")
        BY <2>3, <3>1 DEF At
      <3>3. In(Promising)' = In(Promising) \cup {v} /\ v \notin In(Promising)
        BY <2>3, <3>1 DEF In, Promising
      <3>4. Cardinality(In(Promising)') = Cardinality(In(Promising)) + 1
        BY <3>3, AwakeIsNat, FS_AddElement
      <3>5. \A n \in Int : n + 1 + 0 <= n + 1 + 0
        OBVIOUS
      <3>6. Promised + 0 <= Promised'
        BY <1>3, <2>1, <3>4, <3>5, Zenon DEF Promised, Awake
      <3>7. Available' <= Available + 0
        BY <1>1, <2>1 DEF poolVars, Available
      <3>8. QED
        BY <1>1, <1>2, <2>1, <3>2, <3>6, <3>7, StillWakeful
    <2>4. QED
      BY <1>7, <2>2, <2>3 DEF KeeperAnnounces
  <1>8. QED
    BY <1>4, <1>5, <1>6, <1>7 DEF KeeperStep

LEMMA OwnerSteps ==
  ASSUME PoolInv, BorrowersWake, StartBegins \/ ShutdownClosed \/ ShutdownBegins \/ OwnerStep
  PROVE  BorrowersWake'
  <1>1. CASE StartBegins \/ StartFails \/ StartOpens \/ StartReturns \/ StartLosesKeeper
    <2>1. At("waiting") = {}
      BY <1>1 DEF PoolInv, LifeCycle, BeforeStart, Unopened, StartBegins, StartFails,
             StartOpens, StartReturns, StartLosesKeeper, At
    <2>2. At("waiting")' = {}
      BY <1>1, <2>1 DEF PoolInv, TypeOK, StartBegins, StartFails, StartOpens,
             StartReturns, StartLosesKeeper, AllWaitersWoken, At
    <2>3. QED
      BY <2>2 DEF BorrowersWake
  <1>2. CASE ShutdownBegins
    BY <1>2 DEF ShutdownBegins, BorrowersWake
  <1>3. CASE ShutdownWakes
    <2>1. At("waiting")' = {}
      BY <1>3 DEF PoolInv, TypeOK, ShutdownWakes, AllWaitersWoken, At
    <2>2. QED
      BY <2>1 DEF BorrowersWake
  <1>4. CASE ShutdownClosed \/ ShutdownJoins \/ ShutdownWaits \/ ShutdownReturns
    <2>1. /\ state # "Running" /\ owner # "waking" /\ state' # "Running"
          /\ pc' = pc /\ keeperFailed' = keeperFailed
      BY <1>4 DEF PoolInv, LifeCycle, ShutdownClosed, ShutdownJoins, ShutdownWaits,
             ShutdownReturns, poolVars
    <2>2. QED
      BY <2>1 DEF BorrowersWake, At
  <1>5. QED
    BY <1>1, <1>2, <1>3, <1>4 DEF OwnerStep

LEMMA BorrowersWakeStep ==
  ASSUME PoolInv, PoolInv', BorrowersWake, [Next]_vars
  PROVE  BorrowersWake'
  <1>1. ASSUME NEW b \in Borrowers, Acquire(b) \/ WaitTimeout(b) PROVE BorrowersWake'
    BY <1>1, BorrowingSteps, TimeoutStep
  <1>2. ASSUME NEW b \in Borrowers, BorrowerStep(b) PROVE BorrowersWake'
    BY <1>2, BorrowingSteps, NotifyingSteps, ClosedSteps, WaitStep DEF BorrowerStep
  <1>3. ASSUME NEW b \in Borrowers, ReleaseStep(b) PROVE BorrowersWake'
    BY <1>3, BorrowingSteps DEF ReleaseStep
  <1>4. CASE KeeperStep \/ KeeperExpires \/ KeeperTimeout
    BY <1>4, KeeperSteps
  <1>5. CASE StartBegins \/ ShutdownClosed \/ ShutdownBegins \/ OwnerStep
    BY <1>5, OwnerSteps
  <1>6. CASE Terminated \/ UNCHANGED vars
    <2>1. UNCHANGED vars
      BY <1>6 DEF Terminated
    <2>2. QED
      BY <2>1 DEF vars, poolVars, keeperVars, ownerVars, BorrowersWake, Available,
             Promised, Awake, In, At
  <1>7. QED
    BY <1>1, <1>2, <1>3, <1>4, <1>5, <1>6 DEF Next

-----------------------------------------------------------------------------
(* The theorem.                                                            *)

LEMMA InitWake == Init => WakeInv
  <1> SUFFICES ASSUME Init PROVE WakeInv
    OBVIOUS
  <1>1. At("waiting") = {}
    BY DEF Init, At
  <1>2. QED
    BY <1>1 DEF Init, WakeInv, BorrowersWake, JoinedFirst, OwnerWakeup

LEMMA WakeStep == PoolInv /\ WakeInv /\ [Next]_vars => WakeInv'
  <1> SUFFICES ASSUME PoolInv, WakeInv, [Next]_vars PROVE WakeInv'
    OBVIOUS
  <1>1. PoolInv'
    BY PoolStep
  <1>2. QED
    BY <1>1, JoinedStep, OwnerWakeupStep, BorrowersWakeStep DEF WakeInv

LEMMA LeastIsLess ==
  ASSUME NEW a \in Int, NEW w \in Nat, NEW n \in Nat, w = 0 \/ a <= n
  PROVE  Least(a, w) <= n
  BY DEF Least

LEMMA WakeInvSuffices == PoolInv /\ WakeInv => Wakeups
  <1> SUFFICES ASSUME PoolInv, WakeInv PROVE Wakeups
    OBVIOUS
  <1>1. BorrowerWakeupUntilKeeperFails
    <2>1. CASE keeperFailed \/ state # "Running"
      BY <2>1 DEF WakeInv, BorrowersWake, BorrowerWakeupUntilKeeperFails, BorrowerWakeup
    <2>2. CASE ~keeperFailed /\ state = "Running"
      <3>1. At("waiting") = {} \/ Available <= Promised
        BY <2>2 DEF WakeInv, BorrowersWake
      <3>2. At("waiting") = In({"waiting"})
        BY DEF At, In
      <3>3. Cardinality(At("waiting")) \in Nat
        BY <3>2, CountIsNat
      <3>4. Cardinality(At("waiting")) = 0 \/ Available <= Promised
        BY <3>1, FS_EmptySet
      <3>5. Least(Available, Cardinality(At("waiting"))) <= Promised
        BY <3>3, <3>4, Numbers, LeastIsLess
      <3>6. QED
        BY <2>2, <3>5
        DEF BorrowerWakeupUntilKeeperFails, BorrowerWakeup, Available, Promised, Awake, Promising
    <2>3. QED
      BY <2>1, <2>2
  <1>2. QED
    BY <1>1 DEF WakeInv, Wakeups

\* Nobody sleeps on the pool who could go on: no borrower beside a connection
\* or a slot, up to the first failed creation by the maintenance thread, and
\* not the thread that waits for the last connection to come back.
THEOREM NobodyOversleeps == Spec => []Wakeups
  <1>1. Spec => []WakeInv
    BY PoolIsInvariant, InitWake, WakeStep, PTL DEF Spec
  <1>2. QED
    BY <1>1, PoolIsInvariant, WakeInvSuffices, PTL

=============================================================================
