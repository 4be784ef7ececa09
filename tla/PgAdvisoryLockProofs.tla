------------------------ MODULE PgAdvisoryLockProofs ------------------------
(***************************************************************************)
(* Safety of PgAdvisoryLock for any number of sessions and guards.         *)
(***************************************************************************)
EXTENDS PgAdvisoryLock, TLAPS

Queues == [early : Nat, rollback : BOOLEAN, late : Nat]

\* The variables have their types; no session unlocks more often than it locked.
LockType ==
    /\ held \in [Sessions -> Nat] /\ guards \in [Sessions -> Nat]
    /\ leaked \in [Sessions -> Nat] /\ stuck \in [Sessions -> Nat]
    /\ waiting \in [Sessions -> {"none", "acquire", "orphan", "release_now"}]
    /\ queue \in [Sessions -> Queues]
    /\ intx \in [Sessions -> {"none", "open", "failed"}]
    /\ place \in [Sessions -> {"pool", "user"}]

\* The server's promise: the lock belongs to one session.
OneHolder == \A s, t \in Sessions : held[s] > 0 /\ held[t] > 0 => s = t

\* A connection in the pool has no guard, no queued statement and no call.
PooledAtRest ==
    \A s \in Sessions :
      place[s] = "pool" => queue[s] = NothingQueued /\ guards[s] = 0 /\ waiting[s] = "none"

\* AdvisoryLocksExact says nothing of a session whose locks all come from leaks and refused
\* unlocks; that such a lock excludes the others too is what makes it inductive.
LockInv == LockType /\ LocksAccounted /\ OneHolder /\ PooledAtRest

-----------------------------------------------------------------------------
(* Flushing the write buffer.                                              *)

\* A flush executes or refuses every queued unlock: what the session holds afterwards
\* belongs to guards, leaks and refused unlocks, and it is no more than before.
LEMMA FlushedExact ==
    ASSUME LockInv, NEW s \in Sessions
    PROVE  LET f == Flushed(s) IN
           /\ f.held \in Nat /\ f.stuck \in Nat /\ f.tx \in {"none", "open", "failed"}
           /\ f.held = guards[s] + leaked[s] + f.stuck
           /\ f.held <= held[s]
<1>1. PICK q : q = queue[s]
  OBVIOUS
<1>2. /\ q.early \in Nat /\ q.late \in Nat /\ q.rollback \in BOOLEAN
      /\ held[s] \in Nat /\ stuck[s] \in Nat /\ guards[s] \in Nat /\ leaked[s] \in Nat
      /\ intx[s] \in {"none", "open", "failed"}
  BY <1>1 DEF LockInv, LockType, Queues
<1>3. held[s] = guards[s] + (q.early + q.late) + leaked[s] + stuck[s]
  BY <1>1 DEF LockInv, LocksAccounted, Unlocks
<1>4. CASE intx[s] = "failed"
  BY <1>1, <1>2, <1>3, <1>4 DEF Flushed, Unlocks
<1>5. CASE intx[s] # "failed"
  BY <1>1, <1>2, <1>3, <1>5 DEF Flushed, Unlocks
<1> QED BY <1>4, <1>5

\* A step that changes the locks of s alone keeps the invariant if it balances the books of
\* s, and if s comes to hold the lock only when nobody else does.
LEMMA LocalStep ==
    ASSUME LockInv, LockType', NEW s \in Sessions,
           \A t \in Sessions \ {s} :
             /\ held'[t] = held[t] /\ guards'[t] = guards[t] /\ leaked'[t] = leaked[t]
             /\ stuck'[t] = stuck[t] /\ queue'[t] = queue[t]
             /\ place'[t] = place[t] /\ waiting'[t] = waiting[t],
           held'[s] = guards'[s] + Unlocks(queue'[s]) + leaked'[s] + stuck'[s],
           held'[s] <= held[s] \/ \A t \in Sessions \ {s} : held[t] = 0,
           place'[s] = "pool" =>
             queue'[s] = NothingQueued /\ guards'[s] = 0 /\ waiting'[s] = "none"
    PROVE  LockInv'
<1>1. LocksAccounted'
  BY DEF LockInv, LocksAccounted
<1>2. OneHolder'
  BY DEF LockInv, LockType, OneHolder
<1>3. PooledAtRest'
  BY DEF LockInv, PooledAtRest
<1> QED BY <1>1, <1>2, <1>3 DEF LockInv

-----------------------------------------------------------------------------
(* Every action keeps the invariant.                                       *)

\* Connections are checked out, used, returned and ended.
LEMMA ConnectionSteps ==
    ASSUME LockInv, NEW s \in Sessions, NEW tx \in {"none", "open", "failed"},
           CheckOut(s) \/ Run(s, tx) \/ DropLockTransaction(s) \/ ReturnSession(s) \/ EndSession(s)
    PROVE  LockInv'
<1> DEFINE f == Flushed(s)
<1>f. /\ f.held \in Nat /\ f.stuck \in Nat /\ f.tx \in {"none", "open", "failed"}
      /\ f.held = guards[s] + leaked[s] + f.stuck
      /\ f.held <= held[s]
  BY FlushedExact
<1>q. NothingQueued \in Queues /\ Unlocks(NothingQueued) = 0
  BY DEF NothingQueued, Queues, Unlocks
<1>s. held[s] = guards[s] + Unlocks(queue[s]) + leaked[s] + stuck[s]
  BY DEF LockInv, LocksAccounted
<1> HIDE DEF f
<1>1. CASE CheckOut(s)
  <2>1. LockType'
    BY <1>1 DEF LockInv, LockType, CheckOut
  <2> QED BY <1>1, <1>s, <2>1, LocalStep DEF CheckOut, LockInv, LockType
<1>2. CASE Run(s, tx)
  <2>1. LockType'
    BY <1>2, <1>f, <1>q DEF LockInv, LockType, Run, FlushTo, f
  <2>2. /\ held' = [held EXCEPT ![s] = f.held] /\ stuck' = [stuck EXCEPT ![s] = f.stuck]
        /\ queue' = [queue EXCEPT ![s] = NothingQueued]
        /\ place[s] = "user" /\ UNCHANGED <<waiting, guards, leaked, place>>
    BY <1>2 DEF Run, FlushTo, Usable, f
  <2> QED BY <1>f, <1>q, <2>1, <2>2, LocalStep DEF LockInv, LockType
<1>3. CASE DropLockTransaction(s)
  <2>1. PICK q : q = queue[s]
    OBVIOUS
  <2>2. /\ queue' = [queue EXCEPT ![s] = [q EXCEPT !.rollback = TRUE]]
        /\ place[s] = "user" /\ UNCHANGED <<held, waiting, guards, leaked, stuck, intx, place>>
    BY <1>3, <2>1 DEF DropLockTransaction, Usable
  <2>3. /\ [q EXCEPT !.rollback = TRUE] \in Queues
        /\ Unlocks([q EXCEPT !.rollback = TRUE]) = Unlocks(q)
    <3>1. q \in Queues
      BY <2>1 DEF LockInv, LockType
    <3> QED BY <3>1 DEF Queues, Unlocks
  <2>4. LockType'
    BY <2>2, <2>3 DEF LockInv, LockType
  <2>5. queue'[s] = [q EXCEPT !.rollback = TRUE] /\ \A t \in Sessions \ {s} : queue'[t] = queue[t]
    BY <2>2 DEF LockInv, LockType
  <2>6. Unlocks(queue'[s]) = Unlocks(queue[s])
    BY <2>1, <2>3, <2>5
  <2>7. held'[s] <= held[s]
    BY <2>2 DEF LockInv, LockType
  <2> QED BY <1>s, <2>2, <2>4, <2>5, <2>6, <2>7, LocalStep
<1>4. CASE ReturnSession(s)
  <2>1. /\ held' = [held EXCEPT ![s] = f.held] /\ stuck' = [stuck EXCEPT ![s] = f.stuck]
        /\ queue' = [queue EXCEPT ![s] = NothingQueued]
        /\ place' = [place EXCEPT ![s] = "pool"] /\ intx' = [intx EXCEPT ![s] = f.tx]
        /\ waiting[s] = "none" /\ guards[s] = 0 /\ UNCHANGED <<waiting, guards, leaked>>
    BY <1>4 DEF ReturnSession, FlushTo, Usable, f
  <2>2. LockType'
    BY <2>1, <1>f, <1>q DEF LockInv, LockType
  <2> QED BY <1>f, <1>q, <2>1, <2>2, LocalStep DEF LockInv, LockType
<1>5. CASE EndSession(s)
  <2>1. LockType'
    BY <1>5, <1>q DEF LockInv, LockType, EndSession
  <2>2. /\ held'[s] = 0 /\ stuck'[s] = 0 /\ leaked'[s] = 0 /\ guards'[s] = 0
        /\ queue'[s] = NothingQueued /\ waiting'[s] = "none"
    BY <1>5 DEF EndSession, LockInv, LockType
  <2>3. \A t \in Sessions \ {s} :
          /\ held'[t] = held[t] /\ guards'[t] = guards[t] /\ leaked'[t] = leaked[t]
          /\ stuck'[t] = stuck[t] /\ queue'[t] = queue[t]
          /\ place'[t] = place[t] /\ waiting'[t] = waiting[t]
    BY <1>5 DEF EndSession, LockInv, LockType
  <2>4. held'[s] <= held[s]
    BY <2>2 DEF LockInv, LockType
  <2>5. held'[s] = guards'[s] + Unlocks(queue'[s]) + leaked'[s] + stuck'[s]
    BY <1>q, <2>2
  <2> QED BY <2>1, <2>2, <2>3, <2>4, <2>5, LocalStep
<1> QED BY <1>1, <1>2, <1>3, <1>4, <1>5

\* The lock is asked for and granted.
LEMMA AcquireSteps ==
    ASSUME LockInv, NEW s \in Sessions,
           AcquireLock(s) \/ Granted(s) \/ CancelAcquire(s) \/ TryAcquire(s)
    PROVE  LockInv'
<1> DEFINE f == Flushed(s)
<1>f. /\ f.held \in Nat /\ f.stuck \in Nat /\ f.tx \in {"none", "open", "failed"}
      /\ f.held = guards[s] + leaked[s] + f.stuck
      /\ f.held <= held[s]
  BY FlushedExact
<1>q. NothingQueued \in Queues /\ Unlocks(NothingQueued) = 0
  BY DEF NothingQueued, Queues, Unlocks
<1>s. held[s] = guards[s] + Unlocks(queue[s]) + leaked[s] + stuck[s] /\ Unlocks(queue[s]) \in Nat
  BY DEF LockInv, LocksAccounted, LockType, Queues, Unlocks
<1> HIDE DEF f
<1>1. CASE AcquireLock(s)
  <2>1. /\ held' = [held EXCEPT ![s] = f.held] /\ stuck' = [stuck EXCEPT ![s] = f.stuck]
        /\ queue' = [queue EXCEPT ![s] = NothingQueued] /\ intx' = [intx EXCEPT ![s] = f.tx]
        /\ waiting' = [waiting EXCEPT ![s] = "acquire"]
        /\ place[s] = "user" /\ UNCHANGED <<guards, leaked, place>>
    BY <1>1 DEF AcquireLock, FlushTo, Usable, f
  <2>2. LockType'
    BY <2>1, <1>f, <1>q DEF LockInv, LockType
  <2> QED BY <1>f, <1>q, <2>1, <2>2, LocalStep DEF LockInv, LockType
<1>2. CASE Granted(s)
  <2>1. place[s] = "user"
    BY <1>2 DEF Granted, LockInv, LockType, PooledAtRest
  <2>2. /\ held' = [held EXCEPT ![s] = @ + 1] /\ waiting' = [waiting EXCEPT ![s] = "none"]
        /\ \A t \in Sessions \ {s} : held[t] = 0
        /\ UNCHANGED <<leaked, queue, intx, place>>
    BY <1>2 DEF Granted, Available
  <2>3. CASE waiting[s] = "acquire"
    <3>1. guards' = [guards EXCEPT ![s] = @ + 1] /\ UNCHANGED stuck
      BY <1>2, <2>3 DEF Granted
    <3>2. LockType'
      BY <2>2, <3>1 DEF LockInv, LockType
    <3> QED BY <1>s, <2>1, <2>2, <3>1, <3>2, LocalStep DEF LockInv, LockType
  <2>4. CASE waiting[s] # "acquire"
    <3>1. stuck' = [stuck EXCEPT ![s] = @ + 1] /\ UNCHANGED guards
      BY <1>2, <2>4 DEF Granted
    <3>2. LockType'
      BY <2>2, <3>1 DEF LockInv, LockType
    <3> QED BY <1>s, <2>1, <2>2, <3>1, <3>2, LocalStep DEF LockInv, LockType
  <2> QED BY <2>3, <2>4
<1>3. CASE CancelAcquire(s)
  <2>1. place[s] = "user"
    BY <1>3 DEF CancelAcquire, LockInv, LockType, PooledAtRest
  <2>2. LockType'
    BY <1>3 DEF LockInv, LockType, CancelAcquire
  <2> QED BY <1>3, <1>s, <2>1, <2>2, LocalStep DEF CancelAcquire, LockInv, LockType
<1>4. CASE TryAcquire(s)
  <2>1. PICK n : n = IF Available(s) /\ (f.held > 0 \/ Unclaimed(s)) THEN 1 ELSE 0
    OBVIOUS
  <2>2. /\ held' = [held EXCEPT ![s] = f.held + n] /\ stuck' = [stuck EXCEPT ![s] = f.stuck]
        /\ guards' = [guards EXCEPT ![s] = @ + n]
        /\ queue' = [queue EXCEPT ![s] = NothingQueued] /\ intx' = [intx EXCEPT ![s] = f.tx]
        /\ place[s] = "user" /\ UNCHANGED <<waiting, leaked, place>>
    BY <1>4, <2>1 DEF TryAcquire, FlushTo, Usable, f
  <2>3. /\ n \in {0, 1}
        /\ n = 0 \/ \A t \in Sessions \ {s} : held[t] = 0
    BY <2>1 DEF Available
  <2>4. LockType'
    BY <2>2, <2>3, <1>f, <1>q DEF LockInv, LockType
  <2> QED BY <1>f, <1>q, <2>2, <2>3, <2>4, LocalStep DEF LockInv, LockType
<1> QED BY <1>1, <1>2, <1>3, <1>4

\* The lock is released, or its guard is leaked.
LEMMA ReleaseSteps ==
    ASSUME LockInv, NEW s \in Sessions,
           DropGuard(s) \/ Leak(s) \/ ReleaseNow(s) \/ ForceRelease(s)
    PROVE  LockInv'
<1> DEFINE f == Flushed(s)
<1>f. /\ f.held \in Nat /\ f.stuck \in Nat /\ f.tx \in {"none", "open", "failed"}
      /\ f.held = guards[s] + leaked[s] + f.stuck
      /\ f.held <= held[s]
  BY FlushedExact
<1>q. NothingQueued \in Queues /\ Unlocks(NothingQueued) = 0
  BY DEF NothingQueued, Queues, Unlocks
<1>s. held[s] = guards[s] + Unlocks(queue[s]) + leaked[s] + stuck[s] /\ Unlocks(queue[s]) \in Nat
  BY DEF LockInv, LocksAccounted, LockType, Queues, Unlocks
<1> HIDE DEF f
<1>1. CASE DropGuard(s)
  <2>1. PICK q : q = queue[s]
    OBVIOUS
  <2>2. /\ guards[s] > 0 /\ guards' = [guards EXCEPT ![s] = @ - 1]
        /\ queue' = [queue EXCEPT ![s] = Unlocking(q)]
        /\ place[s] = "user" /\ UNCHANGED <<held, waiting, leaked, stuck, intx, place>>
    BY <1>1, <2>1 DEF DropGuard, Usable
  <2>3. Unlocking(q) \in Queues /\ Unlocks(Unlocking(q)) = Unlocks(q) + 1
    BY <2>1 DEF LockInv, LockType, Queues, Unlocks, Unlocking
  <2>4. LockType'
    BY <2>2, <2>3 DEF LockInv, LockType
  <2>5. queue'[s] = Unlocking(q)
    BY <2>2 DEF LockInv, LockType
  <2> QED BY <1>s, <2>1, <2>2, <2>3, <2>4, <2>5, LocalStep DEF LockInv, LockType
<1>2. CASE Leak(s)
  <2>1. /\ guards[s] > 0 /\ guards' = [guards EXCEPT ![s] = @ - 1]
        /\ leaked' = [leaked EXCEPT ![s] = @ + 1]
        /\ place[s] = "user" /\ UNCHANGED <<held, waiting, stuck, queue, intx, place>>
    BY <1>2 DEF Leak, Usable
  <2>2. LockType'
    BY <2>1 DEF LockInv, LockType
  <2> QED BY <1>s, <2>1, <2>2, LocalStep DEF LockInv, LockType
<1>3. CASE ReleaseNow(s)
  <2>1. /\ guards[s] > 0 /\ guards' = [guards EXCEPT ![s] = @ - 1]
        /\ place[s] = "user" /\ UNCHANGED <<waiting, leaked, place>>
    BY <1>3 DEF ReleaseNow, Usable
  <2>2. CASE /\ f.tx = "failed"
             /\ FlushTo(s, [f EXCEPT !.stuck = @ + 1]) /\ held' = [held EXCEPT ![s] = f.held]
    <3>1. /\ stuck' = [stuck EXCEPT ![s] = f.stuck + 1] /\ intx' = [intx EXCEPT ![s] = f.tx]
          /\ queue' = [queue EXCEPT ![s] = NothingQueued]
      BY <2>2 DEF FlushTo, f, Flushed
    <3>2. LockType'
      BY <2>1, <2>2, <3>1, <1>f, <1>q DEF LockInv, LockType
    <3> QED BY <1>f, <1>q, <2>1, <2>2, <3>1, <3>2, LocalStep DEF LockInv, LockType
  <2>3. CASE FlushTo(s, f) /\ held' = [held EXCEPT ![s] = f.held - 1]
    <3>1. /\ stuck' = [stuck EXCEPT ![s] = f.stuck] /\ intx' = [intx EXCEPT ![s] = f.tx]
          /\ queue' = [queue EXCEPT ![s] = NothingQueued]
      BY <2>3 DEF FlushTo
    <3>2. f.held > 0
      BY <1>f, <2>1 DEF LockInv, LockType
    <3>3. LockType'
      BY <2>1, <2>3, <3>1, <3>2, <1>f, <1>q DEF LockInv, LockType
    <3> QED BY <1>f, <1>q, <2>1, <2>3, <3>1, <3>2, <3>3, LocalStep DEF LockInv, LockType
  <2>4. CASE stuck' = [stuck EXCEPT ![s] = @ + 1] /\ UNCHANGED <<held, queue, intx>>
    <3>1. LockType'
      BY <2>1, <2>4 DEF LockInv, LockType
    <3> QED BY <1>s, <2>1, <2>4, <3>1, LocalStep DEF LockInv, LockType
  <2> QED BY <1>3, <2>2, <2>3, <2>4 DEF ReleaseNow, f
<1>4. CASE ForceRelease(s)
  <2>1. /\ held' = [held EXCEPT ![s] = f.held - 1] /\ stuck' = [stuck EXCEPT ![s] = f.stuck]
        /\ queue' = [queue EXCEPT ![s] = NothingQueued] /\ intx' = [intx EXCEPT ![s] = f.tx]
        /\ leaked[s] > 0 /\ leaked' = [leaked EXCEPT ![s] = @ - 1]
        /\ place[s] = "user" /\ UNCHANGED <<waiting, guards, place>>
    BY <1>4 DEF ForceRelease, FlushTo, Usable, f
  <2>2. f.held > 0
    BY <1>f, <2>1 DEF LockInv, LockType
  <2>3. LockType'
    BY <2>1, <2>2, <1>f, <1>q DEF LockInv, LockType
  <2> QED BY <1>f, <1>q, <2>1, <2>2, <2>3, LocalStep DEF LockInv, LockType
<1> QED BY <1>1, <1>2, <1>3, <1>4

-----------------------------------------------------------------------------
\* Nobody holds the lock at first.
LEMMA LockInitInv == LockInit => LockInv
BY DEF LockInit, LockInv, LockType, LocksAccounted, OneHolder, PooledAtRest, NothingQueued,
   Queues, Unlocks

\* Every step keeps the invariant.
LEMMA LockNextInv == LockInv /\ [LockNext]_lockVars => LockInv'
<1> SUFFICES ASSUME LockInv, [LockNext]_lockVars PROVE LockInv'
  OBVIOUS
<1>1. CASE LockNext
  BY <1>1, ConnectionSteps, AcquireSteps, ReleaseSteps DEF LockNext, LockSteps
<1>2. CASE UNCHANGED lockVars
  BY <1>2 DEF lockVars, LockInv, LockType, LocksAccounted, OneHolder, PooledAtRest
<1> QED BY <1>1, <1>2

\* The invariant implies the property.
LEMMA LockInvExact == LockInv => AdvisoryLocksExact
<1> SUFFICES ASSUME LockInv PROVE AdvisoryLocksExact
  OBVIOUS
<1>1. \A s \in Sessions :
        /\ held[s] \in Nat /\ guards[s] \in Nat /\ leaked[s] \in Nat /\ stuck[s] \in Nat
        /\ Unlocks(queue[s]) \in Nat
  BY DEF LockInv, LockType, Queues, Unlocks
<1>2. \A s \in Sessions : guards[s] > 0 => held[s] > 0
  BY <1>1 DEF LockInv, LocksAccounted
<1>3. GuardMeansLocked
  BY <1>2 DEF GuardMeansLocked, LockInv, OneHolder
<1>4. PooledIsUnlocked
  BY <1>1 DEF PooledIsUnlocked, LockInv, LocksAccounted, PooledAtRest, NothingQueued, Unlocks
<1> QED BY <1>3, <1>4 DEF AdvisoryLocksExact, LockInv

\* A guard means the lock and excludes every other guard, every lock is accounted for, and
\* a connection goes back to the pool without locks but those leaked or refused: whatever
\* is dropped, cancelled, leaked or refused by a failed transaction, in any order.
THEOREM LocksExact == LockSpec => []AdvisoryLocksExact
BY LockInitInv, LockNextInv, LockInvExact, PTL DEF LockSpec
=============================================================================
