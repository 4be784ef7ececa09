--------------------------- MODULE PgAdvisoryLock ---------------------------
(***************************************************************************)
(* PgAdvisoryLock and its guard (sqlx-postgres/src/advisory_lock.rs): one  *)
(* key, locked by the sessions of a pool.  The lock is re-entrant, belongs *)
(* to the session and not to a transaction, and is given back when its     *)
(* session ends.  A guard that is dropped only queues the unlock on the    *)
(* connection, behind which a ROLLBACK may be queued too.                  *)
(***************************************************************************)
EXTENDS Integers

CONSTANTS
    Sessions,     \* connections
    MaxGuards,    \* bound: guards and locks of a session
    MaxStuck,     \* bound: locks nobody can release
    MayCancel     \* calls whose futures are dropped: "acquire", "release_now"

VARIABLES
    held,      \* times the session holds the lock
    waiting,   \* the call each connection is in: "none", "acquire", "orphan" or "release_now"
    guards,    \* live PgAdvisoryLockGuards
    leaked,    \* guards that were leaked
    stuck,     \* locks whose guard is gone and whose unlock did not happen
    queue,     \* the write buffer: unlocks, and those queued behind a ROLLBACK
    intx,      \* transaction of the session: "none", "open" or "failed"
    place      \* "pool" or "user"

\* early: unlocks at the front; rollback: whether a ROLLBACK follows; late: unlocks
\* behind it.
NothingQueued == [early |-> 0, rollback |-> FALSE, late |-> 0]

lockVars == <<held, waiting, guards, leaked, stuck, queue, intx, place>>

LockInit ==
    /\ held = [s \in Sessions |-> 0] /\ waiting = [s \in Sessions |-> "none"]
    /\ guards = [s \in Sessions |-> 0] /\ leaked = [s \in Sessions |-> 0]
    /\ stuck = [s \in Sessions |-> 0] /\ queue = [s \in Sessions |-> NothingQueued]
    /\ intx = [s \in Sessions |-> "none"] /\ place = [s \in Sessions |-> "pool"]

-----------------------------------------------------------------------------
(* The server: statements of one session, in order.                        *)

Available(s) == \A t \in Sessions \ {s} : held[t] = 0

\* The server hands an unlocked lock to a session that waits for it, before
\* anybody can try for it.
Unclaimed(s) == \A t \in Sessions \ {s} : waiting[t] \notin {"acquire", "orphan"}

Unlocks(q) == q.early + q.late

Unlocking(q) == IF q.rollback THEN [q EXCEPT !.late = @ + 1] ELSE [q EXCEPT !.early = @ + 1]

\* What the queued statements do: an unlock fails in a failed transaction, and the
\* ROLLBACK ends it.
Flushed(s) ==
    LET q == queue[s]
        refused == IF intx[s] = "failed" THEN q.early ELSE 0
    IN [held  |-> held[s] - (Unlocks(q) - refused),
        tx    |-> IF q.rollback THEN "none" ELSE intx[s],
        stuck |-> stuck[s] + refused]

\* A call on the connection flushes the queue first.
FlushTo(s, f) ==
    /\ queue' = [queue EXCEPT ![s] = NothingQueued]
    /\ intx' = [intx EXCEPT ![s] = f.tx]
    /\ stuck' = [stuck EXCEPT ![s] = f.stuck]

Usable(s) == place[s] = "user" /\ waiting[s] = "none"

-----------------------------------------------------------------------------
(* Connections.                                                            *)

CheckOut(s) ==
    /\ place[s] = "pool" /\ waiting[s] = "none"
    /\ place' = [place EXCEPT ![s] = "user"]
    /\ UNCHANGED <<held, waiting, guards, leaked, stuck, queue, intx>>

\* A query: it may begin a transaction, end one, or fail in it.
Run(s, tx) ==
    LET f == Flushed(s) IN
    /\ Usable(s)
    /\ CASE f.tx = "none"   -> tx \in {"none", "open"}
         [] f.tx = "open"   -> tx \in {"open", "failed", "none"}
         [] f.tx = "failed" -> tx \in {"failed", "none"}
    /\ FlushTo(s, [f EXCEPT !.tx = tx])
    /\ held' = [held EXCEPT ![s] = f.held]
    /\ UNCHANGED <<waiting, guards, leaked, place>>

\* A Transaction is dropped: its ROLLBACK is queued.
DropLockTransaction(s) ==
    /\ Usable(s) /\ intx[s] # "none" /\ ~queue[s].rollback
    /\ queue' = [queue EXCEPT ![s].rollback = TRUE]
    /\ UNCHANGED <<held, waiting, guards, leaked, stuck, intx, place>>

\* Mutant: nothing flushes the queue.
ReturnUnflushed(s) ==
    LET f == Flushed(s) IN
    /\ Usable(s) /\ guards[s] = 0
    /\ f.tx = "none"
    /\ UNCHANGED <<held, queue, stuck, intx>>
    /\ place' = [place EXCEPT ![s] = "pool"]
    /\ UNCHANGED <<waiting, guards, leaked>>

\* return_to_pool() pings, which flushes the queue.  Guards do not outlive the
\* PoolConnection; a transaction has ended or queued its ROLLBACK.
ReturnSession(s) ==
    LET f == Flushed(s) IN
    /\ Usable(s) /\ guards[s] = 0
    /\ f.tx = "none"
    /\ FlushTo(s, f) /\ held' = [held EXCEPT ![s] = f.held]
    /\ place' = [place EXCEPT ![s] = "pool"]
    /\ UNCHANGED <<waiting, guards, leaked>>

\* The session ends, and another connection takes its place.
EndSession(s) ==
    /\ place[s] = "user" /\ guards[s] = 0 /\ (held[s] > 0 \/ queue[s] # NothingQueued)
    /\ held' = [held EXCEPT ![s] = 0] /\ waiting' = [waiting EXCEPT ![s] = "none"]
    /\ leaked' = [leaked EXCEPT ![s] = 0] /\ stuck' = [stuck EXCEPT ![s] = 0]
    /\ queue' = [queue EXCEPT ![s] = NothingQueued] /\ intx' = [intx EXCEPT ![s] = "none"]
    /\ place' = [place EXCEPT ![s] = "pool"]
    /\ UNCHANGED guards

-----------------------------------------------------------------------------
(* The lock.                                                               *)

AcquireLock(s) ==
    LET f == Flushed(s) IN
    /\ Usable(s) /\ f.tx # "failed" /\ f.held < MaxGuards
    /\ FlushTo(s, f) /\ held' = [held EXCEPT ![s] = f.held]
    /\ waiting' = [waiting EXCEPT ![s] = "acquire"]
    /\ UNCHANGED <<guards, leaked, place>>

\* pg_advisory_lock() returns: to acquire(), or to nobody if that was dropped.
Granted(s) ==
    /\ waiting[s] \in {"acquire", "orphan"} /\ Available(s)
    /\ held' = [held EXCEPT ![s] = @ + 1]
    /\ waiting' = [waiting EXCEPT ![s] = "none"]
    /\ IF waiting[s] = "acquire"
         THEN guards' = [guards EXCEPT ![s] = @ + 1] /\ UNCHANGED stuck
         ELSE stuck' = [stuck EXCEPT ![s] = @ + 1] /\ UNCHANGED guards
    /\ UNCHANGED <<leaked, queue, intx, place>>

CancelAcquire(s) ==
    /\ waiting[s] = "acquire" /\ "acquire" \in MayCancel /\ stuck[s] < MaxStuck
    /\ waiting' = [waiting EXCEPT ![s] = "orphan"]
    /\ UNCHANGED <<held, guards, leaked, stuck, queue, intx, place>>

\* pg_try_advisory_lock() does not wait.
TryAcquire(s) ==
    LET f == Flushed(s) IN
    /\ Usable(s) /\ f.tx # "failed" /\ f.held < MaxGuards
    /\ FlushTo(s, f)
    /\ LET n == IF Available(s) /\ (f.held > 0 \/ Unclaimed(s)) THEN 1 ELSE 0
       IN  held' = [held EXCEPT ![s] = f.held + n] /\ guards' = [guards EXCEPT ![s] = @ + n]
    /\ UNCHANGED <<waiting, leaked, place>>

\* Mutant: no unlock is queued.
DropGuardSilently(s) ==
    /\ Usable(s) /\ guards[s] > 0 /\ Unlocks(queue[s]) < MaxGuards
    /\ guards' = [guards EXCEPT ![s] = @ - 1]
    /\ UNCHANGED queue
    /\ UNCHANGED <<held, waiting, leaked, stuck, intx, place>>

\* PgAdvisoryLockGuard::drop().
DropGuard(s) ==
    /\ Usable(s) /\ guards[s] > 0 /\ Unlocks(queue[s]) < MaxGuards
    /\ guards' = [guards EXCEPT ![s] = @ - 1]
    /\ queue' = [queue EXCEPT ![s] = Unlocking(@)]
    /\ UNCHANGED <<held, waiting, leaked, stuck, intx, place>>

Leak(s) ==
    /\ Usable(s) /\ guards[s] > 0
    /\ guards' = [guards EXCEPT ![s] = @ - 1]
    /\ leaked' = [leaked EXCEPT ![s] = @ + 1]
    /\ UNCHANGED <<held, waiting, stuck, queue, intx, place>>

\* release_now() takes the connection out of the guard before it awaits, so that neither
\* an error nor a cancellation leaves a guard that would try again.
ReleaseNow(s) ==
    LET f == Flushed(s) IN
    /\ Usable(s) /\ guards[s] > 0 /\ f.stuck < MaxStuck
    /\ guards' = [guards EXCEPT ![s] = @ - 1]
    /\ IF f.tx = "failed"
         THEN FlushTo(s, [f EXCEPT !.stuck = @ + 1]) /\ held' = [held EXCEPT ![s] = f.held]
         ELSE \/ FlushTo(s, f) /\ held' = [held EXCEPT ![s] = f.held - 1]
              \/ /\ "release_now" \in MayCancel
                 /\ stuck' = [stuck EXCEPT ![s] = @ + 1]
                 /\ UNCHANGED <<held, queue, intx>>
    /\ UNCHANGED <<waiting, leaked, place>>

\* force_release() of a lock whose guard was leaked.
ForceRelease(s) ==
    LET f == Flushed(s) IN
    /\ Usable(s) /\ leaked[s] > 0 /\ f.tx # "failed"
    /\ FlushTo(s, f) /\ held' = [held EXCEPT ![s] = f.held - 1]
    /\ leaked' = [leaked EXCEPT ![s] = @ - 1]
    /\ UNCHANGED <<waiting, guards, place>>

LockSteps(s) ==
    \/ Granted(s) \/ ReturnSession(s) \/ DropGuard(s)

LockNext ==
    \E s \in Sessions :
      \/ LockSteps(s) \/ CheckOut(s) \/ DropLockTransaction(s) \/ EndSession(s)
      \/ AcquireLock(s) \/ CancelAcquire(s) \/ TryAcquire(s) \/ Leak(s) \/ ReleaseNow(s)
      \/ ForceRelease(s)
      \/ \E tx \in {"none", "open", "failed"} : Run(s, tx)

LockSpec == LockInit /\ [][LockNext]_lockVars

-----------------------------------------------------------------------------
(* Properties.                                                             *)

\* Only one session at a time has a guard, and every guard's lock is held: no unlock that
\* another guard queued is executed in its place.
GuardMeansLocked ==
    /\ \A s \in Sessions : guards[s] > 0 => held[s] > 0
    /\ \A s, t \in Sessions : guards[s] > 0 /\ guards[t] > 0 => s = t

\* Every lock of a session is accounted for: by a guard, by an unlock in the write
\* buffer, by a leak, or by an unlock that was refused or cancelled.
LocksAccounted ==
    \A s \in Sessions :
      held[s] = guards[s] + Unlocks(queue[s]) + leaked[s] + stuck[s]

\* A connection in the pool holds the lock only if a guard was leaked, or if an unlock
\* was refused by a failed transaction or cut off.
PooledIsUnlocked ==
    \A s \in Sessions :
      place[s] = "pool" => queue[s] = NothingQueued /\ held[s] = leaked[s] + stuck[s]

\* A PgAdvisoryLockGuard means the lock, and no lock outlives its guard except
\* by a leak or a refused unlock.
AdvisoryLocksExact == GuardMeansLocked /\ LocksAccounted /\ PooledIsUnlocked

\* acquire() returns once the other sessions have dropped their guards and used or
\* returned their connections, if no lock was leaked or stuck.
AcquireReturns ==
    \A s \in Sessions :
      waiting[s] = "acquire"
        ~> waiting[s] # "acquire" \/ \E t \in Sessions : leaked[t] + stuck[t] > 0
=============================================================================
