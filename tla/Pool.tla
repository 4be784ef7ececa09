-------------------------------- MODULE Pool --------------------------------
(***************************************************************************)
(* The connection pool of sqlx-core (sqlx-core/src/pool/inner.rs,          *)
(* connection.rs, mod.rs): PoolInner, PoolConnection, Floating and the     *)
(* RAII guard DecrementSizeGuard, over the semaphore of sync.rs.           *)
(*                                                                         *)
(* A process is a future the runtime polls.  A task is "out" until it      *)
(* calls into the pool; dropping a PoolConnection hands the connection to  *)
(* a spawned future, which the model lets the same identifier carry on     *)
(* with.  The reaper is the task of spawn_maintenance_tasks, a closer is a *)
(* call of Pool::close().  pc[p] is the place a process has reached        *)
(* between two accesses to the shared atomics, the queue or the semaphore, *)
(* or at an .await; role[p] is the operation on whose behalf it is there,  *)
(* which decides where a shared helper returns to.                         *)
(*                                                                         *)
(* Connections are anonymous: the idle queue is represented by its length, *)
(* and a process at one of the labels in Guarded owns a DecrementSizeGuard *)
(* (or the PoolConnection made from one).  Time is not modelled: a         *)
(* timeout, an expired lifetime or a failed ping may happen whenever the   *)
(* code checks for it.                                                     *)
(***************************************************************************)
EXTENDS Integers, Sequences, FiniteSets, TLC

CONSTANTS
    Tasks,            \* futures of the application and those the pool spawns
    Reaper,           \* the maintenance task
    Closers,          \* calls of Pool::close()
    HasReaper,        \* max_lifetime or idle_timeout is set; if not, the
                      \* maintenance task only runs min_connections_maintenance() once
    MaxConnections,   \* PoolOptions::max_connections
    MinConnections,   \* PoolOptions::min_connections
    MaxLeaks,         \* bound: calls of PoolConnection::leak()
    WrapCount         \* bound: iterations standing for a wrapped num_idle

\* Tasks are interchangeable.
TaskSymmetry == Permutations(Tasks)

Procs == Tasks \cup {Reaper} \cup Closers

ASSUME ProcsAssumption ==
    /\ IsFiniteSet(Tasks) /\ IsFiniteSet(Closers)
    /\ Reaper \notin Tasks \cup Closers
    /\ Tasks \cap Closers = {}

ASSUME OptionsAssumption ==
    /\ HasReaper \in BOOLEAN
    /\ MaxConnections \in Nat \ {0}
    /\ MinConnections \in Nat
    /\ MaxLeaks \in Nat
    /\ WrapCount \in Nat

VARIABLES
    is_closed,    \* AtomicBool
    armed,        \* processes whose close-event listener is registered and not notified
    permits,      \* free permits of the semaphore
    waiters,      \* its FIFO of waiting processes
    idle,         \* length of idle_conns
    num_idle,     \* AtomicUsize, kept as an integer: a negative value is a wrapped one
    size,         \* AtomicU32
    leaked,       \* connections given away by leak()
    pc, role,     \* see above
    left,         \* iterations left in the reaper's `for _ in 0..num_idle()`
    round         \* `permits` of the loop in close(), per closer

vars == <<is_closed, armed, permits, waiters, idle, num_idle, size, leaked,
          pc, role, left, round>>

-----------------------------------------------------------------------------
(* Labels.                                                                 *)

\* A permit is held and there is no guard yet, or not any more.
PermitOnly == {"permit", "nopop", "inc", "retry", "drop_permit", "pushed", "dec2"}

\* A DecrementSizeGuard (or a PoolConnection) is held: one unit of size.
Guarded == {"popped", "check", "discard", "connect", "dial", "hook", "held",
            "ret", "test", "inspect", "closing", "push", "dec"}

\* Nothing of the pool is held.
Free == {"out", "call", "listen", "wait", "polling", "event", "try", "unpermit",
         "min", "min_permit", "sleep", "reap", "dead",
         "ready", "notify", "drain", "c_size", "c_wait", "c_rel", "done"}

Labels == PermitOnly \cup Guarded \cup Free

Roles == {"acquire", "try", "event", "return", "min", "reap", "close", "gone"}

\* The places where a future is suspended at an .await while it owns a guard.
GuardedAwaits == {"check", "discard", "dial", "hook", "ret", "test", "closing"}

SizeHolders == {p \in Procs : pc[p] \in Guarded}

\* A closer floats the connections it pops without taking a permit.
PermitHolders == {p \in Procs \ Closers : pc[p] \in Guarded \cup PermitOnly}

\* Processes between pop() and fetch_sub, and between push() and fetch_add.
Popped == {p \in Procs : pc[p] = "popped"}
Pushed == {p \in Procs : pc[p] \in {"pushed", "unpermit"}}

-----------------------------------------------------------------------------
(* The semaphore: fair, so a free permit belongs to the head of the queue. *)

Queued(p) == \E i \in 1..Len(waiters) : waiters[i] = p

Dequeue(q, p) ==
    IF \E i \in 1..Len(q) : q[i] = p
    THEN LET k == CHOOSE i \in 1..Len(q) : q[i] = p
         IN  [i \in 1..(Len(q) - 1) |-> IF i < k THEN q[i] ELSE q[i + 1]]
    ELSE q

Enqueue(q, p) == IF \E i \in 1..Len(q) : q[i] = p THEN q ELSE Append(q, p)

\* Mutant: an unfair semaphore.
GrantableUnfair(p, n) == permits >= n

Grantable(p, n) == permits >= n /\ (waiters # <<>> => Head(waiters) = p)

TryGrantable == permits >= 1 /\ waiters = <<>>

-----------------------------------------------------------------------------
(* Control flow.                                                           *)

\* A process that has left the pool plays no role.
StepAs(p, from, to, r) ==
    /\ pc[p] = from
    /\ pc' = [pc EXCEPT ![p] = to]
    /\ role' = [role EXCEPT ![p] = IF to = "out" THEN "gone" ELSE r]

Step(p, from, to) == StepAs(p, from, to, role[p])

\* Where the helpers shared by several operations return to.
Finished(p) == IF p # Reaper THEN "out" ELSE IF HasReaper THEN "reap" ELSE "dead"
AfterDrop(p) == CASE role[p] \in {"return", "reap"} -> "min"
                  [] role[p] = "close" -> "drain"
                  [] role[p] = "gone" -> IF p \in Tasks THEN "out" ELSE "dead"
                  [] OTHER -> Finished(p)
RoleAfterDrop(p) == IF role[p] \in {"return", "reap"} THEN "min" ELSE role[p]
NoIncrement(p) == IF role[p] = "acquire" THEN "retry" ELSE "drop_permit"

closing  == <<is_closed, armed, round>>
counters == <<idle, num_idle, size, leaked>>
sem      == <<permits, waiters>>

Init ==
    /\ is_closed = FALSE
    /\ armed = IF HasReaper THEN {Reaper} ELSE {}
    /\ permits = MaxConnections
    /\ waiters = <<>>
    /\ idle = 0 /\ num_idle = 0 /\ size = 0 /\ leaked = 0
    /\ pc = [p \in Procs |-> CASE p \in Tasks -> "out"
                               [] p \in Closers -> "ready"
                               [] OTHER -> IF HasReaper THEN "sleep" ELSE "min"]
    /\ role = [p \in Procs |-> CASE p \in Tasks -> "gone"
                                 [] p \in Closers -> "close"
                                 [] OTHER -> "min"]
    /\ left = 0
    /\ round = [c \in Closers |-> 1]

-----------------------------------------------------------------------------
(* acquire(), try_acquire(), close_event().                                *)

\* acquire(): the first is_closed() check; a closed pool answers PoolClosed.
Acquire(t) ==
    /\ ~is_closed
    /\ StepAs(t, "out", "call", "acquire")
    /\ UNCHANGED <<closing, counters, sem, left>>

\* Pool::close_event() awaited by the application.
AwaitCloseEvent(t) ==
    /\ StepAs(t, "out", "call", "event")
    /\ UNCHANGED <<closing, counters, sem, left>>

\* close_event(): is_closed() is read, then the listener is registered.
CloseEventCheck(t) ==
    /\ Step(t, "call", IF is_closed THEN "out" ELSE "listen")
    /\ UNCHANGED <<closing, counters, sem, left>>

CloseEventListen(t) ==
    /\ Step(t, "listen", IF role[t] = "event" THEN "event" ELSE "polling")
    /\ armed' = armed \cup {t}
    /\ UNCHANGED <<is_closed, round, counters, sem, left>>

\* The notified listener of an application task resolves its future.
CloseEventFires(t) ==
    /\ t \notin armed
    /\ Step(t, "event", "out")
    /\ UNCHANGED <<closing, counters, sem, left>>

\* do_until(): the close event is polled once, then every poll of the future
\* asks the semaphore first and the close event second.
PollSemaphore(t) ==
    \/ /\ Grantable(t, 1)
       /\ Step(t, "wait", "permit")
       /\ permits' = permits - 1
       /\ waiters' = Dequeue(waiters, t)
       /\ armed' = armed \ {t}
       /\ UNCHANGED <<is_closed, round, counters, left>>
    \/ /\ ~Grantable(t, 1)
       /\ Step(t, "wait", "polling")
       /\ waiters' = Enqueue(waiters, t)
       /\ UNCHANGED <<permits, closing, counters, left>>

PollCloseEvent(t) ==
    /\ Step(t, "polling", IF t \in armed THEN "wait" ELSE "out")
    /\ waiters' = IF t \in armed THEN waiters ELSE Dequeue(waiters, t)
    /\ UNCHANGED <<permits, closing, counters, left>>

\* try_acquire(), for the application and for the reaper.
TryAcquire(t) ==
    /\ ~is_closed
    /\ StepAs(t, "out", "try", "try")
    /\ UNCHANGED <<closing, counters, sem, left>>

TryPermit(p) ==
    /\ Step(p, "try", IF TryGrantable THEN "permit" ELSE Finished(p))
    /\ permits' = IF TryGrantable THEN permits - 1 ELSE permits
    /\ UNCHANGED <<waiters, closing, counters, left>>

\* pop_idle(): the pop and the fetch_sub on num_idle are two accesses.
PopIdle(p) ==
    \/ /\ idle > 0
       /\ Step(p, "permit", "popped")
       /\ idle' = idle - 1
       /\ UNCHANGED <<closing, num_idle, size, leaked, sem, left>>
    \/ /\ idle = 0
       /\ Step(p, "permit", IF role[p] = "acquire" THEN "nopop" ELSE "drop_permit")
       /\ UNCHANGED <<closing, counters, sem, left>>

DecNumIdle(p) ==
    /\ Step(p, "popped", CASE role[p] = "acquire" -> "check"
                           [] role[p] = "reap" -> "inspect"
                           [] OTHER -> "held")
    /\ num_idle' = num_idle - 1
    /\ UNCHANGED <<closing, idle, size, leaked, sem, left>>

\* check_idle_conn(): ping and before_acquire accept or reject the connection.
CheckIdleConn(t) ==
    /\ \E to \in {"held", "discard"} : Step(t, "check", to)
    /\ UNCHANGED <<closing, counters, sem, left>>

\* A rejected connection is closed; its guard is used to open a new one.
Discarded(t) ==
    /\ Step(t, "discard", "connect")
    /\ UNCHANGED <<closing, counters, sem, left>>

-----------------------------------------------------------------------------
(* try_increment_size() and connect().                                     *)

TryIncrementCheck(p) ==
    /\ Step(p, "nopop", IF is_closed THEN NoIncrement(p) ELSE "inc")
    /\ UNCHANGED <<closing, counters, sem, left>>

\* Mutants: an off-by-one in the filter, and no filter.
TryIncrementSizeOffByOne(p) ==
    /\ Step(p, "inc", IF size <= MaxConnections THEN "connect" ELSE NoIncrement(p))
    /\ size' = IF size <= MaxConnections THEN size + 1 ELSE size
    /\ UNCHANGED <<closing, idle, num_idle, leaked, sem, left>>

TryIncrementSize(p) ==
    \/ /\ size < MaxConnections
       /\ Step(p, "inc", "connect")
       /\ size' = size + 1
       /\ UNCHANGED <<closing, idle, num_idle, leaked, sem, left>>
    \/ /\ size >= MaxConnections
       /\ Step(p, "inc", NoIncrement(p))
       /\ UNCHANGED <<closing, counters, sem, left>>

\* The permit is held across yield_now() and dropped by `continue`.
Retry(t) ==
    /\ Step(t, "retry", "call")
    /\ permits' = permits + 1
    /\ UNCHANGED <<waiters, closing, counters, left>>

DropPermit(p) ==
    /\ Step(p, "drop_permit", Finished(p))
    /\ permits' = permits + 1
    /\ UNCHANGED <<waiters, closing, counters, left>>

ConnectCheck(p) ==
    /\ Step(p, "connect", IF is_closed THEN "dec" ELSE "dial")
    /\ UNCHANGED <<closing, counters, sem, left>>

\* An attempt succeeds and after_connect runs; refused and transient errors
\* stay in the loop.
DialOk(p) ==
    /\ Step(p, "dial", "hook")
    /\ UNCHANGED <<closing, counters, sem, left>>

\* A permanent error, or the deadline.
DialFail(p) ==
    /\ Step(p, "dial", "dec")
    /\ UNCHANGED <<closing, counters, sem, left>>

\* after_connect: on an error the connection is closed and the loop goes on.
AfterConnect(p) ==
    /\ \E to \in {IF role[p] = "acquire" THEN "held" ELSE "push", "dial"} :
          Step(p, "hook", to)
    /\ UNCHANGED <<closing, counters, sem, left>>

-----------------------------------------------------------------------------
(* PoolConnection.                                                         *)

\* Drop: the connection is floated and return_to_pool() is spawned.
DropConnection(t) ==
    /\ StepAs(t, "held", "ret", "return")
    /\ UNCHANGED <<closing, counters, sem, left>>

\* close(), and a drop after close_on_drop().
CloseConnection(t) ==
    /\ StepAs(t, "held", "closing", "return")
    /\ UNCHANGED <<closing, counters, sem, left>>

\* detach(): the raw connection leaves the pool, the guard is dropped.
Detach(t) ==
    /\ StepAs(t, "held", "dec", "return")
    /\ UNCHANGED <<closing, counters, sem, left>>

\* Mutant: leak() gives the permit back.
LeakReleases(t) ==
    /\ leaked < MaxLeaks
    /\ StepAs(t, "held", "min", "min")
    /\ leaked' = leaked + 1
    /\ permits' = permits + 1
    /\ UNCHANGED <<closing, idle, num_idle, size, waiters, left>>

\* leak(): no guard is made, so the size and the permit stay taken.
Leak(t) ==
    /\ leaked < MaxLeaks
    /\ StepAs(t, "held", "min", "min")
    /\ leaked' = leaked + 1
    /\ UNCHANGED <<closing, idle, num_idle, size, sem, left>>

\* return_to_pool(): a closed pool or an expired lifetime closes it.
ReturnCheck(t) ==
    /\ \E to \in {"closing", "test"} :
          /\ is_closed => to = "closing"
          /\ Step(t, "ret", to)
    /\ UNCHANGED <<closing, counters, sem, left>>

\* return_to_pool(): after_release and ping.
ReturnTest(t) ==
    /\ \E to \in {"push", "closing"} : Step(t, "test", to)
    /\ UNCHANGED <<closing, counters, sem, left>>

ConnectionClosed(p) ==
    /\ Step(p, "closing", "dec")
    /\ UNCHANGED <<closing, counters, sem, left>>

-----------------------------------------------------------------------------
(* release(), and the drop of a DecrementSizeGuard.                        *)

PushIdle(p) ==
    /\ Step(p, "push", "pushed")
    /\ idle' = idle + 1
    /\ UNCHANGED <<closing, num_idle, size, leaked, sem, left>>

\* Mutant: release_permit() without `self.cancel()`.
ReleasePermitUncancelled(p) ==
    /\ Step(p, "pushed", "dec")
    /\ permits' = permits + 1
    /\ UNCHANGED <<waiters, closing, counters, left>>

ReleasePermit(p) ==
    /\ Step(p, "pushed", "unpermit")
    /\ permits' = permits + 1
    /\ UNCHANGED <<waiters, closing, counters, left>>

IncNumIdle(p) ==
    /\ Step(p, "unpermit", IF role[p] = "min" THEN "min" ELSE Finished(p))
    /\ num_idle' = num_idle + 1
    /\ UNCHANGED <<closing, idle, size, leaked, sem, left>>

DecSize(p) ==
    /\ Step(p, "dec", "dec2")
    /\ size' = size - 1
    /\ UNCHANGED <<closing, idle, num_idle, leaked, sem, left>>

\* Mutant: the drop of the guard forgets the permit.
DecReleaseForgotten(p) ==
    /\ StepAs(p, "dec2", AfterDrop(p), RoleAfterDrop(p))
    /\ UNCHANGED <<closing, counters, sem, left>>

DecRelease(p) ==
    /\ StepAs(p, "dec2", AfterDrop(p), RoleAfterDrop(p))
    /\ permits' = permits + 1
    /\ UNCHANGED <<waiters, closing, counters, left>>

-----------------------------------------------------------------------------
(* try_min_connections().                                                  *)

MinCheck(p) ==
    /\ Step(p, "min", IF size < MinConnections THEN "min_permit" ELSE Finished(p))
    /\ UNCHANGED <<closing, counters, sem, left>>

MinPermit(p) ==
    /\ Step(p, "min_permit", IF TryGrantable THEN "nopop" ELSE Finished(p))
    /\ permits' = IF TryGrantable THEN permits - 1 ELSE permits
    /\ UNCHANGED <<waiters, closing, counters, left>>

-----------------------------------------------------------------------------
(* The reaper.                                                             *)

ReapStart ==
    /\ Step(Reaper, "sleep", IF is_closed THEN "dead" ELSE "reap")
    /\ left' = IF num_idle < 0 THEN WrapCount ELSE num_idle
    /\ UNCHANGED <<closing, counters, sem>>

\* Mutant: `while pool.num_idle() > 0` instead of a bounded loop.
ReapNextUnbounded ==
    /\ StepAs(Reaper, "reap", CASE num_idle <= 0 -> "sleep"
                                [] num_idle > 0 /\ is_closed -> "reap"
                                [] OTHER -> "try", "reap")
    /\ UNCHANGED <<closing, counters, sem, left>>

ReapNext ==
    /\ StepAs(Reaper, "reap", CASE left = 0 -> "sleep"
                              [] left > 0 /\ is_closed -> "reap"
                              [] OTHER -> "try", "reap")
    /\ left' = IF left = 0 THEN 0 ELSE left - 1
    /\ UNCHANGED <<closing, counters, sem>>

\* Beyond idle_timeout or max_lifetime, or put back.
ReapInspect ==
    /\ \E to \in {"closing", "push"} : Step(Reaper, "inspect", to)
    /\ UNCHANGED <<closing, counters, sem, left>>

\* do_until() drops the reaper's future at an .await once the event fires.
ReaperCancelled ==
    /\ HasReaper /\ Reaper \notin armed
    /\ \/ StepAs(Reaper, "sleep", "dead", "gone")
       \/ \E at \in GuardedAwaits : StepAs(Reaper, at, "dec", "gone")
    /\ UNCHANGED <<closing, counters, sem, left>>

-----------------------------------------------------------------------------
(* Cancellation: a timeout, or the future is dropped at an .await.         *)

CancelGuarded(t) ==
    /\ \E at \in GuardedAwaits : StepAs(t, at, "dec", "gone")
    /\ UNCHANGED <<closing, counters, sem, left>>

CancelWait(t) ==
    /\ \/ Step(t, "wait", "out")
       \/ Step(t, "event", "out")
    /\ waiters' = Dequeue(waiters, t)
    /\ armed' = armed \ {t}
    /\ UNCHANGED <<is_closed, round, permits, counters, left>>

CancelRetry(t) ==
    /\ Step(t, "retry", "drop_permit")
    /\ UNCHANGED <<closing, counters, sem, left>>

-----------------------------------------------------------------------------
(* close().                                                                *)

\* mark_closed(): the store, then the notification.
MarkClosed(c) ==
    /\ Step(c, "ready", "notify")
    /\ is_closed' = TRUE
    /\ UNCHANGED <<armed, round, counters, sem, left>>

NotifyClosed(c) ==
    /\ Step(c, "notify", "drain")
    /\ armed' = {}
    /\ UNCHANGED <<is_closed, round, counters, sem, left>>

\* Mutant: close() forgets that the popped connection was counted.
DrainUncounted(c) ==
    /\ Step(c, "drain", IF idle > 0 THEN "drain" ELSE "c_size")
    /\ idle' = IF idle > 0 THEN idle - 1 ELSE idle
    /\ UNCHANGED <<closing, num_idle, size, leaked, sem, left>>

\* The popped connection is floated, which makes a guard without a permit,
\* and num_idle is not decremented.
Drain(c) ==
    \/ /\ idle > 0
       /\ Step(c, "drain", "closing")
       /\ idle' = idle - 1
       /\ UNCHANGED <<closing, num_idle, size, leaked, sem, left>>
    \/ /\ idle = 0
       /\ Step(c, "drain", "c_size")
       /\ UNCHANGED <<closing, counters, sem, left>>

CloseCheckSize(c) ==
    /\ Step(c, "c_size", IF size = 0 THEN "done" ELSE "c_wait")
    /\ UNCHANGED <<closing, counters, sem, left>>

CloseAcquire(c) ==
    \/ /\ Grantable(c, round[c])
       /\ Step(c, "c_wait", "c_rel")
       /\ permits' = permits - round[c]
       /\ waiters' = Dequeue(waiters, c)
       /\ UNCHANGED <<closing, counters, left>>
    \/ /\ ~Grantable(c, round[c]) /\ ~Queued(c)
       /\ pc[c] = "c_wait"
       /\ waiters' = Append(waiters, c)
       /\ UNCHANGED <<permits, closing, counters, pc, role, left>>

CloseRelease(c) ==
    /\ Step(c, "c_rel", IF round[c] = MaxConnections THEN "done" ELSE "drain")
    /\ permits' = permits + round[c]
    /\ round' = [round EXCEPT ![c] = IF @ = MaxConnections THEN @ ELSE @ + 1]
    /\ UNCHANGED <<waiters, is_closed, armed, counters, left>>

\* The future returned by close() is dropped.
CancelClose(c) ==
    /\ \/ StepAs(c, "closing", "dec", "gone") /\ UNCHANGED waiters
       \/ /\ Step(c, "c_wait", "dead")
          /\ waiters' = Dequeue(waiters, c)
    /\ UNCHANGED <<permits, closing, counters, left>>

-----------------------------------------------------------------------------
(* What the code does once a process is in the pool ...                    *)
TaskStep(t) ==
    \/ CloseEventCheck(t) \/ CloseEventListen(t) \/ CloseEventFires(t)
    \/ PollCloseEvent(t) \/ PollSemaphore(t)
    \/ CheckIdleConn(t) \/ Discarded(t) \/ Retry(t)
    \/ ReturnCheck(t) \/ ReturnTest(t)

SharedStep(p) ==
    \/ TryPermit(p) \/ PopIdle(p) \/ DecNumIdle(p)
    \/ TryIncrementCheck(p) \/ TryIncrementSize(p) \/ DropPermit(p)
    \/ ConnectCheck(p) \/ DialOk(p) \/ DialFail(p) \/ AfterConnect(p)
    \/ PushIdle(p) \/ ReleasePermit(p) \/ IncNumIdle(p)
    \/ MinCheck(p) \/ MinPermit(p)

GuardStep(p) == ConnectionClosed(p) \/ DecSize(p) \/ DecRelease(p)

ReaperStep == ReapStart \/ ReapNext \/ ReapInspect \/ ReaperCancelled

CloserStep(c) ==
    NotifyClosed(c) \/ Drain(c) \/ CloseCheckSize(c) \/ CloseAcquire(c) \/ CloseRelease(c)

(* ... and what its users decide.                                          *)
Call(t) == Acquire(t) \/ AwaitCloseEvent(t) \/ TryAcquire(t)
GiveBack(t) == DropConnection(t) \/ CloseConnection(t)
Cancel(t) == CancelGuarded(t) \/ CancelWait(t) \/ CancelRetry(t)

Next ==
    \/ \E t \in Tasks : \/ Call(t) \/ GiveBack(t) \/ Detach(t) \/ Leak(t) \/ Cancel(t)
                        \/ TaskStep(t)
    \/ \E p \in Tasks \cup {Reaper} : SharedStep(p)
    \/ \E p \in Procs : GuardStep(p)
    \/ ReaperStep
    \/ \E c \in Closers : MarkClosed(c) \/ CloserStep(c) \/ CancelClose(c)

Spec == Init /\ [][Next]_vars

(***************************************************************************)
(* Fairness: every future the pool runs is polled again while it can       *)
(* proceed; the deadline of connect() ends its retry loop even if          *)
(* after_connect fails for ever; and the application gives its connections *)
(* back.  Calls, cancellations, leaks and close() are never forced.        *)
(***************************************************************************)
Fairness ==
    /\ \A t \in Tasks : WF_vars(TaskStep(t)) /\ WF_vars(GiveBack(t))
    /\ \A p \in Tasks \cup {Reaper} : WF_vars(SharedStep(p)) /\ SF_vars(DialFail(p))
    /\ \A p \in Procs : WF_vars(GuardStep(p))
    /\ WF_vars(ReaperStep)
    /\ \A c \in Closers : WF_vars(CloserStep(c))

FairSpec == Spec /\ Fairness

-----------------------------------------------------------------------------
(* Properties.                                                             *)

\* Every variable stays in its range; permits never go below zero and size
\* never underflows (an AtomicU32 would wrap).
TypeOK ==
    /\ is_closed \in BOOLEAN
    /\ armed \subseteq Procs
    /\ permits \in Nat
    /\ waiters \in Seq(Procs)
    /\ idle \in Nat /\ num_idle \in Int /\ size \in Nat /\ leaked \in Nat
    /\ pc \in [Procs -> Labels]
    /\ role \in [Procs -> Roles]
    /\ left \in Nat
    /\ round \in [Closers -> 1..MaxConnections]

\* PoolInner::size counts exactly the idle connections, the guards and
\* checked-out connections, and the leaked ones, through every cancellation,
\* failed ping, failed connect and racing close().
SizeAccounting == size = idle + Cardinality(SizeHolders) + leaked

\* try_increment_size() keeps the pool within max_connections although the
\* check and the semaphore are not one critical section.
SizeBounded == size <= MaxConnections

\* release() never reaches its panic "BUG: connection queue overflow".
QueueNeverOverflows == (\E p \in Procs : pc[p] = "push") => idle < MaxConnections

\* Until close() is called every permit is free, held by exactly one future
\* or connection, or gone with a leaked connection: none is lost by a
\* cancellation and none is released twice.
PermitConservation ==
    ~is_closed => permits + Cardinality(PermitHolders) + leaked = MaxConnections

\* num_idle is exact up to the operations between its update and the queue's.
NumIdleAccounting ==
    ~is_closed => num_idle = idle + Cardinality(Popped) - Cardinality(Pushed)

\* The three counters and the semaphore are exact: a permit or a size lost or
\* returned twice by any order of cancellations, failed pings and failed
\* connects shows up here.
PoolAccounting == TypeOK /\ SizeAccounting /\ PermitConservation /\ NumIdleAccounting

\* Neither max_connections nor the capacity of the idle queue is ever exceeded.
PoolBounds == SizeBounded /\ QueueNeverOverflows

\* acquire()'s comment on its retry branch: in an open parentless pool which
\* maintains no minimum, a future that found the idle queue empty can always
\* open a connection.
NoSpuriousRetry ==
    (MinConnections = 0 /\ ~is_closed) =>
        \A p \in Procs : pc[p] = "inc" => size < MaxConnections

\* A future waiting in acquire() does not wait for ever.
WaiterServed == \A t \in Tasks : pc[t] = "wait" ~> pc[t] \notin {"wait", "polling"}

\* close() returns once the application has given its connections back.
CloseCompletes ==
    \A c \in Closers : pc[c] = "notify" ~> pc[c] \in {"done", "dead"}

\* The maintenance task does not survive close().
ReaperStops == is_closed ~> pc[Reaper] = "dead"

\* The semaphore, the two atomics and the queue together implement a budget
\* of max_connections: every step of the code is a step of ConnectionBudget.
Budget == INSTANCE ConnectionBudget WITH
    Owners <- Procs, Max <- MaxConnections,
    stock <- idle, busy <- SizeHolders, lost <- leaked, shut <- is_closed

ImplementsBudget == Budget!BudgetSpec

=============================================================================
