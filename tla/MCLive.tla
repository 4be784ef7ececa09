------------------------------- MODULE MCLive -------------------------------
(***************************************************************************)
(* What must eventually happen, under the fairness each component states:  *)
(* the SQLite worker, the listener, advisory locks and the stream helper.  *)
(* A behaviour is about one of them, and the others rest.                  *)
(***************************************************************************)
EXTENDS PgListener, PgAdvisoryLock, AsyncStream

VARIABLES
    scene,    \* which component this behaviour is about
    chan, job, alive, mutex, session, depth, ignore, call, handles, begun, fate, parent, acked

worker_vars == <<chan, job, alive, mutex, session, depth, ignore, call, handles, begun, fate, parent, acked>>
live_vars == <<scene, worker_vars, listenerVars, lockVars, streamVars>>

\* One transaction with a savepoint, every statement may fail; and an
\* application that also locks the handle, for as long as it likes.
WorkerCalls == {"Begin", "BeginWith", "Commit", "Rollback", "Execute", "Ping"}
HandleCalls == {"Begin", "Rollback", "Execute", "Lock"}
AnyStatement == {"BEGIN", "SAVEPOINT", "COMMIT", "RELEASE", "ROLLBACK", "ROLLBACK TO"}
W == INSTANCE SqliteWorker WITH
       Dialect <- "sqlite", ChannelSize <- 1, MaxTx <- 1, MaxDepth <- 2, MaxFrames <- 2,
       Calls <- WorkerCalls, MayFail <- AnyStatement,
       MayCancel <- WorkerCalls \cup {"BeginCheck"}, NotABegin <- TRUE
L == INSTANCE SqliteWorker WITH
       Dialect <- "sqlite", ChannelSize <- 1, MaxTx <- 1, MaxDepth <- 2, MaxFrames <- 2,
       Calls <- HandleCalls, MayFail <- {"ROLLBACK"}, MayCancel <- HandleCalls, NotABegin <- FALSE

WorkerScenes == {"worker", "handle"}

LiveInit ==
    /\ scene \in WorkerScenes \cup {"listener", "lock", "stream"}
    /\ W!Init
    /\ ListenerInit
    /\ scene # "listener" => ~eager_reconnect /\ ~ignore_close_event
    /\ LockInit
    /\ StreamInit
    /\ scene # "stream" => script = <<"ok">>

\* A step of the scene's component leaves the others alone.
OthersRest ==
    /\ scene' = scene
    /\ IF scene \in WorkerScenes THEN TRUE ELSE UNCHANGED worker_vars
    /\ IF scene = "listener" THEN TRUE ELSE UNCHANGED listenerVars
    /\ IF scene = "lock" THEN TRUE ELSE UNCHANGED lockVars
    /\ IF scene = "stream" THEN TRUE ELSE UNCHANGED streamVars

LiveNext ==
    \/ scene = "worker" /\ W!Next /\ OthersRest
    \/ scene = "handle" /\ L!Next /\ OthersRest
    \/ scene = "listener" /\ ListenerNext /\ OthersRest
    \/ scene = "lock" /\ LockNext /\ OthersRest
    \/ scene = "stream" /\ StreamNext /\ OthersRest

\* The worker's thread and its client run; nothing else is forced.
WorkerFairness ==
    /\ WF_live_vars(scene = "worker" /\ W!ClientStep /\ OthersRest)
    /\ WF_live_vars(scene = "worker" /\ W!WorkerStep /\ OthersRest)

\* The application keeps receiving; the server and the runtime make progress.
ReceiverFairness ==
    /\ WF_live_vars(scene = "listener" /\ Steps /\ OthersRest)
    /\ SF_live_vars(scene = "listener" /\ Receives /\ OthersRest)

\* Guards and transactions are dropped and connections returned, however long
\* they were used; the server's queue of those who wait for a lock is fair.
LockFairness ==
    \A s \in Sessions :
      /\ WF_live_vars(scene = "lock" /\ DropLockTransaction(s) /\ OthersRest)
      /\ SF_live_vars(scene = "lock" /\ DropGuard(s) /\ OthersRest)
      /\ SF_live_vars(scene = "lock" /\ ReturnSession(s) /\ OthersRest)
      /\ SF_live_vars(scene = "lock" /\ Granted(s) /\ OthersRest)

\* The consumer polls when it is woken, and what the future waits for happens.
ConsumerFairness ==
    /\ WF_live_vars(scene = "stream" /\ (Resume \/ PollNext) /\ OthersRest)
    /\ WF_live_vars(scene = "stream" /\ Event /\ OthersRest)

LiveSpec ==
    /\ LiveInit /\ [][LiveNext]_live_vars
    /\ WorkerFairness /\ ReceiverFairness /\ LockFairness /\ ConsumerFairness

-----------------------------------------------------------------------------
(* Properties.                                                             *)

\* Every call on a SQLite connection returns, unless the application cancels it:
\* the thread and the client never wait for each other.
WorkerAnswers == scene = "worker" => W!CallReturns

\* While the client holds the handle that lock_handle() gave it, the thread
\* leaves the database alone, although commands reach its channel.
HandleKept == [][mutex = "client" => session' = session]_live_vars

\* A notification reaches the application or goes down with its connection, and
\* Pool::close() ends a wait of a listener that minds it and that had registered
\* for the event by then; close_event() looks at the flag first, and a close()
\* between the two is never heard of (sqlx-core pool/inner.rs:117-121).
ListenerServed == scene = "listener" => Arrives /\ CloseEndsWait

\* acquire() of an advisory lock returns once the other guards are gone and
\* their connections used or returned.
LockGranted == AcquireReturns

\* A stream built by try_stream! ends: no wakeup is lost between the value it
\* yields and the event it waits for.
StreamCompletes == scene = "stream" => StreamEnds
=============================================================================
