---------------------------- MODULE SqliteWorker ----------------------------
(***************************************************************************)
(* The SQLite driver's worker thread (sqlx-sqlite/src/connection/worker.rs)*)
(* and the client that owns the SqliteConnection: Transaction (sqlx-core/  *)
(* src/transaction.rs), SqliteTransactionManager and lock_handle().        *)
(*                                                                         *)
(* Every method takes &mut self, so the client makes one call at a time;   *)
(* but it may drop the future of a call at any .await, and the command it  *)
(* has sent then stays in the channel with nobody waiting for the answer   *)
(* (live is FALSE).  Transactions are numbered in the order they are       *)
(* begun; a write is represented by the innermost transaction that made    *)
(* it, Outside if there was none.                                          *)
(***************************************************************************)
EXTENDS SqlSession

CONSTANTS
    ChannelSize,   \* command_channel_size
    MaxTx,         \* bound: transactions begun
    MaxDepth,      \* bound: nesting of Transaction values
    MaxFrames,     \* bound: savepoints, which a cancelled nested begin leaves behind
    Calls,         \* the methods the application uses
    MayFail,       \* the statements SQLite may refuse (SQLITE_BUSY, ...)
    MayCancel,     \* the calls whose futures the application drops; "BeginCheck" is the
                   \* second await of begin_with()
    NotABegin      \* whether begin_with() may be given a statement that begins nothing

Outside == 0
Tx == 1..MaxTx

AllCalls == {"Begin", "BeginWith", "Commit", "Rollback", "Execute", "Ping", "Lock"}

ASSUME WorkerAssumption ==
    /\ ChannelSize \in Nat \ {0}
    /\ MaxTx \in Nat /\ MaxDepth \in Nat /\ MaxFrames \in Nat
    /\ Calls \subseteq AllCalls
    /\ MayFail \subseteq {"BEGIN", "SAVEPOINT", "COMMIT", "RELEASE", "ROLLBACK", "ROLLBACK TO"}
    /\ MayCancel \subseteq Calls \cup {"BeginCheck"} /\ NotABegin \in BOOLEAN

VARIABLES
    \* the worker thread and what it shares
    chan,      \* the bounded flume channel of commands
    job,       \* what the thread is blocked in
    alive,     \* the thread runs
    mutex,     \* holder of the lock on ConnectionState
    session,   \* the database connection
    depth,     \* transaction_depth
    ignore,    \* ignore_next_start_rollback
    \* the client
    call,      \* the call in progress
    handles,   \* the open Transaction values, the innermost last
    begun,     \* number of transactions begun
    fate,      \* what the client knows of each transaction
    parent,    \* the enclosing transaction
    acked      \* writes whose execute() has returned

worker == <<chan, job, alive, mutex, session, depth, ignore>>
client == <<call, handles, begun, fate, parent, acked>>
vars == <<chan, job, alive, mutex, session, depth, ignore,
          call, handles, begun, fate, parent, acked>>

\* No call, or one whose future has not sent its command yet ("send"), or one
\* that waits for the answer ("reply").  StartRollback and Shutdown use the
\* blocking send() and cannot be cancelled.
NoCall == [op |-> "none", stage |-> "none"]
Closed == [op |-> "closed", stage |-> "none"]
Sending(op) == [op |-> op, stage |-> "send"]

NoJob == [op |-> "none", ok |-> FALSE, live |-> FALSE, depth |-> 0]

Top == IF handles = <<>> THEN Outside ELSE handles[Len(handles)]
Popped == SubSeq(handles, 1, Len(handles) - 1)

Init ==
    /\ chan = <<>> /\ job = NoJob /\ alive = TRUE /\ mutex = "worker"
    /\ session = NewSession /\ depth = 0 /\ ignore = FALSE
    /\ call = NoCall /\ handles = <<>> /\ begun = 0
    /\ fate = [i \in Tx |-> "new"] /\ parent = [i \in Tx |-> Outside]
    /\ acked = {}

-----------------------------------------------------------------------------
(* The client.                                                             *)

\* A method is called and polled for the first time.
Start(op) ==
    /\ call = NoCall
    /\ op \in {"Begin", "BeginWith"} =>
          begun < MaxTx /\ Len(handles) < MaxDepth /\ Len(session.frames) < MaxFrames
    /\ op \in {"Commit", "Rollback"} => handles # <<>>
    /\ call' = Sending(op)
    /\ UNCHANGED <<worker, handles, begun, fate, parent, acked>>

\* A Transaction goes out of scope: start_rollback() sends from the destructor.
DropTransaction ==
    /\ call = NoCall /\ handles # <<>>
    /\ call' = Sending("StartRollback")
    /\ handles' = Popped
    /\ fate' = [fate EXCEPT ![Top] = "aborted"]
    /\ UNCHANGED <<worker, begun, parent, acked>>

\* Connection::close(), which consumes the connection.
Close ==
    /\ call = NoCall /\ handles = <<>>
    /\ call' = Sending("Shutdown")
    /\ UNCHANGED <<worker, handles, begun, fate, parent, acked>>

\* The connection is dropped; the thread drains the channel and ends.
DropConnection ==
    /\ call = NoCall /\ handles = <<>>
    /\ call' = Closed
    /\ session' = IF alive THEN session ELSE RolledBack(session)
    /\ UNCHANGED <<chan, job, alive, mutex, depth, ignore,
                   handles, begun, fate, parent, acked>>

\* The command enters the channel when there is room.
Send ==
    /\ call.stage = "send" /\ alive
    /\ Len(chan) < ChannelSize
    /\ chan' = Append(chan, [op |-> call.op, live |-> call.op # "StartRollback", tx |-> Top])
    /\ call' = IF call.op = "StartRollback" THEN NoCall
               ELSE [call EXCEPT !.stage = "reply"]
    /\ UNCHANGED <<job, alive, mutex, session, depth, ignore,
                   handles, begun, fate, parent, acked>>

\* The fair mutex goes to the thread if that is queued for it.
ReleaseMutex(j) ==
    IF job.op = "queued" THEN mutex' = "worker" /\ job' = NoJob
    ELSE mutex' = "free" /\ job' = j

\* The receiver, the acknowledgement sender and the place in the queue of the
\* mutex go away with the future.
Abandoned(c) == [i \in DOMAIN c |-> [c[i] EXCEPT !.live = FALSE]]

\* commit(self) and rollback(self) drop the Transaction when they are
\* cancelled or fail, and it is still open then.
DropOpen(f) ==
    /\ call' = Sending("StartRollback")
    /\ handles' = Popped
    /\ fate' = [fate EXCEPT ![Top] = f]

\* The future of the call in progress is dropped.
Cancel ==
    /\ call.op \in MayCancel
    /\ chan' = Abandoned(chan)
    /\ IF mutex = "client" THEN ReleaseMutex(job)
       ELSE job' = [job EXCEPT !.live = FALSE] /\ UNCHANGED mutex
    /\ IF call.op \in {"Commit", "Rollback"}
       THEN DropOpen(IF call.op = "Commit" THEN "unknown" ELSE "aborted")
       ELSE call' = NoCall /\ UNCHANGED <<handles, fate>>
    /\ UNCHANGED <<alive, session, depth, ignore, begun, parent, acked>>

\* Transaction::begin() wraps the connection.
Opened ==
    /\ call' = NoCall
    /\ handles' = Append(handles, begun + 1)
    /\ begun' = begun + 1
    /\ fate' = [fate EXCEPT ![begun + 1] = "open"]
    /\ parent' = [parent EXCEPT ![begun + 1] = Top]

\* recv() takes the value and acknowledges it in one poll.
Receive ==
    /\ call.stage = "reply" /\ job.op = call.op /\ job.live
    /\ job' = NoJob
    /\ \/ /\ job.ok /\ job.op = "Begin"
          /\ Opened
       \/ /\ job.ok /\ job.op = "BeginWith"
          /\ call' = Sending("BeginCheck")
          /\ UNCHANGED <<handles, begun, fate, parent>>
       \/ /\ ~job.ok /\ job.op \in {"Begin", "BeginWith"}
          /\ call' = NoCall
          /\ UNCHANGED <<handles, begun, fate, parent>>
       \/ /\ job.ok /\ job.op \in {"Commit", "Rollback"}
          /\ call' = NoCall
          /\ handles' = Popped
          /\ fate' = [fate EXCEPT ![Top] = IF job.op = "Commit" THEN "committed" ELSE "aborted"]
          /\ UNCHANGED <<begun, parent>>
       \/ /\ ~job.ok /\ job.op \in {"Commit", "Rollback"}
          /\ DropOpen("aborted")
          /\ UNCHANGED <<begun, parent>>
    /\ UNCHANGED <<chan, alive, mutex, session, depth, ignore, acked>>

\* lock_handle(): the lock may be free while the thread relocks it.
TakeLock ==
    /\ call.op \in {"Lock", "BeginCheck"} /\ mutex = "free"
    /\ mutex' = "client"
    /\ UNCHANGED <<chan, job, alive, session, depth, ignore, client>>

\* The guard is used and dropped.
Unlock ==
    /\ call.op = "Lock" /\ call.stage = "reply" /\ mutex = "client"
    /\ ReleaseMutex(job)
    /\ call' = NoCall
    /\ UNCHANGED <<chan, alive, session, depth, ignore,
                   handles, begun, fate, parent, acked>>

\* begin_with(): the custom statement must have begun a transaction.
BeginCheck ==
    /\ call.op = "BeginCheck" /\ call.stage = "reply" /\ mutex = "client"
    /\ ReleaseMutex(job)
    /\ IF InTransaction(session) THEN Opened
       ELSE call' = NoCall /\ UNCHANGED <<handles, begun, fate, parent>>
    /\ UNCHANGED <<chan, alive, session, depth, ignore, acked>>

\* The thread has ended: sending or waiting returns WorkerCrashed.
Crashed ==
    /\ ~alive /\ call \notin {NoCall, Closed}
    /\ IF call.op \in {"Commit", "Rollback"} THEN DropOpen("aborted")
       ELSE /\ call' = IF call.op = "Shutdown" THEN Closed ELSE NoCall
            /\ UNCHANGED <<handles, fate>>
    /\ session' = IF call.op = "Shutdown" THEN RolledBack(session) ELSE session
    /\ mutex' = "free"
    /\ UNCHANGED <<chan, job, alive, depth, ignore, begun, parent, acked>>

-----------------------------------------------------------------------------
(* The worker thread.                                                      *)

Takes(op) == alive /\ job = NoJob /\ chan # <<>> /\ Head(chan).op = op

\* A statement succeeds, or SQLite refuses it.
Exec(q, ok) ==
    /\ ok => Accepts(session, q)
    /\ ~ok => ~Accepts(session, q) \/ q.verb \in MayFail
    /\ session' = IF ok THEN Executed(session, q) ELSE Rejected(session)

Reply(op, ok) ==
    job' = [op |-> op, ok |-> ok, live |-> Head(chan).live, depth |-> depth]

\* Command::Begin with the default statement.
DoBegin ==
    /\ Takes("Begin")
    /\ chan' = Tail(chan)
    /\ \E ok \in BOOLEAN :
          /\ Exec(BeginSql(depth), ok)
          /\ depth' = IF ok THEN depth + 1 ELSE depth
          /\ Reply("Begin", ok)
    /\ UNCHANGED <<alive, mutex, ignore, client>>

\* Command::Begin with a custom statement.
DoBeginWith ==
    /\ Takes("BeginWith")
    /\ chan' = Tail(chan)
    /\ \/ /\ depth > 0
          /\ Reply("BeginWith", FALSE)
          /\ UNCHANGED <<session, depth>>
       \/ /\ depth = 0
          /\ \E ok \in BOOLEAN :
                /\ Exec(BeginSql(0), ok)
                /\ depth' = IF ok THEN 1 ELSE 0
                /\ Reply("BeginWith", ok)
       \/ /\ depth = 0 /\ NotABegin
          /\ depth' = 1
          /\ Reply("BeginWith", TRUE)
          /\ UNCHANGED session
    /\ UNCHANGED <<alive, mutex, ignore, client>>

\* At depth 0 there is nothing to end.
End(op, q) ==
    IF depth > 0
    THEN \E ok \in BOOLEAN :
            /\ Exec(q, ok)
            /\ depth' = IF ok THEN depth - 1 ELSE depth
            /\ Reply(op, ok)
    ELSE Reply(op, TRUE) /\ UNCHANGED <<session, depth>>

DoCommit ==
    /\ Takes("Commit")
    /\ chan' = Tail(chan)
    /\ End("Commit", CommitSql(depth))
    /\ UNCHANGED <<alive, mutex, ignore, client>>

DoRollback ==
    /\ Takes("Rollback")
    /\ chan' = Tail(chan)
    /\ End("Rollback", RollbackSql(depth))
    /\ UNCHANGED <<alive, mutex, ignore, client>>

\* Mutant: the rollback that follows an unacknowledged commit is not ignored.
DoStartRollbackAlways ==
    /\ Takes("StartRollback")
    /\ chan' = Tail(chan)
    /\ IF depth > 0
       THEN \E ok \in BOOLEAN :
               /\ Exec(RollbackSql(depth), ok)
               /\ depth' = IF ok THEN depth - 1 ELSE depth
       ELSE UNCHANGED <<session, depth>>
    /\ UNCHANGED <<alive, job, mutex, ignore, client>>

\* Command::Rollback without a reply channel.
DoStartRollback ==
    /\ Takes("StartRollback")
    /\ chan' = Tail(chan)
    /\ ignore' = FALSE
    /\ IF ~ignore /\ depth > 0
       THEN \E ok \in BOOLEAN :
               /\ Exec(RollbackSql(depth), ok)
               /\ depth' = IF ok THEN depth - 1 ELSE depth
       ELSE UNCHANGED <<session, depth>>
    /\ UNCHANGED <<alive, job, mutex, client>>

\* Mutant: an unacknowledged BEGIN is left alone.
UnacknowledgedBeginKept ==
    /\ alive /\ ~job.live /\ job.op \in {"Begin", "BeginWith"}
    /\ job' = NoJob
    /\ UNCHANGED <<session, depth, alive, chan, mutex, ignore, client>>

\* The thread ends without draining the channel: every sender in it is dropped.
Quit == alive' = FALSE /\ chan' = <<>> /\ job' = NoJob /\ mutex' = "free"

\* blocking_send() fails: nobody took the answer to a BEGIN.
UnacknowledgedBegin ==
    /\ alive /\ ~job.live /\ job.op \in {"Begin", "BeginWith"}
    /\ \/ /\ job.ok
          /\ Exec(RollbackSql(job.depth + 1), TRUE)
          /\ depth' = depth - 1
          /\ job' = NoJob
          /\ UNCHANGED <<alive, chan, mutex>>
       \/ /\ job.ok
          /\ Exec(RollbackSql(job.depth + 1), FALSE)
          /\ Quit
          /\ UNCHANGED depth
       \/ /\ ~job.ok
          /\ \/ /\ job.op = "BeginWith" /\ job.depth > 0
                /\ Quit
             \/ /\ job.depth = 0 \/ job.op = "Begin"
                /\ job' = NoJob
                /\ UNCHANGED <<alive, chan, mutex>>
          /\ UNCHANGED <<session, depth>>
    /\ UNCHANGED <<ignore, client>>

\* Mutant: blocking_send() does not notice that the receiver is gone.
UnacknowledgedEndBlocks ==
    /\ alive /\ job.live /\ ~job.live
    /\ UNCHANGED vars

\* Nobody took the answer to a COMMIT or ROLLBACK.
UnacknowledgedEnd ==
    /\ alive /\ ~job.live /\ job.op \in {"Commit", "Rollback"}
    /\ job' = NoJob
    /\ ignore' = (ignore \/ job.ok)
    /\ UNCHANGED <<chan, alive, mutex, session, depth, client>>

\* Command::Execute: the client, if it still listens, gets the result.
DoExecute ==
    /\ Takes("Execute")
    /\ chan' = Tail(chan)
    /\ \E ok \in BOOLEAN :
          /\ session' = IF ok THEN Written(session, Head(chan).tx) ELSE session
          /\ acked' = IF ok /\ Head(chan).live THEN acked \cup {Head(chan).tx} ELSE acked
    /\ call' = IF Head(chan).live THEN NoCall ELSE call
    /\ UNCHANGED <<job, alive, mutex, depth, ignore, handles, begun, fate, parent>>

\* Ping, Prepare, Describe, Serialize and ClearCache leave all this alone.
DoPing ==
    /\ Takes("Ping")
    /\ chan' = Tail(chan)
    /\ call' = IF Head(chan).live THEN NoCall ELSE call
    /\ UNCHANGED <<job, alive, mutex, session, depth, ignore,
                   handles, begun, fate, parent, acked>>

\* Mutant: the thread goes on without taking the mutex back.
DoUnlockDbForgotten ==
    /\ \/ Takes("Lock") \/ Takes("BeginCheck")
    /\ chan' = Tail(chan)
    /\ mutex' = IF call.op \in {"Lock", "BeginCheck"} THEN "client" ELSE "free"
    /\ UNCHANGED <<job, alive, session, depth, ignore, client>>

\* Command::UnlockDb: the fair mutex goes to the client if it waits for it;
\* the thread then waits to get it back.
DoUnlockDb ==
    /\ \/ Takes("Lock") \/ Takes("BeginCheck")
    /\ chan' = Tail(chan)
    /\ job' = [NoJob EXCEPT !.op = "relock"]
    /\ mutex' = IF call.op \in {"Lock", "BeginCheck"} THEN "client" ELSE "free"
    /\ UNCHANGED <<alive, session, depth, ignore, client>>

\* The thread asks for the mutex again, and queues for it while it is held.
Relock ==
    /\ alive /\ job.op = "relock"
    /\ \/ mutex = "free" /\ mutex' = "worker" /\ job' = NoJob
       \/ mutex = "client" /\ job' = [job EXCEPT !.op = "queued"] /\ UNCHANGED mutex
    /\ UNCHANGED <<chan, alive, session, depth, ignore, client>>

\* Command::Shutdown; the last reference closes the database.
DoShutdown ==
    /\ Takes("Shutdown")
    /\ alive' = FALSE
    /\ chan' = Tail(chan)
    /\ mutex' = "free"
    /\ session' = RolledBack(session)
    /\ call' = Closed
    /\ UNCHANGED <<job, depth, ignore, handles, begun, fate, parent, acked>>

\* The sender is gone and the channel drained: the loop over command_rx ends.
Disconnected ==
    /\ alive /\ job = NoJob /\ chan = <<>> /\ call = Closed
    /\ alive' = FALSE
    /\ mutex' = "free"
    /\ session' = RolledBack(session)
    /\ UNCHANGED <<chan, job, depth, ignore, client>>

-----------------------------------------------------------------------------
ClientStep == Send \/ Receive \/ TakeLock \/ Unlock \/ BeginCheck \/ Crashed

WorkerStep ==
    \/ DoBegin \/ DoBeginWith \/ DoCommit \/ DoRollback \/ DoStartRollback
    \/ UnacknowledgedBegin \/ UnacknowledgedEnd
    \/ DoExecute \/ DoPing \/ DoUnlockDb \/ Relock \/ DoShutdown \/ Disconnected

Next == ClientStep \/ WorkerStep \/ Cancel \/ DropTransaction \/ Close \/ DropConnection
        \/ \E op \in Calls : Start(op)

Spec == Init /\ [][Next]_vars

\* The runtime polls the client's future and the operating system runs the thread.
FairSpec == Spec /\ WF_vars(ClientStep) /\ WF_vars(WorkerStep)
-----------------------------------------------------------------------------
(* Properties.                                                             *)

Fates == {"new", "open", "committed", "aborted", "unknown"}

\* The channel never holds more than it has room for and the numbers of
\* transactions and frames match their names.
TypeOK ==
    /\ chan \in Seq([op : AllCalls \cup {"BeginCheck", "StartRollback", "Shutdown"},
                     live : BOOLEAN, tx : Tx \cup {Outside}])
    /\ Len(chan) <= ChannelSize
    /\ job.live \in BOOLEAN /\ job.ok \in BOOLEAN
    /\ alive \in BOOLEAN
    /\ mutex \in {"worker", "client", "free"}
    /\ session.data \subseteq Tx \cup {Outside} /\ session.durable \subseteq Tx \cup {Outside}
    /\ depth \in Nat
    /\ ignore \in BOOLEAN
    /\ handles \in Seq(Tx)
    /\ fate \in [Tx -> Fates] /\ parent \in [Tx -> Tx \cup {Outside}]
    /\ acked \subseteq Tx \cup {Outside}

Quiescent == alive /\ chan = <<>> /\ job = NoJob /\ call = NoCall

\* TransactionManager::get_transaction_depth(): "Level 0: No active transaction.
\* Level 1: A transaction is active."  Once the channel is drained, the
\* counter, the Transaction values and the database agree, whatever was
\* cancelled and whichever acknowledgement was lost.
DepthAgrees ==
    Quiescent => /\ depth = Len(handles)
                 /\ InTransaction(session) <=> handles # <<>>

\* An abandoned BEGIN does not stay open: a write outside any transaction is
\* durable when execute() returns.
AutocommitDurable == Outside \in acked => Outside \in session.durable

\* A transaction and those around it: what is in every set that has it and, with a
\* transaction, the enclosing one.
Enclosing(i) ==
    {j \in Tx : \A S \in SUBSET Tx :
        (i \in S /\ \A x \in S : parent[x] \in S \cup {Outside}) => j \in S}

\* commit() of a transaction and of those around it returned Ok only if what
\* they wrote is durable.
CommitDurable ==
    \A i \in acked \ {Outside} :
        (\A j \in Enclosing(i) : fate[j] = "committed") => i \in session.durable

\* Nothing a dropped or rolled back transaction wrote, or one nested in it,
\* becomes durable.
AbortedNeverDurable ==
    \A i \in session.durable \ {Outside} : \A j \in Enclosing(i) : fate[j] # "aborted"

\* The driver's idea of its transactions and the database's: what was begun,
\* committed, dropped or cancelled in any order leaves the same transactions
\* open on both sides and the right writes durable.
TransactionsExact ==
    TypeOK /\ DepthAgrees /\ AutocommitDurable /\ CommitDurable /\ AbortedNeverDurable

\* A late rollback never undoes the work of a transaction that is still open.
OpenKeepsWrites ==
    [][\A k \in 1..Len(handles) :
          (/\ handles[k] \in acked /\ handles' = handles
           /\ k = Len(handles) => call.op # "Rollback")
              => handles[k] \in session'.data]_vars

\* Every call returns, unless the application cancels it.
CallReturns == call \notin {NoCall, Closed} ~> call \in {NoCall, Closed}
=============================================================================
