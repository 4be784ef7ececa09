-------------------------- MODULE MySqlConnection ---------------------------
(***************************************************************************)
(* A MySQL connection: the client of sqlx-mysql/src/connection (mod.rs,    *)
(* executor.rs, stream.rs), its MySqlTransactionManager (transaction.rs)   *)
(* and statement cache, the two directions of the socket, and the server.  *)
(*                                                                         *)
(* The protocol has no marker between responses: the client knows what is  *)
(* unread from its deque `waiting` alone, one entry per response, which    *)
(* says whether a response (Result) or a row of one (Row) comes next.      *)
(* Packets arrive whole.                                                   *)
(***************************************************************************)
EXTENDS SqlSession, TLC

CONSTANTS
    Statements,    \* SQL texts run with arguments, hence prepared
    Capacity,      \* statement_cache_capacity
    DeprecateEof,  \* whether the server has Capabilities::DEPRECATE_EOF
    Calls,         \* the methods the application uses
    MayFail,       \* the statements the server may refuse
    MayCancel,     \* the calls whose futures the application drops
    Streamed,      \* those it makes with fetch_many() or execute_many(), see EndResult
    Careful,       \* cancellations after which it drops the connection, see Discarded
    MaxTx,         \* bound: transactions begun
    MaxDepth,      \* bound: nesting of Transaction values
    MaxWaiting,    \* bound: responses outstanding when a call starts
    MaxPrepares    \* bound: statement ids the server hands out

\* Statements are interchangeable.
StatementSymmetry == Permutations(Statements)

Outside == 0
Tx == 1..MaxTx
Ids == 1..MaxPrepares

AllCalls == {"Begin", "Commit", "Rollback", "Execute", "Fetch", "Run", "RunOnce", "Prepare",
             "Describe", "Ping", "ClearCache"}
Verbs == {"BEGIN", "SAVEPOINT", "COMMIT", "RELEASE", "ROLLBACK", "ROLLBACK TO"}

ASSUME MySqlAssumption ==
    /\ Dialect = "mysql" /\ DeprecateEof \in BOOLEAN
    /\ Capacity \in Nat /\ IsFiniteSet(Statements)
    /\ Calls \subseteq AllCalls /\ MayCancel \subseteq Calls
    /\ Streamed \subseteq Calls \cap {"Execute", "Fetch", "Run", "RunOnce"}
    /\ Careful \subseteq {"begin", "prepare", "ping", "yield"}
    /\ MayFail \subseteq Verbs \cup {"WRITE", "SELECT", "PREPARE"}
    /\ MaxTx \in Nat /\ MaxDepth \in Nat /\ MaxWaiting \in Nat /\ MaxPrepares \in Nat

VARIABLES
    \* MySqlConnectionInner and MySqlStream
    wbuf,      \* the write buffer
    waiting,   \* what is unread
    status,    \* SERVER_STATUS_IN_TRANS of status_flags
    depth,     \* transaction_depth
    cache,     \* cache_statement, the least recently used first
    \* the socket and the server
    net,       \* commands the server has not read
    replies,   \* packets the client has not read
    session,   \* transaction and data of the server
    prepared,  \* its prepared statements, by id
    next_id,   \* the next id it hands out
    \* the application
    call,      \* the call in progress
    handles,   \* the open Transaction values, the innermost last
    begun,     \* number of transactions begun
    fate,      \* what the application knows of each transaction
    parent,    \* the enclosing transaction
    acked,     \* writes whose call has returned Ok
    erred      \* transactions in which a call has returned Err

inner == <<wbuf, waiting, status, depth, cache>>
server == <<net, replies, session, prepared, next_id>>
app == <<call, handles, begun, fate, parent, acked, erred>>
vars == <<inner, server, app>>

NoCall == [op |-> "none", at |-> "none", then |-> "none", sql |-> "none", id |-> 0, n |-> 0]
Closed == [NoCall EXCEPT !.op = "closed"]

Top == IF handles = <<>> THEN Outside ELSE handles[Len(handles)]
Popped == SubSeq(handles, 1, Len(handles) - 1)
Open == {handles[k] : k \in DOMAIN handles}

Init ==
    /\ wbuf = <<>> /\ waiting = <<>> /\ status = FALSE /\ depth = 0 /\ cache = <<>>
    /\ net = <<>> /\ replies = <<>> /\ session = NewSession
    /\ prepared = [i \in Ids |-> "none"] /\ next_id = 1
    /\ call = NoCall /\ handles = <<>> /\ begun = 0
    /\ fate = [i \in Tx |-> "new"] /\ parent = [i \in Tx |-> Outside]
    /\ acked = {} /\ erred = {}

-----------------------------------------------------------------------------
(* Commands and packets.                                                   *)

Command(c, q, id, s) == [c |-> c, q |-> q, id |-> id, sql |-> s, own |-> TRUE]

Write == [verb |-> "WRITE", name |-> Top]
\* A multi-statement text: a SELECT and then a write.
Select == [verb |-> "SELECT", name |-> Top]

Query(q) == Command("query", q, 0, "none")
PrepareCmd(s) == Command("prepare", Write, 0, s)
ExecuteCmd(id) == Command("execute", Write, id, "none")
StmtClose(id) == Command("close", Write, id, "none")
PingCmd == Command("ping", Write, 0, "none")

Others(s) == [i \in DOMAIN s |-> [s[i] EXCEPT !.own = FALSE]]

\* n is a number of columns; a packet that is not what the client expects is
\* read as if it were, and its first byte is then a length: 3, for "def", in
\* a column definition, and 0 or 0xff make it an OK or an ERR.
Packet(k, c) == [k |-> k, n |-> IF k = "cols" THEN 1 ELSE 3, id |-> 0, more |-> FALSE,
                 trans |-> FALSE, own |-> c.own]

-----------------------------------------------------------------------------
(* The server.                                                             *)

\* Column definitions, and the EOF that closes them in the older protocol.
Definitions(c) ==
    IF DeprecateEof THEN <<Packet("def", c)>> ELSE <<Packet("def", c), Packet("eof", c)>>

End(k, c, s) == [Packet(k, c) EXCEPT !.trans = InTransaction(s)]

ResultSet(c, s, more) ==
    <<Packet("cols", c)>> \o Definitions(c) \o <<Packet("row", c)>>
        \o <<[End("eof", c, s) EXCEPT !.more = more]>>

Accepted(c) ==
    CASE c.c = "query" /\ c.q.verb \in Verbs -> Accepts(session, c.q)
      [] c.c = "execute" -> prepared[c.id] # "none"
      [] OTHER -> TRUE

Refusable(c) ==
    CASE c.c = "query"   -> c.q.verb \in MayFail
      [] c.c = "prepare" -> "PREPARE" \in MayFail
      [] c.c = "execute" -> "WRITE" \in MayFail
      [] OTHER           -> FALSE

Done(c) ==
    CASE c.c = "query" /\ c.q.verb \in Verbs -> Executed(session, c.q)
      [] c.c \in {"query", "execute"}        -> Written(session, c.q.name)
      [] OTHER                               -> session

Response(c) ==
    CASE c.c = "query" /\ c.q.verb = "SELECT" ->
            ResultSet(c, session, TRUE) \o <<End("ok", c, Done(c))>>
      [] c.c = "execute" -> ResultSet(c, Done(c), FALSE)
      [] c.c = "prepare" -> <<[Packet("prepare_ok", c) EXCEPT !.id = next_id]>>
                                \o Definitions(c) \o Definitions(c)
      [] c.c = "close"   -> <<>>
      [] OTHER           -> <<End("ok", c, Done(c))>>

\* A failing multi-statement fails in its first statement or in its last.
Refusals(c) ==
    LET err == <<Packet("err", c)>>
        cut == <<Packet("cols", c)>> \o Definitions(c) \o err
    IN  CASE c.c = "query" /\ c.q.verb = "SELECT" ->
                {err, cut, ResultSet(c, session, TRUE) \o err}
          [] c.c = "execute" -> {err, cut}
          [] OTHER -> {err}

\* MySQL's COMMIT does not fail half way; a refused statement changes nothing.
Serve ==
    /\ net # <<>>
    /\ net' = Tail(net)
    /\ LET c == Head(net) IN
       \/ /\ Accepted(c)
          /\ session' = Done(c)
          /\ replies' = replies \o Response(c)
          /\ prepared' = CASE c.c = "prepare" -> [prepared EXCEPT ![next_id] = c.sql]
                           [] c.c = "close" -> [prepared EXCEPT ![c.id] = "none"]
                           [] OTHER -> prepared
          /\ next_id' = IF c.c = "prepare" THEN next_id + 1 ELSE next_id
       \/ /\ ~Accepted(c) \/ Refusable(c)
          /\ \E r \in Refusals(c) : replies' = replies \o r
          /\ UNCHANGED <<session, prepared, next_id>>
    /\ UNCHANGED <<inner, app>>

\* The client is gone: an open transaction ends with the session.
Disconnect ==
    /\ call = Closed /\ net = <<>>
    /\ session # RolledBack(session)
    /\ session' = RolledBack(session)
    /\ UNCHANGED <<inner, net, replies, prepared, next_id, app>>
-----------------------------------------------------------------------------
(* How a call ends.                                                        *)

QueuedRollback(d) == [Query(RollbackSql(d)) EXCEPT !.own = FALSE]

\* Mutant: a nested transaction is rolled back like an outer one.
StartRollbackAll(w, q) ==
    IF depth > 0
    THEN /\ waiting' = Append(q, "Result")
         /\ wbuf' = Append(w, QueuedRollback(1))
         /\ depth' = depth - 1
    ELSE waiting' = q /\ wbuf' = w /\ UNCHANGED depth

\* MySqlTransactionManager::start_rollback(), from a destructor; w is the
\* write buffer and q the deque.
StartRollback(w, q) ==
    IF depth > 0
    THEN /\ waiting' = Append(q, "Result")
         /\ wbuf' = Append(w, QueuedRollback(depth))
         /\ depth' = depth - 1
    ELSE waiting' = q /\ wbuf' = w /\ UNCHANGED depth

\* The await a call has reached, or will reach once the buffer is flushed.
Stage == IF call.at = "flush" THEN call.then ELSE call.at

\* Cancellations that `waiting` does not account for: a COM_STMT_PREPARE or a
\* COM_PING in flight; a stream that has yielded the end of a result, whose
\* entry is still there; a BEGIN for which there is no Transaction yet.
Discarded ==
    \/ "prepare" \in Careful /\ Stage \in {"prepare_ok", "defs", "execute"}
    \/ "ping" \in Careful /\ Stage = "pong"
    \/ "yield" \in Careful /\ Stage = "yield"
    \/ "begin" \in Careful /\ call.op = "Begin" /\ Stage # "drain"

\* The application drops the connection and every Transaction on it.
HangUp ==
    /\ call' = Closed
    /\ handles' = <<>>
    /\ fate' = [i \in Tx |-> IF i \in Open THEN "aborted" ELSE fate[i]]
    /\ wbuf' = <<>> /\ replies' = <<>> /\ waiting' = <<>> /\ depth' = 0
    /\ UNCHANGED net

\* A call ends without Ok, with rest to be read and q in the deque.  The
\* Transaction that commit(self) and rollback(self) own is dropped open;
\* begin() has no guard.
Abandon(f, rest, q) ==
    /\ call' = NoCall
    /\ net' = Others(net) /\ replies' = Others(rest)
    /\ IF call.op \in {"Commit", "Rollback"}
       THEN /\ StartRollback(Others(wbuf), q)
            /\ handles' = Popped /\ fate' = [fate EXCEPT ![Top] = f]
       ELSE waiting' = q /\ wbuf' = Others(wbuf) /\ UNCHANGED <<depth, handles, fate>>

\* Mutant: the response that failed stays expected.
PopFrontNot(q) == q

\* VecDeque::pop_front()
PopFront(q) == IF q = <<>> THEN q ELSE Tail(q)

\* recv_packet() got an ERR: it pops the deque and the call returns Err.
Fail ==
    /\ Abandon("aborted", Tail(replies), PopFront(waiting))
    /\ erred' = erred \cup Open
    /\ UNCHANGED <<status, cache, session, prepared, next_id, begun, parent, acked>>

\* The future of the call, or the stream that has yielded, is dropped.
Cancel ==
    /\ call.op \in MayCancel \/ call.at = "yield"
    /\ IF Discarded THEN HangUp
       ELSE Abandon(IF call.op = "Commit" THEN "unknown" ELSE "aborted", replies, waiting)
    /\ UNCHANGED <<status, cache, session, prepared, next_id, begun, parent, acked, erred>>

\* A call other than begin() returns Ok.
Return ==
    /\ call' = NoCall
    /\ acked' = IF call.op \in {"Execute", "Fetch", "Run", "RunOnce"} THEN acked \cup {Top} ELSE acked
    /\ IF call.op \in {"Commit", "Rollback"}
       THEN /\ depth' = depth - 1
            /\ handles' = Popped
            /\ fate' = [fate EXCEPT ![Top] = IF call.op = "Commit" THEN "committed" ELSE "aborted"]
       ELSE UNCHANGED <<depth, handles, fate>>
    /\ UNCHANGED <<begun, parent, erred>>

\* begin() checks the status flags of the answer and counts the transaction.
BeginReturns(trans) ==
    /\ call' = NoCall
    /\ IF trans
       THEN /\ depth' = depth + 1
            /\ handles' = Append(handles, begun + 1)
            /\ begun' = begun + 1
            /\ fate' = [fate EXCEPT ![begun + 1] = "open"]
            /\ parent' = [parent EXCEPT ![begun + 1] = Top]
       ELSE UNCHANGED <<depth, handles, begun, fate, parent>>
    /\ UNCHANGED <<acked, erred>>

-----------------------------------------------------------------------------
(* The application.                                                        *)

Idle == call = NoCall /\ Len(waiting) <= MaxWaiting

Draining(op, s) == [NoCall EXCEPT !.op = op, !.at = "drain", !.sql = s]

\* run(), prepare_with(), describe() and ping() first wait until ready.
Start(op, s) ==
    /\ Idle
    /\ op \in {"Run", "RunOnce", "Prepare", "Describe"} => next_id \in Ids
    /\ op = "Begin" => begun < MaxTx /\ Len(handles) < MaxDepth
    /\ call' = Draining(op, s)
    /\ UNCHANGED <<inner, server, handles, begun, fate, parent, acked, erred>>

\* Mutant: only nested transactions send a statement.
StartEndShallow(op, f) ==
    /\ Idle /\ op \in Calls /\ handles # <<>>
    /\ IF depth > 1 THEN call' = Draining(op, "none") /\ UNCHANGED <<handles, fate>>
       ELSE handles' = Popped /\ fate' = [fate EXCEPT ![Top] = f] /\ UNCHANGED call
    /\ UNCHANGED <<inner, server, begun, parent, acked, erred>>

\* commit() and rollback(), which do nothing when the depth is 0.
StartEnd(op, f) ==
    /\ Idle /\ op \in Calls /\ handles # <<>>
    /\ IF depth > 0 THEN call' = Draining(op, "none") /\ UNCHANGED <<handles, fate>>
       ELSE handles' = Popped /\ fate' = [fate EXCEPT ![Top] = f] /\ UNCHANGED call
    /\ UNCHANGED <<inner, server, begun, parent, acked, erred>>

\* clear_cached_statements() does not wait until ready.
StartClear ==
    /\ Idle /\ "ClearCache" \in Calls
    /\ call' = [NoCall EXCEPT !.op = "ClearCache", !.at = "clear"]
    /\ UNCHANGED <<inner, server, handles, begun, fate, parent, acked, erred>>

\* A Transaction goes out of scope.
DropTransaction ==
    /\ call = NoCall /\ handles # <<>>
    /\ StartRollback(wbuf, waiting)
    /\ handles' = Popped
    /\ fate' = [fate EXCEPT ![Top] = "aborted"]
    /\ UNCHANGED <<status, cache, server, call, begun, parent, acked, erred>>

\* close() flushes what is queued before Quit; close_hard() does not.
Close ==
    /\ call = NoCall /\ handles = <<>>
    /\ net' \in {net, net \o wbuf}
    /\ call' = Closed
    /\ wbuf' = <<>> /\ replies' = <<>> /\ waiting' = <<>> /\ depth' = 0
    /\ UNCHANGED <<status, cache, session, prepared, next_id,
                   handles, begun, fate, parent, acked, erred>>

-----------------------------------------------------------------------------
(* The steps of a call: sending.                                           *)

appRest == <<handles, begun, fate, parent, acked, erred>>

Flush ==
    /\ call.at \in {"drain", "flush"} /\ wbuf # <<>>
    /\ net' = Append(net, Head(wbuf))
    /\ wbuf' = Tail(wbuf)
    /\ call' = IF call.at = "flush" /\ Len(wbuf) = 1 THEN [call EXCEPT !.at = call.then] ELSE call
    /\ UNCHANGED <<waiting, status, depth, cache, replies, session, prepared, next_id, appRest>>

\* send_packet(): the command is buffered and the call flushes, then goes on.
SendThen(c, stage) ==
    /\ wbuf' = Append(wbuf, c)
    /\ call' = [call EXCEPT !.at = "flush", !.then = stage]

Ready(ops) ==
    call.at = "drain" /\ wbuf = <<>> /\ waiting = <<>> /\ call.n = 0 /\ call.op \in ops

\* run() without arguments: COM_QUERY.
QueryReady ==
    /\ Ready({"Begin", "Commit", "Rollback", "Execute", "Fetch"})
    /\ waiting' = Append(waiting, "Result")
    /\ SendThen(Query(CASE call.op = "Begin"    -> BeginSql(depth)
                        [] call.op = "Commit"   -> CommitSql(depth)
                        [] call.op = "Rollback" -> RollbackSql(depth)
                        [] call.op = "Execute"  -> Write
                        [] call.op = "Fetch"    -> Select), "first")
    /\ UNCHANGED <<status, depth, cache, server, appRest>>

PingReady ==
    /\ Ready({"Ping"})
    /\ SendThen(PingCmd, "pong")
    /\ UNCHANGED <<waiting, status, depth, cache, server, appRest>>

\* StatementCache: get_mut() makes the entry the most recently used.
Entries(s) == {i \in DOMAIN cache : cache[i].sql = s}
Touched(s) ==
    LET i == CHOOSE i \in Entries(s) : TRUE
    IN  Append(SubSeq(cache, 1, i - 1) \o SubSeq(cache, i + 1, Len(cache)), cache[i])

\* The statement is not kept: not persistent, only described, or no cache.
Transient == call.op \in {"RunOnce", "Describe"} \/ Capacity = 0

\* run() with arguments expects its one response before it prepares;
\* prepare_with() and describe() expect none.
PrepareReady ==
    /\ Ready({"Run", "RunOnce", "Prepare", "Describe"})
    /\ waiting' = IF call.op \in {"Run", "RunOnce"} THEN Append(waiting, "Result") ELSE waiting
    /\ IF ~Transient /\ Entries(call.sql) # {}
       THEN /\ cache' = Touched(call.sql)
            /\ IF call.op = "Run"
               THEN SendThen(ExecuteCmd(cache'[Len(cache)].id), "first") /\ UNCHANGED <<depth, appRest>>
               ELSE Return /\ UNCHANGED wbuf
       ELSE SendThen(PrepareCmd(call.sql), "prepare_ok") /\ UNCHANGED <<cache, depth, appRest>>
    /\ UNCHANGED <<status, server>>

\* COM_STMT_EXECUTE after the evicted statement was closed.
SendExecute ==
    /\ call.at = "execute"
    /\ SendThen(ExecuteCmd(call.id), "first")
    /\ UNCHANGED <<waiting, status, depth, cache, server, appRest>>

\* A statement that is not kept is closed before its result is read.
SendClose ==
    /\ call.at = "close_once"
    /\ SendThen(StmtClose(call.id), "first")
    /\ UNCHANGED <<waiting, status, depth, cache, server, appRest>>

SendDone ==
    /\ call.at = "return"
    /\ Return
    /\ UNCHANGED <<wbuf, waiting, status, cache, server>>

\* clear_cached_statements(): remove_lru() and COM_STMT_CLOSE until it is empty.
ClearStep ==
    /\ call.at = "clear"
    /\ IF cache = <<>> THEN Return /\ UNCHANGED <<wbuf, cache>>
       ELSE /\ SendThen(StmtClose(Head(cache).id), "clear")
            /\ cache' = Tail(cache)
            /\ UNCHANGED <<depth, appRest>>
    /\ UNCHANGED <<waiting, status, server>>

-----------------------------------------------------------------------------
(* The steps of a call: receiving.                                         *)

Reading == {"pong", "prepare_ok", "defs", "first", "meta", "rows"}

Drains == call.at = "drain" /\ wbuf = <<>> /\ waiting # <<>>

Incoming == replies # <<>> /\ (call.at \in Reading \/ Drains)

\* Every packet is read through recv_packet(), which looks for ERR.
ReceiveErr == Incoming /\ Head(replies).k = "err" /\ Fail

Receive(k) == /\ Incoming /\ Head(replies).k # "err"
              /\ call.at = k
              /\ replies' = Tail(replies)
              /\ UNCHANGED <<wbuf, net, session, prepared, next_id>>

SetFront(x) == waiting' = <<x>> \o Tail(waiting)

\* The drain met the OK or EOF that ends a result; SERVER_MORE_RESULTS_EXISTS announces another.
Finish(m) == IF m.more THEN SetFront("Result") ELSE waiting' = Tail(waiting)

\* Packets after a column count: the definitions and the EOF that may follow.
MetadataLen(n) == IF DeprecateEof THEN n ELSE n + 1

\* wait_until_ready() in a row: everything up to the EOF.
DrainRow ==
    /\ Receive("drain") /\ call.n = 0 /\ Head(waiting) = "Row"
    /\ LET m == Head(replies) IN
       IF m.k = "eof" THEN Finish(m) ELSE UNCHANGED waiting
    /\ UNCHANGED <<status, depth, cache, app>>

\* wait_until_ready() before a result: an OK ends it, a column count starts
\* the rows.
DrainResult ==
    /\ Receive("drain") /\ call.n = 0 /\ Head(waiting) = "Result"
    /\ LET m == Head(replies) IN
       IF m.k \in {"ok", "prepare_ok"}
       THEN Finish(m) /\ UNCHANGED call
       ELSE /\ SetFront("Row")
            /\ call' = [call EXCEPT !.n = MetadataLen(m.n)]
    /\ UNCHANGED <<status, depth, cache, appRest>>

\* skip_result_metadata()
DrainSkip ==
    /\ Receive("drain") /\ call.n > 0
    /\ call' = [call EXCEPT !.n = @ - 1]
    /\ UNCHANGED <<waiting, status, depth, cache, appRest>>

ReceivePong ==
    /\ Receive("pong")
    /\ Return
    /\ UNCHANGED <<waiting, status, cache>>

\* prepare_statement(): COM_STMT_PREPARE_OK, then one parameter and one column.
ReceivePrepareOk ==
    /\ Receive("prepare_ok")
    /\ call' = [call EXCEPT !.at = "defs", !.id = Head(replies).id,
                            !.n = MetadataLen(1) + MetadataLen(1)]
    /\ UNCHANGED <<waiting, status, depth, cache, appRest>>

ReceiveDef ==
    /\ Receive("defs") /\ call.n > 1
    /\ call' = [call EXCEPT !.n = @ - 1]
    /\ UNCHANGED <<waiting, status, depth, cache, appRest>>

\* StatementCache::insert(): the least recently used entry has to go.
CacheFull == Len(cache) = Capacity

\* Mutant: the statement just prepared is closed, not the evicted one.
EvictedNew == call.id

Evicted == Head(cache).id

\* The statement is prepared: get_or_prepare_statement() caches it and closes
\* the one that falls out; run() then executes it.
ReceiveLastDef ==
    /\ call.at = "defs" /\ call.n = 1 /\ Incoming /\ Head(replies).k # "err"
    /\ replies' = Tail(replies)
    /\ LET runs == call.op \in {"Run", "RunOnce"} IN
       /\ cache' = IF Transient THEN cache
                   ELSE Append(IF CacheFull THEN Tail(cache) ELSE cache, [sql |-> call.sql, id |-> call.id])
       /\ CASE Transient /\ runs          -> SendThen(ExecuteCmd(call.id), "close_once")
            [] Transient /\ ~runs         -> SendThen(StmtClose(call.id), "return")
            [] ~Transient /\ CacheFull    -> SendThen(StmtClose(Evicted),
                                                      IF runs THEN "execute" ELSE "return")
            [] ~Transient /\ ~CacheFull /\ runs  -> SendThen(ExecuteCmd(call.id), "first")
            [] ~Transient /\ ~CacheFull /\ ~runs -> call' = [call EXCEPT !.at = "return"] /\ UNCHANGED wbuf
    /\ UNCHANGED <<waiting, status, depth, net, session, prepared, next_id, appRest>>

\* The loop of run() after the yield: the next result, or the end.
GoOn(more, trans) ==
    /\ IF more THEN SetFront("Result") ELSE waiting' = Tail(waiting)
    /\ IF more
       THEN call' = [call EXCEPT !.at = "first"] /\ UNCHANGED <<depth, appRest>>
       ELSE IF call.op = "Begin" THEN BeginReturns(trans) ELSE Return

\* A result ends and run() yields its MySqlQueryResult before it touches
\* `waiting`.  execute(), fetch() and fetch_optional() poll on at once; who
\* polls the stream of fetch_many() or execute_many() has it in hand here.
EndResult(m) ==
    /\ status' = m.trans
    /\ IF call.op \in Streamed
       THEN /\ call' = [call EXCEPT !.at = "yield", !.then = IF m.more THEN "first" ELSE "return"]
            /\ UNCHANGED <<waiting, depth, appRest>>
       ELSE GoOn(m.more, m.trans)
    /\ UNCHANGED cache

\* The stream is polled again.
Resume ==
    /\ call.at = "yield"
    /\ GoOn(call.then = "first", status)
    /\ UNCHANGED <<wbuf, status, cache, server>>

\* The first packet of a result: an OK, or a column count.
ReceiveFirst ==
    /\ Receive("first")
    /\ LET m == Head(replies) IN
       IF m.k \in {"ok", "prepare_ok"} THEN EndResult(m)
       ELSE /\ SetFront("Row")
            /\ call' = [call EXCEPT !.at = "meta", !.n = MetadataLen(m.n)]
            /\ UNCHANGED <<status, depth, cache, appRest>>

\* recv_result_metadata(), recv_result_columns()
ReceiveMeta ==
    /\ Receive("meta")
    /\ call' = IF call.n > 1 THEN [call EXCEPT !.n = @ - 1] ELSE [call EXCEPT !.at = "rows", !.n = 0]
    /\ UNCHANGED <<waiting, status, depth, cache, appRest>>

ReceiveRow ==
    /\ Receive("rows")
    /\ LET m == Head(replies) IN
       IF m.k = "eof" THEN EndResult(m) ELSE UNCHANGED <<waiting, status, depth, cache, app>>

\* fetch_optional() returns with the first row and drops the stream.
ReceiveOnlyRow ==
    /\ call.at = "rows" /\ call.op \in {"Fetch", "Run", "RunOnce"}
    /\ replies # <<>> /\ Head(replies).k \notin {"eof", "err"}
    /\ replies' = Others(Tail(replies)) /\ net' = Others(net) /\ wbuf' = Others(wbuf)
    /\ call' = NoCall
    /\ UNCHANGED <<waiting, status, depth, cache, session, prepared, next_id, appRest>>

-----------------------------------------------------------------------------
ClientStep ==
    \/ Flush \/ QueryReady \/ PingReady \/ PrepareReady \/ SendExecute \/ SendClose \/ SendDone
    \/ ClearStep \/ ReceiveErr \/ DrainRow \/ DrainResult \/ DrainSkip \/ ReceivePong
    \/ ReceivePrepareOk \/ ReceiveDef \/ ReceiveLastDef \/ ReceiveFirst \/ ReceiveMeta
    \/ ReceiveRow \/ ReceiveOnlyRow \/ Resume

Next ==
    \/ ClientStep \/ Serve \/ Disconnect \/ Cancel
    \/ \E op \in Calls \cap {"Begin", "Execute", "Fetch", "Ping"} : Start(op, "none")
    \/ \E op \in Calls \cap {"Run", "RunOnce", "Prepare", "Describe"}, s \in Statements : Start(op, s)
    \/ StartEnd("Commit", "committed") \/ StartEnd("Rollback", "aborted")
    \/ StartClear \/ DropTransaction \/ Close

Spec == Init /\ [][Next]_vars
-----------------------------------------------------------------------------
(* Properties.                                                             *)

\* The fields have their types and the cache stays within its capacity.
TypeOK ==
    /\ waiting \in Seq({"Result", "Row"}) /\ depth \in Nat /\ status \in BOOLEAN
    /\ Len(cache) <= Capacity
    /\ \A i \in DOMAIN cache : cache[i].sql \in Statements /\ cache[i].id \in Ids
    /\ next_id \in Ids \cup {MaxPrepares + 1}
    /\ prepared \in [Ids -> Statements \cup {"none"}]
    /\ handles \in Seq(Tx)
    /\ fate \in [Tx -> {"new", "open", "committed", "aborted", "unknown"}]
    /\ parent \in [Tx -> Tx \cup {Outside}]
    /\ acked \subseteq Tx \cup {Outside} /\ erred \subseteq Tx

\* Unread packets that end a response.
Ends(s) == {i \in DOMAIN s : \/ s[i].k = "err"
                             \/ s[i].k \in {"ok", "eof"} /\ ~s[i].more}
Answered(s) == {i \in DOMAIN s : s[i].c # "close"}

\* Between calls the deque has one entry for each response not yet read to its
\* end, whether its command is still buffered, in flight or answered, and a
\* first entry Row exactly when the next unread packet is inside a result set.
WaitingExact ==
    call = NoCall =>
        /\ Len(waiting) = Cardinality(Ends(replies)) + Cardinality(Answered(net))
                            + Cardinality(Answered(wbuf))
        /\ replies # <<>> => (Head(replies).k \in {"ok", "cols"} => waiting[1] = "Result")
        /\ replies # <<>> => (Head(replies).k \in {"def", "row", "eof"} => waiting[1] = "Row")

\* The kind of packet that belongs at each place the client reads at.
Fits ==
    [pong |-> {"ok"}, prepare_ok |-> {"prepare_ok"}, defs |-> {"def", "eof"},
     first |-> {"ok", "cols"}, meta |-> {"def", "eof"}, rows |-> {"row", "eof"}]

\* A packet read as an answer is an answer to this call and of the kind the
\* code takes it for, never what an earlier, abandoned call left behind.
AnswerIsOwn ==
    call.at \in Reading /\ replies # <<>> =>
        /\ Head(replies).own
        /\ Head(replies).k \in Fits[call.at] \cup {"err"}

\* A cached statement is prepared on the server, under the cached id.
CachedIsPrepared ==
    call # Closed => \A i \in DOMAIN cache : prepared[cache[i].id] = cache[i].sql

Quiescent == call = NoCall /\ wbuf = <<>> /\ net = <<>> /\ replies = <<>>

\* With nothing in flight, the depth, the Transaction values and the server
\* agree.
DepthAgrees ==
    Quiescent => /\ depth = Len(handles)
                 /\ InTransaction(session) <=> handles # <<>>

\* A write outside any transaction is durable when its call returns.
AutocommitDurable == Outside \in acked => Outside \in session.durable

\* A transaction and those around it; a nested one has the higher number.
Enclosing[i \in Tx] == {i} \cup (IF parent[i] \in 1..(i - 1) THEN Enclosing[parent[i]] ELSE {})

\* commit() of a transaction and of those around it returned Ok, and no call
\* in them returned an error, only if what they wrote is durable.
CommitDurable ==
    \A i \in acked \ {Outside} :
        (\A j \in Enclosing[i] : fate[j] = "committed" /\ j \notin erred) => i \in session.durable

\* Nothing a dropped or rolled back transaction wrote, or one nested in it,
\* becomes durable.
AbortedNeverDurable ==
    \A i \in session.durable \ {Outside} : \A j \in Enclosing[i] : fate[j] # "aborted"

\* The driver's idea of its transactions and the server's agree, and the right
\* writes are durable, whatever was dropped, cancelled or refused.
TransactionsExact ==
    DepthAgrees /\ AutocommitDurable /\ CommitDurable /\ AbortedNeverDurable

\* A queued rollback never undoes the work of a transaction that is still open.
OpenKeepsWrites ==
    [][\A k \in DOMAIN handles :
          (/\ handles[k] \in acked /\ handles' = handles
           /\ k = Len(handles) => call.op \notin {"Commit", "Rollback"})
              => handles[k] \in session'.data]_vars

\* A call that waits for a packet will get one: with nothing left in the two
\* directions of the socket the client is not waiting.
NeverStarves ==
    (call.at \in Reading \/ Drains) => replies # <<>> \/ net # <<>>

\* `waiting` describes exactly the packets that are still to come, and every
\* statement of the cache exists on the server.
ProtocolInSync == TypeOK /\ WaitingExact /\ CachedIsPrepared

\* Every call reads the answer to its own command, and none waits for a packet
\* that will not come.
AnswersArrive == AnswerIsOwn /\ NeverStarves
=============================================================================
