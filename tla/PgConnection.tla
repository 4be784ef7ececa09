---------------------------- MODULE PgConnection ----------------------------
(***************************************************************************)
(* A PostgreSQL connection: the client of sqlx-postgres/src/connection     *)
(* (mod.rs, executor.rs), its PgTransactionManager (transaction.rs) and    *)
(* statement cache, the two directions of the socket, and the server.      *)
(*                                                                         *)
(* Everything the client writes between two awaits ends in a Query or a    *)
(* Sync and is one unit; the server answers a unit with messages of which  *)
(* the last is ReadyForQuery.  The client reads one message per poll and   *)
(* may be cancelled in between.  What is in flight when a call ends is     *)
(* marked as not its own (own is FALSE).                                   *)
(***************************************************************************)
EXTENDS SqlSession

CONSTANTS
    Statements,    \* SQL texts run with arguments, hence prepared
    Capacity,      \* statement_cache_capacity
    Calls,         \* the methods the application uses
    MayFail,       \* the statements the server may refuse
    MayCancel,     \* the calls whose futures the application drops
    Discards,      \* calls after whose failure or cancellation it drops the connection
    MaxTx,         \* bound: transactions begun
    MaxDepth,      \* bound: nesting of Transaction values
    MaxFrames,     \* bound: savepoints, which a rolled back one leaves behind
    MaxPending,    \* bound: responses outstanding when a call starts
    MaxPrepares    \* bound: statement ids

Outside == 0
Tx == 1..MaxTx
Ids == 1..MaxPrepares

AllCalls == {"Begin", "Commit", "Rollback", "Execute", "Run", "Prepare", "Ping", "ClearCache"}
Verbs == {"BEGIN", "SAVEPOINT", "COMMIT", "RELEASE", "ROLLBACK", "ROLLBACK TO"}

ASSUME PgAssumption ==
    /\ Dialect = "postgres"
    /\ Capacity \in Nat /\ IsFiniteSet(Statements)
    /\ Calls \subseteq AllCalls /\ MayCancel \subseteq Calls /\ Discards \subseteq Calls
    /\ MayFail \subseteq Verbs \cup {"WRITE", "PARSE"}
    /\ MaxTx \in Nat /\ MaxDepth \in Nat /\ MaxFrames \in Nat
    /\ MaxPending \in Nat /\ MaxPrepares \in Nat

VARIABLES
    \* PgConnectionInner
    wbuf,      \* the write buffer
    pending,   \* pending_ready_for_query_count
    status,    \* transaction_status
    depth,     \* transaction_depth
    cache,     \* cache_statement, the least recently used first
    next_id,   \* next_statement_id
    \* the socket and the server
    net,       \* units the server has not read
    replies,   \* messages the client has not read
    session,   \* transaction and data of the backend
    prepared,  \* its prepared statements, by id
    \* the application
    call,      \* the call in progress
    handles,   \* the open Transaction values, the innermost last
    begun,     \* number of transactions begun
    fate,      \* what the application knows of each transaction
    parent,    \* the enclosing transaction
    acked,     \* writes whose call has returned Ok
    erred      \* transactions in which a call has returned Err

inner == <<wbuf, pending, status, depth, cache, next_id>>
server == <<net, replies, session, prepared>>
app == <<call, handles, begun, fate, parent, acked, erred>>
vars == <<inner, server, app>>

NoCall == [op |-> "none", at |-> "none", then |-> "none", sql |-> "none", n |-> 0]
Closed == [NoCall EXCEPT !.op = "closed"]

Top == IF handles = <<>> THEN Outside ELSE handles[Len(handles)]
Popped == SubSeq(handles, 1, Len(handles) - 1)
Open == {handles[k] : k \in DOMAIN handles}

Init ==
    /\ wbuf = <<>> /\ pending = 0 /\ status = "idle" /\ depth = 0
    /\ cache = <<>> /\ next_id = 1
    /\ net = <<>> /\ replies = <<>> /\ session = NewSession
    /\ prepared = [i \in Ids |-> "none"]
    /\ call = NoCall /\ handles = <<>> /\ begun = 0
    /\ fate = [i \in Tx |-> "new"] /\ parent = [i \in Tx |-> Outside]
    /\ acked = {} /\ erred = {}

-----------------------------------------------------------------------------
(* Units and messages.                                                     *)

Write == [verb |-> "WRITE", name |-> Top]

Query(q) == [u |-> "query", q |-> q, id |-> 0, sql |-> "none", ids |-> <<>>, own |-> TRUE]
SyncUnit == [Query(Write) EXCEPT !.u = "sync"]
ParseUnit(id, s) == [Query(Write) EXCEPT !.u = "parse", !.id = id, !.sql = s]
BindUnit(id) == [Query(Write) EXCEPT !.u = "bind", !.id = id]
CloseUnit(ids) == [Query(Write) EXCEPT !.u = "close", !.ids = ids]

Others(s) == [i \in DOMAIN s |-> [s[i] EXCEPT !.own = FALSE]]

TransactionStatus(s) ==
    IF s.failed THEN "error" ELSE IF InTransaction(s) THEN "transaction" ELSE "idle"

-----------------------------------------------------------------------------
(* The server.                                                             *)

Accepted(m) ==
    CASE m.u = "query" -> IF m.q.verb = "WRITE" THEN ~session.failed ELSE Accepts(session, m.q)
      [] m.u = "parse" -> ~session.failed
      [] m.u = "bind"  -> ~session.failed /\ prepared[m.id] # "none"
      [] OTHER         -> TRUE

Refusable(m) ==
    CASE m.u = "query" -> m.q.verb \in MayFail
      [] m.u = "parse" -> "PARSE" \in MayFail
      [] m.u = "bind"  -> "WRITE" \in MayFail
      [] OTHER         -> FALSE

Done(m) ==
    CASE m.u = "query" /\ m.q.verb # "WRITE" -> Executed(session, m.q)
      [] m.u \in {"parse", "close", "sync"}  -> session
      [] OTHER                               -> Written(session, m.q.name)

\* A COMMIT that fails (a deferred constraint) ends the transaction.
Refused(m) ==
    IF m.u = "query" /\ m.q.verb = "COMMIT" THEN RolledBack(session) ELSE Rejected(session)

Responses(m) ==
    CASE m.u = "query" -> <<"CommandComplete">>
      [] m.u = "parse" -> <<"ParseComplete", "ParameterDescription", "RowDescription">>
      [] m.u = "bind"  -> <<"BindComplete", "DataRow", "CommandComplete", "CloseComplete">>
      [] m.u = "close" -> [i \in DOMAIN m.ids |-> "CloseComplete"]
      [] m.u = "sync"  -> <<>>

Message(k, m) == [k |-> k, u |-> m.u, st |-> "none", own |-> m.own]

Answer(m, kinds, s) ==
    Append([i \in DOMAIN kinds |-> Message(kinds[i], m)],
           [Message("ReadyForQuery", m) EXCEPT !.st = TransactionStatus(s)])

Serve ==
    /\ net # <<>>
    /\ net' = Tail(net)
    /\ LET m == Head(net) IN
       \/ /\ Accepted(m)
          /\ session' = Done(m)
          /\ prepared' = [i \in Ids |-> IF m.u = "parse" /\ i = m.id THEN m.sql
                                        ELSE IF \E j \in DOMAIN m.ids : m.ids[j] = i THEN "none"
                                        ELSE prepared[i]]
          /\ replies' = replies \o Answer(m, Responses(m), session')
       \/ /\ ~Accepted(m) \/ Refusable(m)
          /\ session' = Refused(m)
          /\ replies' = replies \o Answer(m, <<"ErrorResponse">>, session')
          /\ UNCHANGED prepared
    /\ UNCHANGED <<inner, app>>

\* The client is gone: an open transaction ends with the session.
Disconnect ==
    /\ call = Closed /\ net = <<>>
    /\ session # RolledBack(session)
    /\ session' = RolledBack(session)
    /\ UNCHANGED <<inner, net, replies, prepared, app>>

-----------------------------------------------------------------------------
(* How a call ends.                                                        *)

\* queue_simple_query() and write_sync(), when p responses are expected.
Queue(m, p) == wbuf' = Append(wbuf, m) /\ pending' = p + 1

\* Mutant: the queued rollback is not counted.
StartRollbackUncounted(w) ==
    IF depth > 0
    THEN /\ wbuf' = Append(w, [Query(RollbackSql(depth)) EXCEPT !.own = FALSE])
         /\ depth' = depth - 1
         /\ UNCHANGED pending
    ELSE wbuf' = w /\ UNCHANGED <<pending, depth>>

\* Mutant: the depth is decremented before the statement is made from it.
StartRollbackLate(w) ==
    IF depth > 0
    THEN /\ wbuf' = Append(w, [Query(RollbackSql(depth - 1)) EXCEPT !.own = FALSE])
         /\ pending' = pending + 1
         /\ depth' = depth - 1
    ELSE wbuf' = w /\ UNCHANGED <<pending, depth>>

\* Mutant: the statement is forgotten.
StartRollbackSilent(w) ==
    /\ wbuf' = w
    /\ depth' = IF depth > 0 THEN depth - 1 ELSE depth
    /\ UNCHANGED pending

\* PgTransactionManager::start_rollback(), from a destructor; w is the buffer.
StartRollback(w) ==
    IF depth > 0
    THEN /\ wbuf' = Append(w, [Query(RollbackSql(depth)) EXCEPT !.own = FALSE])
         /\ pending' = pending + 1
         /\ depth' = depth - 1
    ELSE wbuf' = w /\ UNCHANGED <<pending, depth>>

\* The application drops the connection and every Transaction on it.
HangUp(f) ==
    /\ call' = Closed
    /\ handles' = <<>>
    /\ fate' = [i \in Tx |-> IF i \notin Open THEN fate[i]
                             ELSE IF i = Top /\ call.op = "Commit" THEN f ELSE "aborted"]
    /\ wbuf' = <<>> /\ replies' = <<>> /\ pending' = 0 /\ depth' = 0
    /\ UNCHANGED net

\* A call ends without Ok, with rest still to be read.  The Rollback guard of
\* begin(), or the Transaction that commit(self) and rollback(self) own and
\* that is still open, is dropped.
Abandon(f, rest) ==
    IF call.op \in Discards THEN HangUp(f)
    ELSE /\ call' = NoCall
         /\ net' = Others(net) /\ replies' = Others(rest)
         /\ IF call.op \in {"Begin", "Commit", "Rollback"} THEN StartRollback(Others(wbuf))
            ELSE wbuf' = Others(wbuf) /\ UNCHANGED <<pending, depth>>
         /\ IF call.op \in {"Commit", "Rollback"}
            THEN handles' = Popped /\ fate' = [fate EXCEPT ![Top] = f]
            ELSE UNCHANGED <<handles, fate>>

\* The call returns Err.
Fail(rest) ==
    /\ Abandon("aborted", rest)
    /\ erred' = erred \cup Open
    /\ UNCHANGED <<status, cache, next_id, session, prepared, begun, parent, acked>>

\* The future of the call is dropped.
Cancel ==
    /\ call.op \in MayCancel
    /\ Abandon(IF call.op = "Commit" THEN "unknown" ELSE "aborted", replies)
    /\ UNCHANGED <<status, cache, next_id, session, prepared, begun, parent, acked, erred>>

\* execute(), prepare(), ping(), commit() or rollback() returns Ok.
Return ==
    /\ call' = NoCall
    /\ acked' = IF call.op \in {"Execute", "Run"} THEN acked \cup {Top} ELSE acked
    /\ IF call.op \in {"Commit", "Rollback"}
       THEN /\ depth' = depth - 1
            /\ handles' = Popped
            /\ fate' = [fate EXCEPT ![Top] = IF call.op = "Commit" THEN "committed" ELSE "aborted"]
       ELSE UNCHANGED <<depth, handles, fate>>
    /\ UNCHANGED <<begun, parent, erred>>

-----------------------------------------------------------------------------
(* The application.                                                        *)

Draining(op, s) == [NoCall EXCEPT !.op = op, !.at = "drain", !.sql = s]

\* A call that first waits until the connection is ready.
Start(op, s) ==
    /\ call = NoCall /\ pending <= MaxPending
    /\ op \in {"Run", "Prepare"} => next_id \in Ids
    /\ call' = Draining(op, s)
    /\ UNCHANGED <<inner, server, handles, begun, fate, parent, acked, erred>>

\* commit() and rollback(), which do nothing when the depth is 0.
StartEnd(op, f) ==
    /\ call = NoCall /\ op \in Calls /\ pending <= MaxPending /\ handles # <<>>
    /\ IF depth > 0 THEN call' = Draining(op, "none") /\ UNCHANGED <<handles, fate>>
       ELSE handles' = Popped /\ fate' = [fate EXCEPT ![Top] = f] /\ UNCHANGED call
    /\ UNCHANGED <<inner, server, begun, parent, acked, erred>>

\* begin() queues its statement before it waits.
StartBegin ==
    /\ call = NoCall /\ "Begin" \in Calls /\ pending <= MaxPending
    /\ begun < MaxTx /\ Len(handles) < MaxDepth /\ Len(session.frames) < MaxFrames
    /\ Queue(Query(BeginSql(depth)), pending)
    /\ call' = Draining("Begin", "none")
    /\ UNCHANGED <<status, depth, cache, next_id, server,
                   handles, begun, fate, parent, acked, erred>>

\* ping() sends a Sync and waits.
StartPing ==
    /\ call = NoCall /\ "Ping" \in Calls /\ pending <= MaxPending
    /\ Queue(SyncUnit, pending)
    /\ call' = Draining("Ping", "none")
    /\ UNCHANGED <<status, depth, cache, next_id, server,
                   handles, begun, fate, parent, acked, erred>>

\* A Transaction goes out of scope.
DropTransaction ==
    /\ call = NoCall /\ handles # <<>>
    /\ StartRollback(wbuf)
    /\ handles' = Popped
    /\ fate' = [fate EXCEPT ![Top] = "aborted"]
    /\ UNCHANGED <<status, cache, next_id, server, call, begun, parent, acked, erred>>

\* close() flushes what is queued before Terminate; close_hard() does not.
Close ==
    /\ call = NoCall /\ handles = <<>>
    /\ net' \in {net, net \o wbuf}
    /\ call' = Closed
    /\ wbuf' = <<>> /\ replies' = <<>> /\ pending' = 0 /\ depth' = 0
    /\ UNCHANGED <<status, cache, next_id, session, prepared,
                   handles, begun, fate, parent, acked, erred>>

-----------------------------------------------------------------------------
(* The steps of a call.                                                    *)

Flush ==
    /\ call.at \in {"drain", "flush"} /\ wbuf # <<>>
    /\ net' = Append(net, Head(wbuf))
    /\ wbuf' = Tail(wbuf)
    /\ call' = IF call.at = "flush" /\ Len(wbuf) = 1 THEN [call EXCEPT !.at = call.then] ELSE call
    /\ UNCHANGED <<pending, status, depth, cache, next_id, replies, session, prepared,
                   handles, begun, fate, parent, acked, erred>>

\* wait_until_ready() reads and skips everything but ReadyForQuery and errors.
WaitUntilReady ==
    /\ call.at = "drain" /\ wbuf = <<>> /\ pending > 0 /\ replies # <<>>
    /\ LET m == Head(replies) IN
       \/ m.k = "ErrorResponse" /\ Fail(Tail(replies))
       \/ /\ m.k # "ErrorResponse"
          /\ replies' = Tail(replies)
          /\ IF m.k = "ReadyForQuery" THEN pending' = pending - 1 /\ status' = m.st
             ELSE UNCHANGED <<pending, status>>
          /\ UNCHANGED <<wbuf, depth, cache, next_id, net, session, prepared, app>>

Ready(ops) == call.at = "drain" /\ wbuf = <<>> /\ pending = 0 /\ call.op \in ops

\* begin() checks the status and counts the transaction.
BeginReady ==
    /\ Ready({"Begin"})
    /\ \/ /\ status = "transaction"
          /\ depth' = depth + 1
          /\ call' = NoCall
          /\ handles' = Append(handles, begun + 1)
          /\ begun' = begun + 1
          /\ fate' = [fate EXCEPT ![begun + 1] = "open"]
          /\ parent' = [parent EXCEPT ![begun + 1] = Top]
          /\ UNCHANGED <<wbuf, pending, status, cache, next_id, server, acked, erred>>
       \/ status # "transaction" /\ Fail(replies)

PingReady ==
    /\ Ready({"Ping"})
    /\ Return
    /\ UNCHANGED <<wbuf, pending, status, cache, next_id, server>>

FlushThen(stage) == [call EXCEPT !.at = "flush", !.then = stage]

\* run() without arguments: the simple protocol, which commit() and rollback() use.
QueryReady ==
    /\ Ready({"Execute", "Commit", "Rollback"})
    /\ Queue(Query(CASE call.op = "Execute"  -> Write
                     [] call.op = "Commit"   -> CommitSql(depth)
                     [] call.op = "Rollback" -> RollbackSql(depth)), pending)
    /\ call' = FlushThen("stream")
    /\ UNCHANGED <<status, depth, cache, next_id, server,
                   handles, begun, fate, parent, acked, erred>>

\* StatementCache: get_mut() makes the entry the most recently used.
Entries(s) == {i \in DOMAIN cache : cache[i].sql = s}
Touched(s) ==
    LET i == CHOOSE i \in Entries(s) : TRUE
    IN  Append(SubSeq(cache, 1, i - 1) \o SubSeq(cache, i + 1, Len(cache)), cache[i])

\* run() binds the statement and executes it; prepare() has what it wants.
Bound(id, p) ==
    IF call.op = "Run"
    THEN /\ Queue(BindUnit(id), p)
         /\ call' = FlushThen("stream")
         /\ UNCHANGED <<depth, handles, begun, fate, parent, acked, erred>>
    ELSE Return /\ pending' = p /\ UNCHANGED wbuf

\* get_or_prepare(): a hit, or Parse, Describe and Sync.
PrepareReady ==
    /\ Ready({"Run", "Prepare"})
    /\ \/ /\ Entries(call.sql) # {}
          /\ cache' = Touched(call.sql)
          /\ Bound(cache'[Len(cache)].id, pending)
          /\ UNCHANGED <<status, next_id, server>>
       \/ /\ Entries(call.sql) = {}
          /\ next_id' = next_id + 1
          /\ Queue(ParseUnit(next_id, call.sql), pending)
          /\ call' = [FlushThen("parse") EXCEPT !.n = next_id]
          /\ UNCHANGED <<status, depth, cache, server,
                         handles, begun, fate, parent, acked, erred>>

\* clear_cached_statements()
ClearReady ==
    /\ Ready({"ClearCache"})
    /\ cache' = <<>>
    /\ IF cache = <<>> THEN Return /\ UNCHANGED <<wbuf, pending>>
       ELSE /\ Queue(CloseUnit([i \in DOMAIN cache |-> cache[i].id]), pending)
            /\ call' = [FlushThen("closing") EXCEPT !.n = Len(cache)]
            /\ UNCHANGED <<depth, handles, begun, fate, parent, acked, erred>>
    /\ UNCHANGED <<status, next_id, server>>

\* recv_expect(): which message prepare() and the closing of statements wait for.
Expected ==
    [parse |-> "ParseComplete", params |-> "ParameterDescription", rows |-> "RowDescription",
     parsed |-> "ReadyForQuery", closing |-> "CloseComplete", closed |-> "ReadyForQuery"]

Following == [parse |-> "params", params |-> "rows", rows |-> "parsed"]

Receives == call.at \in DOMAIN Expected /\ replies # <<>>

\* An error, or a message out of place, ends the call.
Unexpected ==
    /\ Receives /\ Head(replies).k # Expected[call.at]
    /\ Fail(Tail(replies))

ReceiveParse ==
    /\ Receives /\ call.at \in DOMAIN Following
    /\ Head(replies).k = Expected[call.at]
    /\ replies' = Tail(replies)
    /\ call' = [call EXCEPT !.at = Following[call.at]]
    /\ UNCHANGED <<inner, net, session, prepared, handles, begun, fate, parent, acked, erred>>

\* Mutant: the statement just prepared is closed, not the evicted one.
ReceiveParsedClosesNew ==
    /\ Receives /\ call.at = "parsed" /\ Head(replies).k = "ReadyForQuery"
    /\ replies' = Tail(replies)
    /\ status' = Head(replies).st
    /\ LET entry == [sql |-> call.sql, id |-> call.n] IN
       \/ /\ Capacity > 0 /\ Len(cache) = Capacity
          /\ cache' = Append(Tail(cache), entry)
          /\ Queue(CloseUnit(<<call.n>>), pending - 1)
          /\ call' = FlushThen("closing")
          /\ UNCHANGED <<depth, handles, begun, fate, parent, acked, erred>>
       \/ /\ Capacity = 0 \/ Len(cache) < Capacity
          /\ cache' = IF Capacity = 0 THEN cache ELSE Append(cache, entry)
          /\ Bound(call.n, pending - 1)
    /\ UNCHANGED <<next_id, net, session, prepared>>

\* prepare() has succeeded: StatementCache::insert(), and Close for the least
\* recently used statement when the cache is full.
ReceiveParsed ==
    /\ Receives /\ call.at = "parsed" /\ Head(replies).k = "ReadyForQuery"
    /\ replies' = Tail(replies)
    /\ status' = Head(replies).st
    /\ LET entry == [sql |-> call.sql, id |-> call.n] IN
       \/ /\ Capacity > 0 /\ Len(cache) = Capacity
          /\ cache' = Append(Tail(cache), entry)
          /\ Queue(CloseUnit(<<Head(cache).id>>), pending - 1)
          /\ call' = FlushThen("closing")
          /\ UNCHANGED <<depth, handles, begun, fate, parent, acked, erred>>
       \/ /\ Capacity = 0 \/ Len(cache) < Capacity
          /\ cache' = IF Capacity = 0 THEN cache ELSE Append(cache, entry)
          /\ Bound(call.n, pending - 1)
    /\ UNCHANGED <<next_id, net, session, prepared>>

\* wait_for_close_complete(): one statement, or as many as were cached.
ReceiveClosing ==
    /\ Receives /\ call.at = "closing" /\ Head(replies).k = "CloseComplete"
    /\ replies' = Tail(replies)
    /\ call' = IF call.op = "ClearCache" /\ call.n > 1 THEN [call EXCEPT !.n = @ - 1]
               ELSE [call EXCEPT !.at = "closed"]
    /\ UNCHANGED <<inner, net, session, prepared, handles, begun, fate, parent, acked, erred>>

ReceiveClosed ==
    /\ Receives /\ call.at = "closed" /\ Head(replies).k = "ReadyForQuery"
    /\ replies' = Tail(replies)
    /\ status' = Head(replies).st
    /\ Bound(call.n, pending - 1)
    /\ UNCHANGED <<cache, next_id, net, session, prepared>>

\* Mutant: ReadyForQuery ends the stream and is not counted.
StreamUncounted ==
    /\ call.at = "stream" /\ replies # <<>>
    /\ LET m == Head(replies) IN
       \/ m.k = "ErrorResponse" /\ Fail(Tail(replies))
       \/ /\ m.k = "ReadyForQuery"
          /\ replies' = Tail(replies)
          /\ status' = m.st
          /\ Return
          /\ UNCHANGED <<wbuf, pending, cache, next_id, net, session, prepared>>
       \/ /\ m.k \notin {"ErrorResponse", "ReadyForQuery"}
          /\ replies' = Tail(replies)
          /\ UNCHANGED <<inner, net, session, prepared, app>>

\* The stream of run(): everything up to ReadyForQuery, or an error.
Stream ==
    /\ call.at = "stream" /\ replies # <<>>
    /\ LET m == Head(replies) IN
       \/ m.k = "ErrorResponse" /\ Fail(Tail(replies))
       \/ /\ m.k = "ReadyForQuery"
          /\ replies' = Tail(replies)
          /\ pending' = pending - 1 /\ status' = m.st
          /\ Return
          /\ UNCHANGED <<wbuf, cache, next_id, net, session, prepared>>
       \/ /\ m.k \notin {"ErrorResponse", "ReadyForQuery"}
          /\ replies' = Tail(replies)
          /\ UNCHANGED <<inner, net, session, prepared, app>>

-----------------------------------------------------------------------------
ClientStep ==
    \/ Flush \/ WaitUntilReady \/ BeginReady \/ PingReady \/ QueryReady \/ PrepareReady
    \/ ClearReady \/ Unexpected \/ ReceiveParse \/ ReceiveParsed \/ ReceiveClosing
    \/ ReceiveClosed \/ Stream

Next ==
    \/ ClientStep \/ Serve \/ Disconnect \/ Cancel
    \/ \E op \in Calls \cap {"Execute", "ClearCache"} : Start(op, "none")
    \/ \E op \in Calls \cap {"Run", "Prepare"}, s \in Statements : Start(op, s)
    \/ StartEnd("Commit", "committed") \/ StartEnd("Rollback", "aborted")
    \/ StartBegin \/ StartPing \/ DropTransaction \/ Close

Spec == Init /\ [][Next]_vars

\* The runtime polls the call in progress and the server reads its socket.
FairSpec == Spec /\ WF_vars(ClientStep) /\ WF_vars(Serve)
-----------------------------------------------------------------------------
(* Properties.                                                             *)

\* The fields have their types and the cache stays within its capacity.
TypeOK ==
    /\ pending \in Nat /\ depth \in Nat
    /\ status \in {"idle", "transaction", "error"}
    /\ Len(cache) <= Capacity
    /\ \A i \in DOMAIN cache : cache[i].sql \in Statements /\ cache[i].id \in Ids
    /\ next_id \in Ids \cup {MaxPrepares + 1}
    /\ prepared \in [Ids -> Statements \cup {"none"}]
    /\ handles \in Seq(Tx)
    /\ fate \in [Tx -> {"new", "open", "committed", "aborted", "unknown"}]
    /\ parent \in [Tx -> Tx \cup {Outside}]
    /\ acked \subseteq Tx \cup {Outside} /\ erred \subseteq Tx

ReadyReplies == {i \in DOMAIN replies : replies[i].k = "ReadyForQuery"}

\* "number of ReadyForQuery messages that we are currently expecting": exact
\* at every step, whatever was cancelled, refused or left in the buffer.
PendingExact ==
    call # Closed => pending = Len(wbuf) + Len(net) + Cardinality(ReadyReplies)

UnitOf ==
    [parse |-> "parse", params |-> "parse", rows |-> "parse", parsed |-> "parse",
     closing |-> "close", closed |-> "close",
     stream |-> IF call.op = "Run" THEN "bind" ELSE "query"]

\* A message read as an answer is an answer to this call and to the unit it
\* has just sent, never one that an earlier, abandoned call left behind.
AnswerIsOwn ==
    call.at \in DOMAIN UnitOf /\ replies # <<>> =>
        Head(replies).own /\ Head(replies).u = UnitOf[call.at]

\* No message out of place: the errors "expecting ... but received" and
\* "received more ReadyForQuery messages than expected" cannot occur.
NoProtocolError ==
    [][Unexpected => Head(replies).k = "ErrorResponse"]_vars

\* A cached statement is prepared on the server, so Bind finds it.
CachedIsPrepared ==
    call # Closed => \A i \in DOMAIN cache : prepared[cache[i].id] = cache[i].sql

Quiescent == call = NoCall /\ wbuf = <<>> /\ net = <<>> /\ replies = <<>>

\* With nothing in flight, transaction_status is the state of the server.
StatusExact == Quiescent => status = TransactionStatus(session)

\* With nothing in flight, the depth, the Transaction values and the server
\* agree.
DepthAgrees ==
    Quiescent => /\ depth = Len(handles)
                 /\ InTransaction(session) <=> handles # <<>>

\* A write outside any transaction is durable when its call returns.
AutocommitDurable == Outside \in acked => Outside \in session.durable

\* A transaction and those around it; a nested one has the higher number.
Enclosing[i \in Tx] == {i} \cup (IF parent[i] \in 1..(i - 1) THEN Enclosing[parent[i]] ELSE {})

\* commit() of a transaction and of those around it returned Ok, and no call
\* in them returned an error, only if what they wrote is durable.
CommitDurable ==
    \A i \in acked \ {Outside} :
        (\A j \in Enclosing[i] : fate[j] = "committed" /\ j \notin erred) => i \in session.durable

\* Nothing a dropped or rolled back transaction wrote, or one nested in it,
\* becomes durable.
AbortedNeverDurable ==
    \A i \in session.durable \ {Outside} : \A j \in Enclosing[i] : fate[j] # "aborted"

\* The driver's idea of its transactions and the server's agree, and the right
\* writes are durable, whatever was dropped, cancelled or refused.
TransactionsExact ==
    DepthAgrees /\ AutocommitDurable /\ CommitDurable /\ AbortedNeverDurable

\* Between two calls the driver knows what the server still owes it, which
\* statements it keeps and in which transaction state it is.
ProtocolInSync == TypeOK /\ PendingExact /\ StatusExact /\ CachedIsPrepared

\* A queued rollback never undoes the work of a transaction that is still open.
OpenKeepsWrites ==
    [][\A k \in DOMAIN handles :
          (/\ handles[k] \in acked /\ handles' = handles
           /\ k = Len(handles) => call.op \notin {"Commit", "Rollback"})
              => handles[k] \in session'.data]_vars

\* Every call returns: the client never waits for a message that does not come.
CallReturns == call.at # "none" ~> call.at = "none"
=============================================================================
