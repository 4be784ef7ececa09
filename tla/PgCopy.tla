------------------------------- MODULE PgCopy -------------------------------
(***************************************************************************)
(* COPY FROM STDIN and COPY TO STDOUT (sqlx-postgres/src/copy.rs) on a     *)
(* connection that other calls use before and after.  A COPY is sent       *)
(* without counting its ReadyForQuery in pending_ready_for_query_count, so *)
(* every path of copy.rs must read it itself.  Messages carry the number   *)
(* of the query they answer, which neither side can see.                   *)
(***************************************************************************)
EXTENDS Integers, Sequences, SequencesExt

CONSTANTS
    Chunks,      \* chunks of data given to send() and read_from()
    MaxQueries,  \* bound: queries sent
    MaxSent,     \* bound: chunks given to one COPY
    MaxReads,    \* bound: read_from() calls on one PgCopyIn
    MayFail,     \* what may go wrong: "copy_in", "copy_out", "data", "rows" refused by the
                 \* server, "not_copy" a statement that is no COPY
    MayDrop      \* what the application may drop early: "copy_in", "copy_out", "read_from", "call"

VARIABLES
    wbuf, pending,           \* write buffer, pending_ready_for_query_count
    net, replies, mode,      \* the socket; mode of the server: "ready" or "copy_in"
    ccall, holding,          \* the call in progress; the PgCopyIn or stream alive
    queries,                 \* number of queries sent
    copy_given, loaded,           \* chunks given by the application, loaded by the server
    reads,                   \* read_from() calls on this PgCopyIn
    tattered,                    \* a read_from() found the empty CopyData of another one in wbuf
    lapses,                  \* endings of a COPY that left its ReadyForQuery to nobody
    outcome,                 \* of the last call that ended: op, result, whose answer it was
    conn_at                   \* the pool has the connection back ("no", "idle" or "closed")

copyVars == <<wbuf, pending, net, replies, mode, ccall, holding, queries, copy_given, loaded,
              reads, tattered, lapses, outcome, conn_at>>

NoCall == [op |-> "none", at |-> "none", q |-> 0]
Nothing == [op |-> "none", ok |-> TRUE, own |-> TRUE]

CopyInit ==
    /\ wbuf = <<>> /\ pending = 0 /\ net = <<>> /\ replies = <<>> /\ mode = "ready"
    /\ ccall = NoCall /\ holding = "none" /\ queries = 0 /\ copy_given = <<>> /\ loaded = <<>>
    /\ reads = 0 /\ tattered = FALSE /\ lapses = 0 /\ outcome = Nothing /\ conn_at = "no"

\* len is the chunk the length in the header announces, data the one that follows.
Frame(k, q) == [k |-> k, q |-> q, len |-> "none", data |-> "none"]
DataFrame(c) == [Frame("CopyData", 0) EXCEPT !.len = c, !.data = c]

-----------------------------------------------------------------------------
(* The server.                                                             *)

Msg(k, q) == [k |-> k, q |-> q]
Answer(q, kinds) == [i \in DOMAIN kinds |-> Msg(kinds[i], q)]
Refusal(q) == Answer(q, <<"Error", "ReadyForQuery">>)

Replies(f, ms, m) ==
    /\ net' = Tail(net) /\ replies' = replies \o ms /\ mode' = m
    /\ UNCHANGED <<wbuf, pending, ccall, holding, queries, copy_given, reads, tattered, lapses, outcome, conn_at>>

ServeReady ==
    /\ net # <<>> /\ mode = "ready"
    /\ UNCHANGED loaded
    /\ LET f == Head(net) IN
       \/ f.k = "select" /\ Replies(f, Answer(f.q, <<"DataRow", "CommandComplete", "ReadyForQuery">>), mode)
       \/ f.k = "Sync" /\ Replies(f, Answer(f.q, <<"ReadyForQuery">>), mode)
       \/ f.k = "copy_in" /\ Replies(f, Answer(f.q, <<"CopyInResponse">>), "copy_in")
       \/ f.k \in {"copy_in", "copy_out"} \cap MayFail /\ Replies(f, Refusal(f.q), mode)
       \/ f.k \in {"copy_in", "copy_out"} /\ "not_copy" \in MayFail
            /\ \E rows \in {<<>>, <<"DataRow">>} :
                 Replies(f, Answer(f.q, rows \o <<"CommandComplete", "ReadyForQuery">>), mode)
       \/ f.k = "copy_out" /\ Replies(f, Answer(f.q, <<"CopyOutResponse", "CopyData", "CopyDone",
                                                     "CommandComplete", "ReadyForQuery">>), mode)
       \/ f.k = "copy_out" /\ "rows" \in MayFail
            /\ Replies(f, Answer(f.q, <<"CopyOutResponse", "CopyData">>) \o Refusal(f.q), mode)
       \/ f.k \in {"CopyData", "CopyDone", "CopyFail"} /\ Replies(f, <<>>, mode)

\* During COPY FROM STDIN a Sync is ignored and a query is refused unread.
ServeCopyIn ==
    /\ net # <<>> /\ mode = "copy_in"
    /\ LET f == Head(net) IN
       \/ /\ f.k = "CopyData"
          /\ loaded' = IF f.len = f.data
                         THEN IF f.data = "none" THEN loaded ELSE Append(loaded, f.data)
                         ELSE Append(loaded, "garbage")
          /\ Replies(f, <<>>, mode)
       \/ /\ f.k = "CopyData" /\ "data" \in MayFail
          /\ loaded' = <<>> /\ Replies(f, Refusal(queries), "ready")
       \/ /\ f.k = "CopyDone" /\ UNCHANGED loaded
          /\ Replies(f, Answer(queries, <<"CommandComplete", "ReadyForQuery">>), "ready")
       \/ /\ f.k = "CopyFail" /\ loaded' = <<>>
          /\ Replies(f, Answer(queries, <<"Error57014", "ReadyForQuery">>), "ready")
       \/ /\ f.k = "Sync" /\ UNCHANGED loaded /\ Replies(f, <<>>, mode)
       \/ /\ f.k \in {"select", "copy_in", "copy_out"}
          /\ loaded' = <<>> /\ Replies(f, Refusal(f.q), "ready")

-----------------------------------------------------------------------------
(* Calls of the client.                                                    *)

CallEnded(ok, own) ==
    /\ outcome' = [op |-> ccall.op, ok |-> ok, own |-> own]
    /\ ccall' = NoCall

IsFree == ccall = NoCall /\ conn_at = "no"

\* A call that ends with a message that is not ReadyForQuery leaves that one unread.
Lapse == lapses' = IF Head(replies).k = "ReadyForQuery" THEN lapses ELSE lapses + 1

Started(op) == ccall' = [op |-> op, at |-> "ready", q |-> queries + 1]

\* Any call that sends a query; it first waits until the connection is ready.  After a
\* PgCopyIn was dropped, it sends the CopyFail that is in the buffer, whose answer is not
\* counted.
StartQuery(op) ==
    /\ IsFree /\ holding = "none" /\ queries < MaxQueries
    /\ op \in {"select", "copy_in", "copy_out"}
    /\ Started(op)
    /\ lapses' = IF outcome.op = "drop_copy_in" THEN lapses + 1 ELSE lapses
    /\ outcome' = Nothing
    /\ UNCHANGED <<wbuf, pending, net, replies, mode, holding, queries, copy_given, loaded, reads, tattered,
                   conn_at>>

\* PoolConnection::drop: return_to_pool() pings, which writes a Sync at once.  A PgCopyIn or
\* stream of PgPoolCopyExt owns its connection and returns it however it ended.
ReturnToPool ==
    /\ IsFree /\ holding = "none"
    /\ ccall' = [op |-> "ping", at |-> "ready", q |-> 0]
    /\ wbuf' = Append(wbuf, Frame("Sync", 0)) /\ pending' = pending + 1
    /\ UNCHANGED <<net, replies, mode, holding, queries, copy_given, loaded, reads, tattered, lapses, outcome, conn_at>>

\* wait_until_ready(): flush, then read until nothing is pending.
WaitUntilReady ==
    /\ ccall.at = "ready"
    /\ IF wbuf # <<>>
         THEN /\ net' = net \o wbuf /\ wbuf' = <<>>
              /\ UNCHANGED <<pending, replies, ccall, outcome, conn_at>>
         ELSE /\ pending > 0 /\ replies # <<>>
              /\ replies' = Tail(replies)
              /\ pending' = IF Head(replies).k = "ReadyForQuery" THEN pending - 1 ELSE pending
              /\ IF Head(replies).k \in {"Error", "Error57014"}
                   THEN /\ CallEnded(FALSE, TRUE)
                        /\ conn_at' = IF ccall.op = "ping" THEN "closed" ELSE conn_at
                   ELSE UNCHANGED <<ccall, outcome, conn_at>>
              /\ UNCHANGED <<net, wbuf>>
    /\ UNCHANGED <<mode, holding, queries, copy_given, loaded, reads, tattered, lapses>>

IsReady == ccall.at = "ready" /\ wbuf = <<>> /\ pending = 0

\* Only an ordinary query is counted as pending.
SendQuery ==
    /\ IsReady /\ ccall.op \in {"select", "copy_in", "copy_out"}
    /\ net' = Append(net, Frame(ccall.op, ccall.q))
    /\ queries' = ccall.q
    /\ pending' = IF ccall.op = "select" THEN 1 ELSE 0
    /\ ccall' = [ccall EXCEPT !.at = "answer"]
    /\ copy_given' = <<>> /\ loaded' = <<>> /\ reads' = 0 /\ tattered' = FALSE
    /\ UNCHANGED <<wbuf, replies, mode, holding, lapses, outcome, conn_at>>

PingDone ==
    /\ IsReady /\ ccall.op = "ping"
    /\ CallEnded(TRUE, TRUE)
    /\ conn_at' = "idle"
    /\ UNCHANGED <<wbuf, pending, net, replies, mode, holding, queries, copy_given, loaded, reads, tattered, lapses>>

\* The next user of the pool takes the connection.
AcquireAgain ==
    /\ ccall = NoCall /\ conn_at = "idle"
    /\ conn_at' = "no"
    /\ UNCHANGED <<wbuf, pending, net, replies, mode, ccall, holding, queries, copy_given, loaded,
                   reads, tattered, lapses, outcome>>

Read ==
    /\ replies # <<>> /\ replies' = Tail(replies)
    /\ UNCHANGED <<wbuf, net, mode, queries, copy_given, loaded, reads, tattered, conn_at>>

Got == Head(replies)
IsError == Got.k \in {"Error", "Error57014"}
Goto(at) == ccall' = [ccall EXCEPT !.at = at] /\ UNCHANGED outcome

\* The stream of PgConnection::run().
ReceiveSelect ==
    /\ ccall.op = "select" /\ ccall.at = "answer" /\ Read
    /\ CASE Got.k \in {"DataRow", "CommandComplete"} ->
              /\ ccall' = [ccall EXCEPT !.q = IF Got.q = ccall.q THEN @ ELSE 0]
              /\ UNCHANGED <<pending, outcome>>
         [] Got.k = "ReadyForQuery" /\ pending > 0 ->
              pending' = pending - 1 /\ CallEnded(TRUE, Got.q = ccall.q)
         [] OTHER -> CallEnded(FALSE, TRUE) /\ UNCHANGED pending
    /\ UNCHANGED <<holding, lapses>>

\* Mutant: an error is returned without reading on.
ReceiveCopyInEarly ==
    /\ ccall.op = "copy_in" /\ ccall.at = "answer" /\ Read
    /\ IF Got.k = "CopyInResponse"
         THEN CallEnded(TRUE, Got.q = ccall.q) /\ holding' = "copy_in"
         ELSE CallEnded(FALSE, TRUE) /\ UNCHANGED holding
    /\ UNCHANGED <<pending, lapses>>

\* PgCopyIn::begin(): an unexpected answer is followed by one more message.
ReceiveCopyIn ==
    /\ ccall.op = "copy_in" /\ ccall.at = "answer" /\ Read
    /\ IF Got.k = "CopyInResponse"
         THEN CallEnded(TRUE, Got.q = ccall.q) /\ holding' = "copy_in"
         ELSE Goto("skip") /\ UNCHANGED holding
    /\ UNCHANGED <<pending, lapses>>

\* begin() and finish() read one message more before they return the error.
ReceiveSkip ==
    /\ ccall.at = "skip" /\ Read
    /\ CallEnded(FALSE, TRUE) /\ Lapse
    /\ UNCHANGED <<holding, pending>>

\* pg_begin_copy_out(): an error is returned at once.
ReceiveCopyOut ==
    /\ ccall.op = "copy_out" /\ ccall.at = "answer" /\ Read
    /\ IF Got.k = "CopyOutResponse"
         THEN CallEnded(TRUE, Got.q = ccall.q) /\ holding' = "copy_out" /\ UNCHANGED lapses
         ELSE CallEnded(FALSE, TRUE) /\ Lapse /\ UNCHANGED holding
    /\ UNCHANGED pending

\* PgCopyIn::send().
Send(c) ==
    /\ IsFree /\ holding = "copy_in" /\ Len(copy_given) < MaxSent
    /\ copy_given' = Append(copy_given, c)
    /\ net' = net \o wbuf \o <<DataFrame(c)>> /\ wbuf' = <<>>
    /\ UNCHANGED <<pending, replies, mode, ccall, holding, queries, loaded, reads, tattered, lapses, outcome, conn_at>>

\* PgCopyIn::read_from() writes a header before it reads from the source.
CopyReadFrom ==
    /\ IsFree /\ holding = "copy_in" /\ reads < MaxReads
    /\ reads' = reads + 1
    /\ tattered' = (tattered \/ wbuf # <<>>)
    /\ wbuf' = Append(wbuf, Frame("CopyData", 0))
    /\ ccall' = [op |-> "read_from", at |-> "source", q |-> queries]
    /\ UNCHANGED <<pending, net, replies, mode, holding, queries, copy_given, loaded, lapses, outcome,
                   conn_at>>

\* The length is patched into the first header of the buffer; the loop writes the next one.
ReadFromData(c) ==
    /\ ccall.at = "source" /\ Len(copy_given) < MaxSent
    /\ copy_given' = Append(copy_given, c)
    /\ LET filled == [wbuf EXCEPT ![Len(wbuf)].data = c]
           patched == [filled EXCEPT ![1].len = c]
       IN net' = net \o patched
    /\ wbuf' = <<Frame("CopyData", 0)>>
    /\ UNCHANGED <<pending, replies, mode, ccall, holding, queries, loaded, reads, tattered, lapses, outcome, conn_at>>

\* The source is at its end; an empty CopyData stays in the buffer.
ReadFromEnd ==
    /\ ccall.at = "source"
    /\ CallEnded(TRUE, TRUE)
    /\ UNCHANGED <<wbuf, pending, net, replies, mode, holding, queries, copy_given, loaded, reads, tattered, lapses, conn_at>>

\* read_from() is dropped while it waits for the source.
DropReadFrom ==
    /\ ccall.at = "source" /\ "read_from" \in MayDrop
    /\ ccall' = NoCall
    /\ UNCHANGED <<wbuf, pending, net, replies, mode, holding, queries, copy_given, loaded, reads, tattered, lapses,
                   outcome, conn_at>>

\* finish() and abort() consume the PgCopyIn.
EndCopyIn(op) ==
    /\ IsFree /\ holding = "copy_in" /\ op \in {"finish", "abort"}
    /\ holding' = "none"
    /\ net' = net \o Append(wbuf, Frame(IF op = "finish" THEN "CopyDone" ELSE "CopyFail", 0))
    /\ wbuf' = <<>>
    /\ ccall' = [op |-> op, at |-> "answer", q |-> queries]
    /\ UNCHANGED <<pending, replies, mode, queries, copy_given, loaded, reads, tattered, lapses, outcome, conn_at>>

ReceiveFinish ==
    /\ ccall.op = "finish" /\ ccall.at = "answer" /\ Read
    /\ Goto(IF Got.k = "CommandComplete" THEN "expect" ELSE "skip")
    /\ UNCHANGED <<holding, pending, lapses>>

\* abort() expects the error of its CopyFail; another error is returned at once.
ReceiveAbort ==
    /\ ccall.op = "abort" /\ ccall.at = "answer" /\ Read
    /\ IF Got.k = "Error57014" THEN Goto("expect") /\ UNCHANGED lapses
                              ELSE CallEnded(FALSE, TRUE) /\ Lapse
    /\ UNCHANGED <<holding, pending>>

\* recv_expect::<ReadyForQuery>(), the end of finish(), abort() and of a failed stream.
ReceiveExpected ==
    /\ ccall.at \in {"expect", "fail"} /\ Read
    /\ CallEnded(ccall.at = "expect" /\ Got.k = "ReadyForQuery", Got.q = ccall.q) /\ Lapse
    /\ UNCHANGED <<holding, pending>>

\* PgCopyIn::drop() leaves a CopyFail in the buffer.
DropCopyIn ==
    /\ IsFree /\ holding = "copy_in" /\ "copy_in" \in MayDrop
    /\ wbuf' = Append(wbuf, Frame("CopyFail", 0))
    /\ holding' = "none"
    /\ outcome' = [op |-> "drop_copy_in", ok |-> FALSE, own |-> TRUE]
    /\ UNCHANGED <<pending, net, replies, mode, ccall, queries, copy_given, loaded, reads, tattered, lapses, conn_at>>

\* next() on the stream of COPY TO STDOUT.
NextRow ==
    /\ IsFree /\ holding = "copy_out"
    /\ ccall' = [op |-> "next", at |-> "row", q |-> queries]
    /\ UNCHANGED <<wbuf, pending, net, replies, mode, holding, queries, copy_given, loaded, reads, tattered, lapses,
                   outcome, conn_at>>

ReceiveRow ==
    /\ ccall.at = "row" /\ Read
    /\ CASE Got.k = "CopyData" -> CallEnded(TRUE, Got.q = ccall.q) /\ UNCHANGED <<holding, lapses>>
         [] Got.k = "CopyDone" -> Goto("complete") /\ UNCHANGED <<holding, lapses>>
         [] IsError            -> Goto("fail") /\ holding' = "none" /\ UNCHANGED lapses
         [] OTHER              -> CallEnded(FALSE, TRUE) /\ holding' = "none" /\ Lapse
    /\ UNCHANGED pending

ReceiveComplete ==
    /\ ccall.at = "complete" /\ Read
    /\ holding' = "none"
    /\ IF Got.k = "CommandComplete" THEN Goto("expect") /\ UNCHANGED lapses
                                    ELSE CallEnded(FALSE, TRUE) /\ Lapse
    /\ UNCHANGED pending

\* The stream is dropped before its end.
DropCopyOut ==
    /\ IsFree /\ holding = "copy_out" /\ "copy_out" \in MayDrop
    /\ holding' = "none" /\ lapses' = lapses + 1
    /\ outcome' = [op |-> "drop_copy_out", ok |-> FALSE, own |-> TRUE]
    /\ UNCHANGED <<wbuf, pending, net, replies, mode, ccall, queries, copy_given, loaded, reads, tattered, conn_at>>

\* A call of copy.rs is dropped while it waits for an answer; of the stream, with it.
DropCall ==
    /\ ccall.at \in {"answer", "skip", "expect", "fail", "row", "complete"} /\ ccall.op # "select"
    /\ "call" \in MayDrop
    /\ ccall' = NoCall /\ holding' = "none" /\ lapses' = lapses + 1
    /\ outcome' = [op |-> "drop_call", ok |-> FALSE, own |-> TRUE]
    /\ UNCHANGED <<wbuf, pending, net, replies, mode, queries, copy_given, loaded, reads, tattered, conn_at>>

CopyUses ==
    \/ \E op \in {"select", "copy_in", "copy_out"} : StartQuery(op)
    \/ ReturnToPool \/ AcquireAgain \/ CopyReadFrom \/ NextRow
    \/ \E c \in Chunks : Send(c) \/ ReadFromData(c)
    \/ ReadFromEnd \/ DropReadFrom \/ DropCopyIn \/ DropCopyOut \/ DropCall
    \/ \E op \in {"finish", "abort"} : EndCopyIn(op)

CopySteps ==
    \/ ServeReady \/ ServeCopyIn \/ WaitUntilReady \/ SendQuery \/ PingDone
    \/ ReceiveSelect \/ ReceiveCopyIn \/ ReceiveSkip \/ ReceiveCopyOut \/ ReceiveFinish
    \/ ReceiveAbort \/ ReceiveExpected \/ ReceiveRow \/ ReceiveComplete

CopyNext == CopyUses \/ CopySteps

CopySpec == CopyInit /\ [][CopyNext]_copyVars

-----------------------------------------------------------------------------
(* Properties.                                                             *)

\* However a COPY ended, what is unread is counted in pending_ready_for_query_count, but for
\* one ReadyForQuery at most for each lapse: a stream or call dropped half-way, copy_out_raw()
\* refused, abort() of a COPY the server had already ended, begin() given a query with rows,
\* and a use of the connection after a PgCopyIn was dropped.
UnreadCounted ==
    /\ ccall = NoCall /\ holding = "none" /\ conn_at # "closed"
    /\ mode = "ready" /\ wbuf = <<>> /\ net = <<>>
    =>
        Len(SelectSeq(replies, LAMBDA m : m.k = "ReadyForQuery")) - pending \in 0..lapses

\* A call that returns Ok has read the answer to its own query and nothing else, whatever
\* went before it on the connection but a lapse.
ResultsOwn == lapses = 0 /\ outcome.ok => outcome.own

\* finish() returns Ok only if the server has loaded exactly the chunks that send() and
\* read_from() were given, in their order; unless one read_from() followed another directly.
CopyLoads == lapses = 0 /\ ~tattered /\ outcome.op = "finish" /\ outcome.ok => loaded = copy_given

\* The pool keeps a connection only if nothing of an earlier COPY is outstanding: a dropped
\* PgCopyIn makes the ping fail.  After a lapse it keeps it all the same.
PooledInSync ==
    conn_at = "idle" =>
        pending = 0 /\ (lapses = 0 => mode = "ready" /\ net = <<>> /\ replies = <<>>)
=============================================================================
