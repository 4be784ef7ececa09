----------------------------- MODULE PgListener -----------------------------
(***************************************************************************)
(* PgListener of sqlx-postgres/src/listener.rs: a connection that listens  *)
(* to channels, read by try_recv() and used for queries in between, that   *)
(* is replaced when it breaks.  A notification is its number in the order  *)
(* of sending.  While a query is answered, PgStream::recv() puts           *)
(* notifications into the buffer through the sender of the connection; a   *)
(* connection without a sender makes the query fail on them.               *)
(***************************************************************************)
EXTENDS Integers, Sequences, SequencesExt, FiniteSets

CONSTANTS
    Channels,      \* channel names
    MaxNotify,     \* bound: notifications sent
    MaxBreaks,     \* bound: connections that break
    MaxChannels,   \* bound: length of the channel list
    MaxCuts        \* bound: futures of the listener the application drops

VARIABLES
    \* PgListener
    channels,           \* channels, in the order of listen()
    connection,         \* connection, or NoConnection
    buffer_tx,          \* whether buffer_tx holds the sender
    buffer,             \* buffer_rx
    eager_reconnect,
    ignore_close_event,
    \* the pool and the call in progress
    idle_conns,             \* the idle connections of the pool
    closed,             \* whether Pool::close() was called
    lcall,              \* the call in progress: op, where it is, its channels, its close event
    candidate,          \* the connection that connect_if_needed() prepares
    \* history
    sent,               \* number of notifications sent
    owed,               \* those sent on a channel the application is listening to
    got,                \* notifications returned to the application
    missed,             \* notifications lost with a connection, or sent without one
    reported,           \* those missed before try_recv() last returned Ok(None) or an error
    cut,                \* a reconnect failed or was dropped
    unsure,             \* channels of calls that did not return Ok
    faults              \* breaks and dropped futures so far

code == <<channels, connection, buffer_tx, buffer, eager_reconnect, ignore_close_event>>
world == <<idle_conns, closed, lcall, candidate>>
history == <<sent, owed, got, missed, reported, cut, unsure, faults>>
listenerVars == <<code, world, history>>

\* reset: the next read fails, the ones after it find the end of the stream; regs: what the backend is listening for; wire: what it has sent and nobody
\* has read (0 is the rest of the answer to an abandoned query); open: it is in a
\* transaction, during which it sends no notification; queued: a ROLLBACK waits in the
\* write buffer of the client; pending: pending_ready_for_query_count.
Fresh == [up |-> TRUE, reset |-> FALSE, regs |-> {}, wire |-> <<>>, tx |-> FALSE,
          open |-> FALSE, queued |-> FALSE, pending |-> 0]
NoConnection == [Fresh EXCEPT !.up = FALSE, !.regs = {"none"}]

Idle == [op |-> "none", at |-> "none", chs |-> <<>>, ear |-> "none"]
Gone == [Idle EXCEPT !.op = "gone"]

Listening == Range(channels)

ListenerInit ==
    /\ channels = <<>> /\ connection = [Fresh EXCEPT !.tx = TRUE]
    /\ buffer_tx = FALSE /\ buffer = <<>>
    /\ eager_reconnect \in BOOLEAN /\ ignore_close_event \in BOOLEAN
    /\ idle_conns = {} /\ closed = FALSE /\ lcall = Idle /\ candidate = NoConnection
    /\ sent = 0 /\ owed = {} /\ got = <<>> /\ missed = {} /\ reported = {} /\ cut = FALSE
    /\ unsure = {} /\ faults = [breaks |-> 0, cuts |-> 0]

-----------------------------------------------------------------------------
(* Other sessions, the network and the pool.                               *)

Told(c, ch, n) == IF c.up /\ ch \in c.regs THEN [c EXCEPT !.wire = Append(@, n)] ELSE c

\* NOTIFY ch in another session.
Notify(ch) ==
    LET n == sent + 1
        wanted == ch \in Listening \ unsure
        lost == wanted /\ ~(connection.up /\ ch \in connection.regs)
    IN
    /\ sent < MaxNotify /\ lcall # Gone
    /\ sent' = n
    /\ connection' = Told(connection, ch, n)
    /\ candidate' = Told(candidate, ch, n)
    /\ idle_conns' = {Told(c, ch, n) : c \in idle_conns}
    /\ owed' = IF wanted THEN owed \cup {n} ELSE owed
    /\ missed' = IF lost THEN missed \cup {n} ELSE missed
    /\ UNCHANGED <<channels, buffer_tx, buffer, eager_reconnect, ignore_close_event,
                   closed, lcall, got, reported, cut, unsure, faults>>

\* The notifications among what is on a wire.
Real(s) ==
    LET sifted[k \in 0..Len(s)] ==
            IF k = 0 THEN <<>>
            ELSE IF s[k] = 0 THEN sifted[k - 1] ELSE Append(sifted[k - 1], s[k])
    IN  sifted[Len(s)]

\* The connection breaks; of what was on its way, a prefix still arrives.
Break ==
    /\ connection.up /\ faults.breaks < MaxBreaks /\ lcall # Gone
    /\ \E k \in 0..Len(connection.wire), reset \in BOOLEAN :
         LET tail == Real(SubSeq(connection.wire, k + 1, Len(connection.wire))) IN
         /\ connection' = [connection EXCEPT !.up = FALSE, !.reset = reset,
                                             !.wire = SubSeq(@, 1, k)]
         /\ missed' = missed \cup Range(tail)
    /\ faults' = [faults EXCEPT !.breaks = @ + 1]
    /\ UNCHANGED <<channels, buffer_tx, buffer, eager_reconnect, ignore_close_event,
                   world, sent, owed, got, reported, cut, unsure>>

\* mark_closed() sets the flag and notifies the listeners of on_closed that are registered;
\* one that registers between the two is as one that registered before.
ClosePool ==
    /\ ~closed
    /\ closed' = TRUE /\ idle_conns' = {}
    /\ UNCHANGED <<code, lcall, candidate, history>>

\* Somebody else uses an idle connection: what was sent to it goes to its sender.
UsePooled(c) ==
    /\ c.wire # <<>>
    /\ idle_conns' = (idle_conns \ {c}) \cup {[c EXCEPT !.wire = <<>>, !.pending = 0]}
    /\ buffer' = IF c.tx /\ lcall # Gone THEN buffer \o Real(c.wire) ELSE buffer
    /\ UNCHANGED <<channels, connection, buffer_tx, eager_reconnect, ignore_close_event,
                   closed, lcall, candidate, history>>

-----------------------------------------------------------------------------
(* Calls.  Every call but unlisten() first reconnects if it must.          *)

Entry == IF connection = NoConnection THEN "acquire" ELSE "run"

BeginCall(op, chs) ==
    /\ lcall = Idle
    /\ lcall' = [op |-> op, chs |-> chs, at |-> Entry, ear |-> "none"]

Listen(ch) ==
    /\ BeginCall("listen", <<ch>>) /\ Len(channels) < MaxChannels
    /\ unsure' = unsure \cup {ch}
    /\ UNCHANGED <<code, idle_conns, closed, candidate, sent, owed, got, missed, reported, cut, faults>>

\* The channels are recorded before the query runs.
ListenAll(chs) ==
    /\ BeginCall("listen_all", chs) /\ Len(channels) + Len(chs) <= MaxChannels
    /\ channels' = channels \o chs
    /\ unsure' = unsure \cup Range(chs)
    /\ UNCHANGED <<connection, buffer_tx, buffer, eager_reconnect, ignore_close_event,
                   idle_conns, closed, candidate, sent, owed, got, missed, reported, cut, faults>>

\* Only the first entry is removed, and a channel may be listed twice.
Without(ch) == RemoveFirst(channels, ch)

\* unlisten() does not reconnect.
Unlisten(ch) ==
    /\ lcall = Idle /\ ch \in Listening
    /\ unsure' = unsure \cup {ch}
    /\ IF connection = NoConnection
         THEN channels' = Without(ch) /\ UNCHANGED lcall
         ELSE lcall' = [op |-> "unlisten", at |-> "run", chs |-> <<ch>>, ear |-> "none"] /\ UNCHANGED channels
    /\ UNCHANGED <<connection, buffer_tx, buffer, eager_reconnect, ignore_close_event,
                   idle_conns, closed, candidate, sent, owed, got, missed, reported, cut, faults>>

UnlistenAll ==
    /\ lcall = Idle /\ channels # <<>>
    /\ unsure' = IF connection = NoConnection THEN {} ELSE Channels
    /\ IF connection = NoConnection
         THEN channels' = <<>> /\ UNCHANGED lcall
         ELSE lcall' = [op |-> "unlisten_all", at |-> "run", chs |-> <<>>, ear |-> "none"] /\ UNCHANGED channels
    /\ UNCHANGED <<connection, buffer_tx, buffer, eager_reconnect, ignore_close_event,
                   idle_conns, closed, candidate, sent, owed, got, missed, reported, cut, faults>>

\* A query, or begin(), through the listener.
Query(op) ==
    /\ op \in {"query", "begin"}
    /\ BeginCall(op, <<>>)
    /\ UNCHANGED <<code, idle_conns, closed, candidate, history>>

\* A Transaction begun through the listener is dropped: start_rollback() queues ROLLBACK.
DropTransaction ==
    /\ lcall = Idle /\ connection.open /\ ~connection.queued
    /\ connection' = [connection EXCEPT !.queued = TRUE]
    /\ UNCHANGED <<channels, buffer_tx, buffer, eager_reconnect, ignore_close_event, world, history>>

CallReturned == lcall' = Idle

\* try_recv() returns what is buffered before it looks at the connection.
TryRecvBuffered ==
    /\ lcall = Idle /\ buffer # <<>>
    /\ got' = Append(got, Head(buffer)) /\ buffer' = Tail(buffer)
    /\ UNCHANGED <<channels, connection, buffer_tx, eager_reconnect, ignore_close_event,
                   world, sent, owed, missed, reported, cut, unsure, faults>>

\* try_recv() asks for the close event, if it minds it.  If the pool is closed already, it
\* returns Err(PoolClosed) before it waits.
TryRecv ==
    /\ lcall = Idle /\ buffer = <<>>
    /\ ignore_close_event \/ ~closed
    /\ lcall' = [op |-> "try_recv", chs |-> <<>>, ear |-> "none",
                 at |-> IF ignore_close_event THEN Entry ELSE "event"]
    /\ UNCHANGED <<code, idle_conns, closed, candidate, history>>

\* close_event() found the pool open and now registers: too late, if the pool was closed in
\* between.
CloseEventListen ==
    /\ lcall.at = "event"
    /\ lcall' = [lcall EXCEPT !.at = Entry, !.ear = IF closed THEN "deaf" ELSE "listening"]
    /\ UNCHANGED <<code, idle_conns, closed, candidate, history>>

CloseEvent == closed /\ lcall.ear = "listening"

-----------------------------------------------------------------------------
(* connect_if_needed().                                                    *)

\* A call that reports a lost connection with Ok(None) or an error.
Report == reported' = missed

Acquire ==
    /\ lcall.at = "acquire"
    /\ IF closed
         THEN /\ CallReturned /\ Report
              /\ UNCHANGED <<code, idle_conns, candidate, cut>>
         ELSE /\ \E c \in idle_conns \cup {Fresh} :
                   /\ candidate' = [c EXCEPT !.tx = buffer_tx]
                   /\ idle_conns' = idle_conns \ {c}
              /\ buffer_tx' = FALSE
              /\ lcall' = [lcall EXCEPT !.at = "relisten"]
              /\ UNCHANGED <<channels, connection, buffer, eager_reconnect, ignore_close_event,
                             reported, cut>>
    /\ UNCHANGED <<closed, sent, owed, got, missed, unsure, faults>>

\* Mutant: the new connection is not told the channels.
RelistenNot ==
    /\ lcall.at = "relisten"
    /\ connection' = [candidate EXCEPT !.regs = @, !.wire = <<>>]
    /\ buffer' = IF candidate.tx THEN buffer \o Real(candidate.wire) ELSE buffer
    /\ candidate' = NoConnection
    /\ unsure' = unsure \cap (IF lcall.op = "listen" THEN Range(lcall.chs) ELSE {})
    /\ IF lcall.op = "try_recv" /\ lcall.chs = <<"lost">>
         THEN CallReturned /\ Report
         ELSE lcall' = [lcall EXCEPT !.at = "run"] /\ UNCHANGED reported
    /\ UNCHANGED <<channels, buffer_tx, eager_reconnect, ignore_close_event,
                   idle_conns, closed, sent, owed, got, missed, cut, faults>>

\* The answer to LISTEN for all the channels arrives.
Relisten ==
    /\ lcall.at = "relisten"
    /\ connection' = [candidate EXCEPT !.regs = @ \cup Listening, !.wire = <<>>]
    /\ buffer' = IF candidate.tx THEN buffer \o Real(candidate.wire) ELSE buffer
    /\ candidate' = NoConnection
    /\ unsure' = unsure \cap (IF lcall.op = "listen" THEN Range(lcall.chs) ELSE {})
    /\ IF lcall.op = "try_recv" /\ lcall.chs = <<"lost">>
         THEN CallReturned /\ Report
         ELSE lcall' = [lcall EXCEPT !.at = "run"] /\ UNCHANGED reported
    /\ UNCHANGED <<channels, buffer_tx, eager_reconnect, ignore_close_event,
                   idle_conns, closed, sent, owed, got, missed, cut, faults>>

\* The reconnect fails, or the call is dropped while it waits.  A candidate that is not
\* broken goes back to the pool, with the sender, and listening if the server got that far.
CutReconnect(failed, listened) ==
    /\ lcall.at \in {"acquire", "relisten"}
    /\ listened => lcall.at = "relisten"
    /\ IF failed THEN faults.breaks < MaxBreaks ELSE faults.cuts < MaxCuts
    /\ idle_conns' = IF failed \/ closed \/ lcall.at = "acquire" THEN idle_conns
                 ELSE idle_conns \cup {[candidate EXCEPT !.regs =
                                      IF listened THEN @ \cup Listening ELSE @]}
    /\ candidate' = NoConnection
    /\ cut' = TRUE
    /\ faults' = IF failed THEN [faults EXCEPT !.breaks = @ + 1]
                 ELSE [faults EXCEPT !.cuts = @ + 1]
    /\ CallReturned
    /\ UNCHANGED <<code, closed, sent, owed, got, missed, reported, unsure>>

-----------------------------------------------------------------------------
(* Running a query on the connection.                                      *)

Queries == {"listen", "listen_all", "unlisten", "unlisten_all", "query", "begin"}

Registered(c) ==
    CASE lcall.op \in {"listen", "listen_all"} -> c.regs \cup Range(lcall.chs)
      [] lcall.op = "unlisten"                 -> c.regs \ Range(lcall.chs)
      [] lcall.op = "unlisten_all"             -> {}
      [] OTHER                                 -> c.regs

\* The query runs and everything up to its ReadyForQuery is read: abandoned answers are
\* skipped, notifications go to the sender.  A queued ROLLBACK is sent before it.
AfterQuery(c) ==
    [c EXCEPT !.regs = Registered(c), !.wire = <<>>, !.pending = 0, !.queued = FALSE,
              !.open = (lcall.op = "begin") \/ (c.open /\ ~c.queued)]

RunQuery ==
    /\ lcall.at = "run" /\ lcall.op \in Queries /\ connection.up
    /\ connection.tx \/ Real(connection.wire) = <<>>
    /\ connection' = AfterQuery(connection)
    /\ buffer' = buffer \o Real(connection.wire)
    /\ channels' = CASE lcall.op = "listen"       -> channels \o lcall.chs
                     [] lcall.op = "unlisten"     -> Without(lcall.chs[1])
                     [] lcall.op = "unlisten_all" -> <<>>
                     [] OTHER                     -> channels
    /\ unsure' = CASE lcall.op = "unlisten_all" -> {}
                   [] lcall.op = "unlisten" /\ lcall.chs[1] \in Range(channels') -> unsure
                   [] OTHER -> unsure \ Range(lcall.chs)
    /\ CallReturned
    /\ UNCHANGED <<buffer_tx, eager_reconnect, ignore_close_event, idle_conns, closed,
                   candidate, sent, owed, got, missed, reported, cut, faults>>

\* A notification in the middle of an answer, and no sender: a protocol error.
RunUnexpected ==
    /\ lcall.at = "run" /\ lcall.op \in Queries /\ connection.up
    /\ ~connection.tx /\ Real(connection.wire) # <<>>
    /\ connection' = AfterQuery(connection)
    /\ CallReturned
    /\ UNCHANGED <<channels, buffer_tx, buffer, eager_reconnect, ignore_close_event, idle_conns,
                   closed, candidate, history>>

\* The connection is broken: the query fails and try_recv() will find out.
RunBroken ==
    /\ lcall.at = "run" /\ lcall.op \in Queries /\ ~connection.up
    /\ connection' = [connection EXCEPT !.wire = <<>>, !.reset = FALSE]
    /\ buffer' = IF connection.tx THEN buffer \o Real(connection.wire) ELSE buffer
    /\ CallReturned
    /\ UNCHANGED <<channels, buffer_tx, eager_reconnect, ignore_close_event, idle_conns, closed,
                   candidate, history>>

\* The future is dropped after the query was sent and before its answer is read.
CancelQuery ==
    /\ lcall.at = "run" /\ lcall.op \in Queries /\ connection.up /\ faults.cuts < MaxCuts
    /\ connection' = [AfterQuery(connection) EXCEPT !.wire = Append(connection.wire, 0),
                                                    !.pending = connection.pending + 1]
    /\ faults' = [faults EXCEPT !.cuts = @ + 1]
    /\ CallReturned
    /\ UNCHANGED <<channels, buffer_tx, buffer, eager_reconnect, ignore_close_event, idle_conns,
                   closed, candidate, sent, owed, got, missed, reported, cut, unsure>>

-----------------------------------------------------------------------------
(* try_recv() on the connection.                                           *)

Waiting == lcall.at = "run" /\ lcall.op = "try_recv"

\* The close event is polled after the connection, and before the first wait.
ReceiveMessage ==
    /\ Waiting /\ connection.wire # <<>> /\ (connection.open => connection.wire[1] = 0)
    /\ LET n == Head(connection.wire) IN
       IF n = 0
         THEN /\ connection' = [connection EXCEPT !.wire = Tail(@), !.pending = @ - 1]
              /\ lcall' = IF CloseEvent THEN Idle ELSE lcall
              /\ UNCHANGED got
         ELSE /\ connection' = [connection EXCEPT !.wire = Tail(@)]
              /\ got' = Append(got, n) /\ CallReturned
    /\ UNCHANGED <<channels, buffer_tx, buffer, eager_reconnect, ignore_close_event, idle_conns,
                   closed, candidate, sent, owed, missed, reported, cut, unsure, faults>>

\* Mutant: the reconnected listener goes on waiting.
LoseConnectionSilently ==
    /\ Waiting /\ connection.wire = <<>> /\ ~connection.up /\ ~connection.reset
    /\ buffer_tx' = connection.tx
    /\ connection' = NoConnection
    /\ IF eager_reconnect
         THEN lcall' = [lcall EXCEPT !.at = "acquire"] /\ UNCHANGED reported
         ELSE CallReturned /\ Report
    /\ UNCHANGED <<channels, buffer, eager_reconnect, ignore_close_event, idle_conns, closed,
                   candidate, sent, owed, got, missed, cut, unsure, faults>>

\* End of file: the sender is taken back and the connection is closed in the background.
LoseConnection ==
    /\ Waiting /\ connection.wire = <<>> /\ ~connection.up /\ ~connection.reset
    /\ buffer_tx' = connection.tx
    /\ connection' = NoConnection
    /\ IF eager_reconnect
         THEN lcall' = [lcall EXCEPT !.at = "acquire", !.chs = <<"lost">>] /\ UNCHANGED reported
         ELSE CallReturned /\ Report
    /\ UNCHANGED <<channels, buffer, eager_reconnect, ignore_close_event, idle_conns, closed,
                   candidate, sent, owed, got, missed, cut, unsure, faults>>

\* Any other error, such as a reset, is returned and the connection is kept.
ForwardError ==
    /\ Waiting /\ connection.wire = <<>> /\ connection.reset
    /\ connection' = [connection EXCEPT !.reset = FALSE]
    /\ CallReturned
    /\ UNCHANGED <<channels, buffer_tx, buffer, eager_reconnect, ignore_close_event, idle_conns,
                   closed, candidate, history>>

\* Mutant: the close event is looked at only once the connection has ended.
PoolClosedLate ==
    /\ Waiting /\ CloseEvent /\ ~connection.up
    /\ CallReturned
    /\ UNCHANGED <<code, idle_conns, closed, candidate, history>>

\* The close event ends the wait with Err(PoolClosed).
PoolClosed ==
    /\ Waiting /\ CloseEvent
    /\ CallReturned
    /\ UNCHANGED <<code, idle_conns, closed, candidate, history>>

\* The future of a waiting call is dropped: nothing was taken off the wire.
CancelWait ==
    /\ Waiting /\ faults.cuts < MaxCuts
    /\ faults' = [faults EXCEPT !.cuts = @ + 1]
    /\ CallReturned
    /\ UNCHANGED <<code, idle_conns, closed, candidate, sent, owed, got, missed, reported, cut, unsure>>

-----------------------------------------------------------------------------
\* Drop spawns a task that runs UNLISTEN * and returns the connection to the pool, which
\* closes it when the pool is closed or the connection is broken.
DropListener ==
    /\ lcall = Idle
    /\ lcall' = Gone
    /\ idle_conns' = IF connection.up /\ ~closed
                   THEN idle_conns \cup {[connection EXCEPT !.regs = {}, !.wire = <<>>, !.pending = 0,
                                                        !.open = FALSE, !.queued = FALSE]}
                   ELSE idle_conns
    /\ connection' = NoConnection
    /\ UNCHANGED <<channels, buffer_tx, buffer, eager_reconnect, ignore_close_event, closed,
                   candidate, history>>

Calls ==
    \/ \E ch \in Channels : Listen(ch) \/ Unlisten(ch)
    \/ \E chs \in {s \in SeqOf(Channels, 2) : s # <<>> /\ IsInjective(s)} : ListenAll(chs)
    \/ UnlistenAll \/ DropTransaction \/ DropListener
    \/ \E op \in {"query", "begin"} : Query(op)

Receives == TryRecvBuffered \/ TryRecv

Steps ==
    \/ CloseEventListen \/ Acquire \/ Relisten \/ RunQuery \/ RunUnexpected \/ RunBroken
    \/ ReceiveMessage \/ LoseConnection \/ ForwardError \/ PoolClosed

Faults ==
    \/ Break \/ ClosePool \/ CancelQuery \/ CancelWait
    \/ \E failed, listened \in BOOLEAN : CutReconnect(failed, listened)

ListenerNext ==
    \/ Calls \/ Receives \/ Steps \/ Faults
    \/ \E ch \in Channels : Notify(ch)
    \/ \E c \in idle_conns : UsePooled(c)

ListenerSpec == ListenerInit /\ [][ListenerNext]_listenerVars

-----------------------------------------------------------------------------
(* Properties.                                                             *)

Noticed == Range(got) \cup Range(buffer) \cup Range(Real(connection.wire))

\* Notifications are returned in the order they were sent and never twice, whether they
\* came through the buffer or from the connection, before or after a reconnect.
OnceInOrder == cut \/ \A i \in 1..Len(got) - 1 : got[i] < got[i + 1]

\* A notification that reached the connection stays on the wire or in the buffer until it
\* is returned; only what a broken connection took with it, or what was sent while none was
\* listening, is missed.
NothingDropped ==
    lcall = Gone \/ cut \/ owed \subseteq Noticed \cup missed

\* With eager_reconnect, try_recv() reports a lost connection, by Ok(None) or an error,
\* before it returns a notification that was sent after a missed one.
LossReported ==
    eager_reconnect /\ ~cut /\ got' # got
      => \A m \in missed \ reported : m > Last(got')

\* The channels the listener would listen to after a reconnect are those the backend is
\* listening for now, except the channels of calls that did not return Ok and of an
\* unlisten() of a channel listed twice.
RegistrationsAgree ==
    connection.up /\ ~cut
      => \A ch \in Channels \ unsure : ch \in connection.regs <=> ch \in Listening

\* pending_ready_for_query_count counts the answers left on the wire, although both
\* queries and try_recv() consume them.
PendingAnswers ==
    connection.up => connection.pending = Cardinality({i \in DOMAIN connection.wire : connection.wire[i] = 0})

\* No connection goes back to the pool listening, unless a reconnect was cut off.
PooledIsQuiet == cut \/ \A c \in idle_conns : c.regs = {}

\* No notification that reached the connection is lost, repeated or reordered,
\* through the buffer, failed calls and reconnects, and the connection's
\* channels are those the listener believes in.
NotificationsExact ==
    OnceInOrder /\ NothingDropped /\ RegistrationsAgree /\ PendingAnswers /\ PooledIsQuiet

\* A notification on the wire is returned or goes down with the connection if the
\* application keeps calling try_recv() and leaves no transaction open.
Arrives ==
    \A n \in 1..MaxNotify :
      n \in Range(connection.wire)
        ~> n \in Range(got) \cup missed \/ connection.open \/ cut \/ closed \/ lcall = Gone

\* Pool::close() ends a wait whose close_event() registered in time: one that found the pool
\* open and registered after it was closed is never woken, and waits for the connection alone.
CloseEndsWait == (Waiting /\ closed /\ ~ignore_close_event) ~> (~Waiting \/ lcall.ear = "deaf")
=============================================================================
