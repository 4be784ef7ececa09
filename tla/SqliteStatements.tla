-------------------------- MODULE SqliteStatements --------------------------
(***************************************************************************)
(* The execution of one SQL string on a SQLite connection, as the worker   *)
(* thread performs it: Statements (connection/mod.rs) finds or makes a     *)
(* VirtualStatement, ExecuteIter (connection/execute.rs) prepares, binds   *)
(* and steps the raw statements it is made of, one after the other, and    *)
(* StatementHandle::step() waits for an unlock notification when another   *)
(* connection of the shared cache holds a lock.                            *)
(*                                                                         *)
(* SQL strings are members of Strings; Pieces[q] are the raw statements    *)
(* that `q' consists of.  A piece says how many rows it returns, what its  *)
(* bind parameters are called (0: `?', n > 0: `?n' or `$n', -1: any other  *)
(* name) and its kind: "empty" is a comment, "late" compiles only once a   *)
(* table exists, "write" needs a lock that another connection may hold.    *)
(***************************************************************************)
EXTENDS Naturals, Integers, Sequences, FiniteSets, SequencesExt

CONSTANTS
    Strings,     \* SQL strings
    Pieces,      \* [Strings -> Seq of pieces]
    Given,       \* the argument lists a caller may pass
    Capacity,    \* statement_cache_capacity
    MaxCalls     \* bound: executions of a string

ASSUME StatementsAssumption ==
    /\ Pieces \in [Strings -> Seq([params : Seq(Int), rows : Nat,
                                   kind : {"plain", "empty", "late", "write"}])]
    /\ Capacity \in Nat /\ MaxCalls \in Nat

VARIABLES
    cached,     \* Statements::cached, least recently used first
    temp,       \* Statements::temp
    iter,       \* the ExecuteIter at work
    rows_got,        \* its items so far: <<piece, "row" or "done">> or an error
    bindings,   \* what each parameter of the pieces run so far was bound to
    late_table,     \* the table of the "late" pieces exists
    read_lock,       \* another connection holds the shared-cache lock
    waiter,     \* unlock_notify::wait(): "none", "registered" or "sleeping"
    fired,      \* Notify::mutex: the flag of the notification
    calls       \* number of executions

statement_vars == <<cached, temp, iter, rows_got, bindings, late_table, read_lock, waiter, fired, calls>>

NoIter == [sql |-> "", kept |-> FALSE, args |-> <<>>, used |-> 0, goto_next |-> TRUE, limit |-> 0]
Working == iter # NoIter

\* VirtualStatement::new(): nothing prepared, index None (-1).
NewVirtual(q) == [sql |-> q, index |-> -1, tail |-> Pieces[q], handles |-> <<>>]

\* A prepared StatementHandle: `at' rows were returned since its reset,
\* `busy' while sqlite3_step() has returned a row and it is not done.
NewHandle(p) == [piece |-> p, bound |-> <<>>, at |-> 0, busy |-> FALSE, failed |-> FALSE]

StatementsInit ==
    /\ cached = <<>> /\ temp = <<>> /\ iter = NoIter /\ rows_got = <<>> /\ bindings = <<>>
    /\ late_table = FALSE /\ read_lock = FALSE /\ waiter = "none" /\ fired = FALSE /\ calls = 0

-----------------------------------------------------------------------------
(* VirtualStatement                                                        *)

\* Mutant: only the cursor is put back, the raw statements keep running.
ResetVirtualIndex(vs) == [vs EXCEPT !.index = -1]

\* VirtualStatement::reset(): sqlite3_reset() reports the error of the step
\* before it, and the first error ends the loop: that handle keeps its
\* bindings and the handles after it are not touched.
ResetVirtual(vs) ==
    LET bad == SelectInSeq(vs.handles, LAMBDA h : h.failed)
        Clean(k) == IF bad = 0 \/ k < bad
                    THEN [vs.handles[k] EXCEPT !.bound = <<>>, !.at = 0, !.busy = FALSE]
                    ELSE IF k = bad
                    THEN [vs.handles[k] EXCEPT !.at = 0, !.busy = FALSE, !.failed = FALSE]
                    ELSE vs.handles[k]
    IN  [vs EXCEPT !.index = -1, !.handles = [k \in DOMAIN vs.handles |-> Clean(k)]]

Compiles(p) == p.kind # "late" \/ late_table

\* VirtualStatement::prepare_next() and prepare(): advance to the next raw
\* statement, compiling it from the tail when it is not prepared yet.
PrepareNext(vs) ==
    LET at   == IF vs.index = -1 THEN 0
                ELSE IF vs.index + 1 < Len(vs.handles) THEN vs.index + 1 ELSE Len(vs.handles)
        k    == SelectInSeq(vs.tail, LAMBDA p : p.kind # "empty")
        Rest(n) == SubSeq(vs.tail, n, Len(vs.tail))
    IN  CASE at < Len(vs.handles)  -> [vs |-> [vs EXCEPT !.index = at], res |-> "some"]
          [] at = Len(vs.handles) /\ k = 0 ->
               [vs |-> [vs EXCEPT !.index = at, !.tail = <<>>], res |-> "none"]
          [] at = Len(vs.handles) /\ k # 0 /\ ~Compiles(vs.tail[k]) ->
               [vs |-> [vs EXCEPT !.index = at, !.tail = Rest(k)], res |-> "error"]
          [] OTHER ->
               [vs |-> [vs EXCEPT !.index = at, !.tail = Rest(k + 1),
                                  !.handles = Append(vs.handles, NewHandle(vs.tail[k]))],
                res |-> "some"]

-----------------------------------------------------------------------------
(* Statements::get(), and where the VirtualStatement of the iterator is    *)

IsCached(q) == \E k \in DOMAIN cached : cached[k].sql = q
Others(q) == SelectSeq(cached, LAMBDA vs : vs.sql # q)
CachedFor(q) == SelectSeq(cached, LAMBDA vs : vs.sql = q)[1]

\* StatementCache::insert(): the least recently used makes room.
Evicted == IF Len(cached) = Capacity THEN Tail(cached) ELSE cached

Get(q, persistent) ==
    IF ~persistent \/ Capacity = 0
    THEN temp' = <<NewVirtual(q)>> /\ UNCHANGED cached
    ELSE /\ cached' = IF IsCached(q) THEN Append(Others(q), ResetVirtual(CachedFor(q)))
                      ELSE Append(Evicted, NewVirtual(q))
         /\ UNCHANGED temp

Virtual == IF iter.kept THEN Last(cached) ELSE temp[1]
Store(vs) == IF iter.kept THEN cached' = [cached EXCEPT ![Len(cached)] = vs] /\ UNCHANGED temp
             ELSE temp' = <<vs>> /\ UNCHANGED cached

-----------------------------------------------------------------------------
(* SqliteArguments::bind()                                                 *)

Anonymous(params, i) == Cardinality({j \in 1..i : params[j] = 0})

\* Parameter i takes argument Number(i); the first parameter without an
\* argument ends the loop and leaves it and the ones after it NULL, and the
\* first one with an unsupported name is an error.
Bind(params, args, offset) ==
    LET Number(i) == IF params[i] = 0 THEN offset + Anonymous(params, i) ELSE params[i]
        Stops(i)  == params[i] = -1 \/ Number(i) > Len(args)
        stop == IF \E i \in DOMAIN params : Stops(i)
                THEN CHOOSE i \in DOMAIN params : Stops(i) /\ \A j \in 1..(i - 1) : ~Stops(j)
                ELSE 0
    IN  [bound |-> [i \in DOMAIN params |-> IF stop = 0 \/ i < stop THEN args[Number(i)] ELSE "null"],
         used  |-> Anonymous(params, IF stop = 0 THEN Len(params) ELSE stop),
         error |-> stop # 0 /\ params[stop] = -1]

-----------------------------------------------------------------------------
(* Command::Execute and ExecuteIter::next()                                *)

\* The worker takes the command up; limit 1 is fetch_optional(), 0 no limit.
Execute(q, persistent, args, limit) ==
    /\ ~Working /\ calls < MaxCalls
    /\ Get(q, persistent)
    /\ iter' = [sql |-> q, kept |-> persistent /\ Capacity > 0, args |-> args, used |-> 0,
                goto_next |-> TRUE, limit |-> limit]
    /\ rows_got' = <<>> /\ bindings' = <<>> /\ calls' = calls + 1
    /\ UNCHANGED <<late_table, read_lock, waiter, fired>>

\* ExecuteIter::drop(), after an error, when the receiver is gone, when the
\* limit is reached or at the end.
DropIter(vs, items) ==
    /\ Store(ResetVirtual(vs)) /\ iter' = NoIter /\ rows_got' = items
    /\ UNCHANGED <<late_table, read_lock, waiter, fired, calls>>

\* next() prepares the next raw statement, resets it, clears its bindings
\* and binds the arguments; when there is none the iteration ends.
IterPrepare ==
    /\ Working /\ iter.goto_next
    /\ LET p == PrepareNext(Virtual)
           h == p.vs.handles[p.vs.index + 1]
           b == Bind(h.piece.params, iter.args, iter.used)
       IN  \/ /\ p.res = "none" /\ DropIter(p.vs, Append(rows_got, <<"end">>)) /\ UNCHANGED bindings
           \/ /\ p.res = "error" /\ DropIter(p.vs, Append(rows_got, <<"error">>)) /\ UNCHANGED bindings
           \/ /\ p.res = "some" /\ b.error
              /\ DropIter(p.vs, Append(rows_got, <<"error">>)) /\ UNCHANGED bindings
           \/ /\ p.res = "some" /\ ~b.error
              /\ Store([p.vs EXCEPT !.handles[p.vs.index + 1] =
                           [NewHandle(h.piece) EXCEPT !.bound = b.bound]])
              /\ iter' = [iter EXCEPT !.goto_next = FALSE, !.used = @ + b.used]
              /\ bindings' = Append(bindings, b.bound)
              /\ UNCHANGED <<rows_got, late_table, read_lock, waiter, fired, calls>>

Handle == Virtual.handles[Virtual.index + 1]
With(h) == [Virtual EXCEPT !.handles[Virtual.index + 1] = h]
CanStep == Working /\ ~iter.goto_next /\ waiter = "none"
Blocked == Handle.piece.kind = "write" /\ read_lock /\ Handle.at = 0 /\ ~Handle.busy

\* sqlite3_step() returns SQLITE_ROW.  The limit ends the iteration before
\* the row is sent.
StepRow ==
    /\ CanStep /\ ~Blocked /\ Handle.at < Handle.piece.rows
    /\ LET vs == With([Handle EXCEPT !.at = @ + 1, !.busy = TRUE])
           items == Append(rows_got, <<Virtual.index + 1, "row">>)
       IN  \/ /\ iter.limit = 0 /\ Store(vs) /\ rows_got' = items
              /\ UNCHANGED <<iter, late_table, read_lock, waiter, fired, calls>>
           \/ /\ iter.limit > 0 /\ DropIter(vs, items)
    /\ UNCHANGED bindings

\* SQLITE_DONE: the result of this raw statement, and on to the next.
StepDone ==
    /\ CanStep /\ ~Blocked /\ Handle.at = Handle.piece.rows
    /\ Store(With([Handle EXCEPT !.busy = FALSE]))
    /\ iter' = [iter EXCEPT !.goto_next = TRUE]
    /\ rows_got' = Append(rows_got, <<Virtual.index + 1, "done">>)
    /\ UNCHANGED <<bindings, late_table, read_lock, waiter, fired, calls>>

\* Any other code; sqlite3_step() leaves the statement halted.
StepError ==
    /\ CanStep /\ ~Blocked
    /\ DropIter(With([Handle EXCEPT !.busy = FALSE, !.failed = TRUE]), Append(rows_got, <<"error">>))
    /\ UNCHANGED bindings

\* The client drops the stream: the next send fails and the loop ends.
ReceiverGone ==
    /\ CanStep /\ DropIter(Virtual, Append(rows_got, <<"dropped">>)) /\ UNCHANGED bindings

-----------------------------------------------------------------------------
(* unlock_notify                                                           *)

\* SQLITE_LOCKED_SHAREDCACHE: the worker registers a Notify of its own.
StepLocked ==
    /\ CanStep /\ Blocked
    /\ waiter' = "registered" /\ fired' = FALSE
    /\ UNCHANGED <<cached, temp, iter, rows_got, bindings, late_table, read_lock, calls>>

\* sqlite3_unlock_notify() refuses when waiting would be a deadlock.
StepDeadlock ==
    /\ CanStep /\ Blocked
    /\ DropIter(With([Handle EXCEPT !.failed = TRUE]), Append(rows_got, <<"error">>))
    /\ UNCHANGED bindings

\* Notify::wait(): the flag is tested with the mutex locked, and Condvar
\* releases the mutex and sleeps in one step.
WaitNotify ==
    /\ waiter = "registered"
    /\ waiter' = IF fired THEN "none" ELSE "sleeping"
    /\ UNCHANGED <<cached, temp, iter, rows_got, bindings, late_table, read_lock, fired, calls>>

\* The other connection ends its transaction: SQLite calls unlock_notify_cb
\* for the registered waiter, and fire() sets the flag and wakes it.
EndTransaction ==
    /\ read_lock /\ read_lock' = FALSE
    /\ fired' = (fired \/ waiter # "none")
    /\ waiter' = IF waiter = "sleeping" THEN "none" ELSE waiter
    /\ UNCHANGED <<cached, temp, iter, rows_got, bindings, late_table, calls>>

LockShared ==
    /\ ~read_lock /\ waiter = "none" /\ read_lock' = TRUE
    /\ UNCHANGED <<cached, temp, iter, rows_got, bindings, late_table, waiter, fired, calls>>

\* Another connection creates the table of the "late" pieces.
CreateTable ==
    /\ ~late_table /\ late_table' = TRUE
    /\ UNCHANGED <<cached, temp, iter, rows_got, bindings, read_lock, waiter, fired, calls>>

\* prepare() of worker.rs: every raw statement of the string is prepared
\* and stays prepared in the cache; the cursor ends past the last one.
WorkerPrepare(q) ==
    /\ ~Working /\ calls < MaxCalls /\ Capacity > 0
    /\ LET vs   == IF IsCached(q) THEN ResetVirtual(CachedFor(q)) ELSE NewVirtual(q)
           todo == SelectSeq(vs.tail, LAMBDA p : p.kind # "empty")
           bad  == SelectInSeq(todo, LAMBDA p : ~Compiles(p))
           new  == IF bad = 0 THEN todo ELSE SubSeq(todo, 1, bad - 1)
           done == [vs EXCEPT !.index = Len(vs.handles) + Len(new),
                              !.tail = IF bad = 0 THEN <<>> ELSE SubSeq(todo, bad, Len(todo)),
                              !.handles = @ \o [k \in DOMAIN new |-> NewHandle(new[k])]]
       IN  cached' = Append(IF IsCached(q) THEN Others(q) ELSE Evicted, done)
    /\ calls' = calls + 1
    /\ UNCHANGED <<temp, iter, rows_got, bindings, late_table, read_lock, waiter, fired>>

ClearCache ==
    /\ ~Working /\ (cached # <<>> \/ temp # <<>>)
    /\ cached' = <<>> /\ temp' = <<>>
    /\ UNCHANGED <<iter, rows_got, bindings, late_table, read_lock, waiter, fired, calls>>

StatementsNext ==
    \/ \E q \in Strings, p \in BOOLEAN, a \in Given, l \in {0, 1} : Execute(q, p, a, l)
    \/ IterPrepare \/ StepRow \/ StepDone \/ StepError \/ ReceiverGone
    \/ StepLocked \/ StepDeadlock \/ WaitNotify \/ EndTransaction \/ LockShared
    \/ CreateTable \/ ClearCache
    \/ \E q \in Strings : WorkerPrepare(q)

StatementsSpec == StatementsInit /\ [][StatementsNext]_statement_vars

-----------------------------------------------------------------------------
(* Properties                                                              *)

\* What an undisturbed execution of q yields: each raw statement once, in
\* the order of the text, its rows and then its result.
RealPieces(q) == SelectSeq(Pieces[q], LAMBDA p : p.kind # "empty")
Expected(q) ==
    FlattenSeq([k \in DOMAIN RealPieces(q) |->
        [r \in 1..RealPieces(q)[k].rows |-> <<k, "row">>] \o <<<<k, "done">>>>])

\* Every raw statement of the string runs once, in order, and from its first
\* row, whether it was prepared just now, taken from the cache, left half
\* way by an earlier execution or left unprepared by an earlier error.
EachOnceInOrder ==
    Working => /\ IsPrefix(rows_got, Expected(iter.sql))
               /\ iter.goto_next => Len(rows_got) = Len(Expected(iter.sql))
                      \/ Expected(iter.sql)[Len(rows_got) + 1][1] = Len(bindings) + 1

\* The iteration ends without an error only when everything has run.
EndsComplete ==
    rows_got' # rows_got /\ rows_got' # <<>> /\ Last(rows_got') = <<"end">>
      => rows_got = Expected(iter.sql)

\* A parameter is bound to the argument its position in the whole string, or
\* its number, says; it is NULL only if it or one before it in the same raw
\* statement has no argument.  Nothing bound by an earlier execution is left.
BoundToOwn ==
    Working => \A k \in DOMAIN bindings :
        LET ps == RealPieces(iter.sql)
            before == FlattenSeq([j \in 1..(k - 1) |-> ps[j].params])
            Own(i) == IF ps[k].params[i] # 0 THEN ps[k].params[i]
                      ELSE Anonymous(before \o ps[k].params, Len(before) + i)
        IN  \A i \in DOMAIN bindings[k] :
                \/ Own(i) > 0 /\ Own(i) <= Len(iter.args) /\ bindings[k][i] = iter.args[Own(i)]
                \/ bindings[k][i] = "null" /\ \E j \in 1..i : Own(j) > Len(iter.args)

\* Between two executions no raw statement is left half way: it would keep
\* a read transaction, and its locks, open.
NoneLeftRunning ==
    ~Working => \A k \in DOMAIN (cached \o temp) :
        \A h \in DOMAIN (cached \o temp)[k].handles : ~(cached \o temp)[k].handles[h].busy

\* No wakeup is lost: the worker sleeps only while the lock is held.
SleepsWhileHeld == waiter = "sleeping" => read_lock
=============================================================================
