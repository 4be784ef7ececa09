------------------------------ MODULE Migrator ------------------------------
(***************************************************************************)
(* Migrators of several processes on one database: Migrator::run_direct()  *)
(* and undo() (sqlx-core/src/migrate/migrator.rs), the drivers' lock(),    *)
(* apply() and revert() (migrate.rs of each driver), and the commands      *)
(* `sqlx migrate run` and `revert` (sqlx-cli/src/migrate.rs), which repeat *)
(* the two loops without the lock.                                         *)
(*                                                                         *)
(* A script has two statements; schema[v] counts the statements of v that  *)
(* are in force, up ones added and down ones taken away.  rows is the      *)
(* table _sqlx_migrations.                                                 *)
(***************************************************************************)
EXTENDS Integers, FiniteSets, Sequences

CONSTANTS
    Procs,         \* processes, each with a connection
    N,             \* versions are 1..N
    Sources,       \* migration directories: functions from versions to checksums, 0 for no file
    Databases,     \* the kinds of database to look at
    NoTx,          \* versions whose script starts with "-- no-transaction"
    Ddl,           \* versions whose script is DDL, which MySQL commits implicitly
    Targets,       \* target versions given to a command, -1 for none
    IgnoreMissing, \* processes whose migrator has ignore_missing
    Retry,         \* whether a failed migrator is run again on its pooled connection
    MaxOps,        \* bound: operations started
    MaxCrashes     \* bound: processes that die

Versions == 1..N

ASSUME MigratorAssumption ==
    /\ IsFiniteSet(Procs) /\ N \in Nat
    /\ Sources \subseteq [Versions -> Nat]
    /\ Databases \subseteq {"postgres", "mysql", "sqlite"}
    /\ NoTx \subseteq Versions /\ Ddl \subseteq Versions
    /\ Targets \subseteq -1..N /\ IgnoreMissing \subseteq Procs
    /\ Retry \in BOOLEAN /\ MaxOps \in Nat /\ MaxCrashes \in Nat

VARIABLES
    db,        \* the kind of database
    source,    \* the directory of each process
    \* the database
    locks,     \* how often each session holds the migration lock
    rows,      \* version |-> state and checksum
    schema,    \* version |-> statements in force
    pend,      \* what each session's open transaction has changed
    \* the processes
    pc,        \* where a process is
    op,        \* the operation it performs and its target version
    cur,       \* the version it is at
    applied,   \* the result of list_applied_migrations()
    ops,       \* operations started
    crashes,   \* processes that have died
    overlap,   \* a command without the lock has run beside another migrator
    again,     \* failed attempts on the session of each process
    torn       \* versions whose script ended between its statements and its row

data == <<locks, rows, schema, pend>>
proc == <<pc, op, cur, applied>>
fixed == <<db, source>>
vars == <<fixed, data, proc, ops, crashes, overlap, again, torn>>

NoRow == [st |-> "none", sum |-> 0]
NoRows == [v \in Versions |-> NoRow]
Row(st, sum) == [st |-> st, sum |-> sum]

\* tx: a transaction is open; at: the version whose row it changed, 0 for
\* none, and row the new row; done: script statements executed in it.
NoPend == [tx |-> FALSE, at |-> 0, row |-> NoRow, done |-> 0]

NoTarget == -1
NoOp == [kind |-> "none", target |-> NoTarget]
Kinds == {"run", "undo", "cli run", "cli revert"}
Up(p) == op[p].kind \in {"run", "cli run"}
Locking(p) == op[p].kind \in {"run", "undo"}

Init ==
    /\ db \in Databases
    /\ source \in [Procs -> Sources]
    /\ locks = [p \in Procs |-> 0]
    /\ rows = NoRows
    /\ schema = [v \in Versions |-> 0]
    /\ pend = [p \in Procs |-> NoPend]
    /\ pc = [p \in Procs |-> "idle"]
    /\ op = [p \in Procs |-> NoOp]
    /\ cur = [p \in Procs |-> 0]
    /\ applied = [p \in Procs |-> NoRows]
    /\ ops = 0
    /\ crashes = 0 /\ overlap = FALSE /\ torn = {}
    /\ again = [p \in Procs |-> 0]

-----------------------------------------------------------------------------
(* Helpers.                                                                *)

Go(p, l) == pc' = [pc EXCEPT ![p] = l]

Active(p) == pc[p] \notin {"idle", "done", "failed"}

\* SQLite's lock() does nothing.
LockHeldByOther(p) == db # "sqlite" /\ \E q \in Procs \ {p} : locks[q] > 0

\* A statement that writes: SQLite has one writer, the others one per row.
WriteBlocked(p, v) ==
    \E q \in Procs \ {p} :
        pend[q] # NoPend /\ IF db = "sqlite" THEN pend[q].done # 0 \/ pend[q].at # 0
                            ELSE pend[q].at = v

\* The row of v as session p sees it.
Seen(p, v) == IF pend[p].at = v THEN pend[p].row ELSE rows[v]

Sign(p) == IF Up(p) THEN 1 ELSE -1

\* Only the PostgreSQL driver looks at no_tx.
OutsideTx(p) == db = "postgres" /\ cur[p] \in NoTx

Tear(p) == torn' = IF pc[p] = "record" /\ OutsideTx(p) THEN torn \cup {cur[p]} ELSE torn

\* The call returns an error, or its future is dropped: an open transaction is
\* rolled back, and the connection goes back to the pool with its lock.
Fail(p) ==
    /\ pend' = [pend EXCEPT ![p] = NoPend]
    /\ Go(p, "failed")
    /\ Tear(p)
    /\ UNCHANGED <<fixed, locks, rows, schema, op, cur, applied, ops, crashes, overlap, again>>

-----------------------------------------------------------------------------
(* The start and the end of an operation.                                  *)

Start(p, k, t) ==
    /\ pc[p] = "idle" /\ ops < MaxOps
    /\ k = "run" => t = NoTarget
    /\ k = "undo" => t # NoTarget
    /\ k = "cli run" /\ t # NoTarget => t # 0 /\ source[p][t] # 0
    /\ k = "cli revert" /\ t > 0 => source[p][t] # 0
    /\ k \notin {"run", "undo"} => again[p] = 0
    /\ op' = [op EXCEPT ![p] = [kind |-> k, target |-> t]]
    /\ ops' = ops + 1
    /\ Go(p, IF k \in {"run", "undo"} THEN "lock" ELSE "check")
    /\ overlap' = (overlap \/ \E q \in Procs \ {p} :
                                Active(q) /\ ~(db # "sqlite" /\ k \in {"run", "undo"} /\ Locking(q)))
    /\ UNCHANGED <<fixed, data, cur, applied, crashes, again, torn>>

\* lock(): pg_advisory_lock() and GET_LOCK() wait, and nest within a session.
Lock(p) ==
    /\ pc[p] = "lock" /\ ~LockHeldByOther(p)
    /\ locks' = [locks EXCEPT ![p] = IF db = "sqlite" THEN @ ELSE @ + 1]
    /\ Go(p, "check")
    /\ UNCHANGED <<fixed, rows, schema, pend, op, cur, applied, ops, crashes, overlap, again, torn>>

\* unlock()
Unlock(p) ==
    /\ pc[p] = "unlock"
    /\ locks' = [locks EXCEPT ![p] = IF Locking(p) /\ @ > 0 THEN @ - 1 ELSE @]
    /\ Go(p, "done")
    /\ UNCHANGED <<fixed, rows, schema, pend, op, cur, applied, ops, crashes, overlap, again, torn>>

\* The operation is over.
Reset(p) ==
    /\ Go(p, "idle")
    /\ op' = [op EXCEPT ![p] = NoOp]
    /\ cur' = [cur EXCEPT ![p] = 0]
    /\ applied' = [applied EXCEPT ![p] = NoRows]

\* Afterwards the process drops its pool: the session ends and with it its locks.
Disconnect(p) ==
    /\ pc[p] \in {"done", "failed"}
    /\ locks' = [locks EXCEPT ![p] = 0]
    /\ again' = [again EXCEPT ![p] = 0]
    /\ Reset(p)
    /\ UNCHANGED <<fixed, rows, schema, pend, ops, crashes, overlap, torn>>

\* Or it tries again on the pooled connection.
TryAgain(p) ==
    /\ Retry /\ pc[p] = "failed" /\ Locking(p)
    /\ again' = [again EXCEPT ![p] = @ + 1]
    /\ Reset(p)
    /\ UNCHANGED <<fixed, data, ops, crashes, overlap, torn>>

\* The process dies.
Crash(p) ==
    /\ Active(p) /\ crashes < MaxCrashes
    /\ locks' = [locks EXCEPT ![p] = 0]
    /\ pend' = [pend EXCEPT ![p] = NoPend]
    /\ crashes' = crashes + 1
    /\ again' = [again EXCEPT ![p] = 0]
    /\ Reset(p)
    /\ Tear(p)
    /\ UNCHANGED <<fixed, rows, schema, ops, overlap>>

-----------------------------------------------------------------------------
(* The checks before the loop, and the loop.                               *)

\* dirty_version()
Dirty == \E v \in Versions : rows[v].st = "dirty"

CheckDirty(p) ==
    /\ pc[p] = "check"
    /\ \/ Dirty /\ Fail(p)
       \/ /\ ~Dirty
          /\ Go(p, "list")
          /\ UNCHANGED <<fixed, data, op, cur, applied, ops, crashes, overlap, again, torn>>

Present(r) == {v \in Versions : r[v].st # "none"}
Latest(r) == IF Present(r) = {} THEN 0 ELSE CHOOSE v \in Present(r) : \A w \in Present(r) : w <= v

\* validate_applied_migrations(), and the CLI's checks of its target version.
Valid(p) ==
    /\ p \in IgnoreMissing \/ \A v \in Present(rows) : source[p][v] # 0
    /\ op[p].kind = "cli run" /\ op[p].target # NoTarget => op[p].target >= Latest(rows)
    /\ op[p].kind = "cli revert" => op[p].target <= Latest(rows)

\* list_applied_migrations(); the loop goes up, or down from the last version.
List(p) ==
    /\ pc[p] = "list"
    /\ \/ ~Valid(p) /\ Fail(p)
       \/ /\ Valid(p)
          /\ applied' = [applied EXCEPT ![p] = rows]
          /\ cur' = [cur EXCEPT ![p] = IF Up(p) THEN 1 ELSE N]
          /\ Go(p, "loop")
          /\ UNCHANGED <<fixed, data, op, ops, crashes, overlap, again, torn>>

InRange(p) == cur[p] \in Versions
Skipped(p) == source[p][cur[p]] = 0

Mismatch(p) == Up(p) /\ applied[p][cur[p]].st # "none" /\ applied[p][cur[p]].sum # source[p][cur[p]]

\* What the loop does with the version: apply it, revert it, or pass over it.
\* Every version has an up and a down script.
Wanted(p) ==
    LET t == op[p].target IN
    CASE op[p].kind = "run"        -> applied[p][cur[p]].st = "none"
      [] op[p].kind = "cli run"    -> applied[p][cur[p]].st = "none" /\ (t = NoTarget \/ cur[p] <= t)
      [] op[p].kind = "undo"       -> applied[p][cur[p]].st # "none" /\ cur[p] > t
      [] op[p].kind = "cli revert" -> applied[p][cur[p]].st # "none" /\ (t = NoTarget \/ cur[p] > t)

\* The CLI reverts a single migration unless it is given a target.
Single(p) == op[p].kind = "cli revert" /\ op[p].target = NoTarget

NextVersion(p) == cur[p] + Sign(p)

Loop(p) ==
    /\ pc[p] = "loop"
    /\ \/ /\ InRange(p) /\ ~Skipped(p) /\ Mismatch(p)
          /\ Fail(p)
       \/ /\ InRange(p) /\ ~Skipped(p) /\ ~Mismatch(p) /\ Wanted(p)
          /\ Go(p, "begin")
          /\ UNCHANGED <<fixed, data, op, cur, applied, ops, crashes, overlap, again, torn>>
       \/ /\ InRange(p) /\ (Skipped(p) \/ (~Mismatch(p) /\ ~Wanted(p)))
          /\ cur' = [cur EXCEPT ![p] = NextVersion(p)]
          /\ UNCHANGED <<fixed, data, pc, op, applied, ops, crashes, overlap, again, torn>>
       \/ /\ ~InRange(p)
          /\ Go(p, "unlock")
          /\ UNCHANGED <<fixed, data, op, cur, applied, ops, crashes, overlap, again, torn>>
-----------------------------------------------------------------------------
(* apply() and revert() of the drivers.                                    *)

\* A DDL statement of MySQL commits what came before it, and itself.
ImplicitCommit(p) == db = "mysql" /\ cur[p] \in Ddl

Begin(p) ==
    /\ pc[p] = "begin"
    /\ pend' = [pend EXCEPT ![p].tx = ~OutsideTx(p)]
    /\ Go(p, IF db = "mysql" THEN "mark" ELSE "script1")
    /\ UNCHANGED <<fixed, locks, rows, schema, op, cur, applied, ops, crashes, overlap, again, torn>>

\* A statement on the row of the version, inside the transaction or not.
SetRow(p, r, next) ==
    /\ ~WriteBlocked(p, cur[p])
    /\ IF pend[p].tx
         THEN /\ pend' = [pend EXCEPT ![p].at = cur[p], ![p].row = r]
              /\ UNCHANGED rows
         ELSE /\ rows' = [rows EXCEPT ![cur[p]] = r]
              /\ UNCHANGED pend
    /\ Go(p, next)
    /\ UNCHANGED <<fixed, locks, schema, op, cur, applied, ops, crashes, overlap, again, torn>>

RowExists(p) == Seen(p, cur[p]).st # "none"
NewRow(p, st) == Row(st, source[p][cur[p]])
SameRow(p, st) == IF RowExists(p) THEN Row(st, Seen(p, cur[p]).sum) ELSE NoRow

\* MySQL: INSERT ... success = FALSE, or UPDATE ... SET success = FALSE.
Mark(p) ==
    /\ pc[p] = "mark" /\ (Up(p) => ~RowExists(p))
    /\ SetRow(p, IF Up(p) THEN NewRow(p, "dirty") ELSE SameRow(p, "dirty"), "script1")

\* What the session's transaction holds becomes durable, with n more statements.
Flush(p, n) ==
    /\ rows' = IF pend[p].at = 0 THEN rows ELSE [rows EXCEPT ![pend[p].at] = pend[p].row]
    /\ schema' = [schema EXCEPT ![cur[p]] = @ + Sign(p) * (pend[p].done + n)]
    /\ pend' = [pend EXCEPT ![p] = NoPend]

\* The script: two statements, or one implicit transaction of the two where
\* the simple query protocol runs outside a transaction.
Script(p) ==
    /\ pc[p] \in {"script1", "script2"}
    /\ db = "sqlite" => ~WriteBlocked(p, cur[p])
    /\ \/ /\ OutsideTx(p)
          /\ Flush(p, 2)
       \/ /\ ~OutsideTx(p) /\ ImplicitCommit(p)
          /\ Flush(p, 1)
       \/ /\ ~OutsideTx(p) /\ ~ImplicitCommit(p)
          /\ pend' = [pend EXCEPT ![p].done = @ + 1]
          /\ UNCHANGED <<rows, schema>>
    /\ Go(p, IF pc[p] = "script1" /\ ~OutsideTx(p) THEN "script2" ELSE "record")
    /\ UNCHANGED <<fixed, locks, op, cur, applied, ops, crashes, overlap, again, torn>>

\* Mutant: the script is committed before its bookkeeping.
RecordLate(p) ==
    /\ pc[p] = "record"
    /\ \/ /\ pend[p].tx
          /\ Flush(p, 0)
          /\ UNCHANGED <<fixed, locks, pc, op, cur, applied, ops, crashes, overlap, again, torn>>
       \/ /\ ~pend[p].tx /\ (Up(p) => ~RowExists(p))
          /\ SetRow(p, IF Up(p) THEN NewRow(p, "ok") ELSE NoRow, "commit")

\* The bookkeeping after the script.
Record(p) ==
    /\ pc[p] = "record"
    /\ \/ /\ ~Up(p)
          /\ SetRow(p, NoRow, "commit")
       \/ /\ Up(p) /\ db = "mysql"
          /\ SetRow(p, SameRow(p, "ok"), "commit")
       \/ /\ Up(p) /\ db # "mysql" /\ ~RowExists(p)
          /\ SetRow(p, NewRow(p, "ok"), "commit")

\* The next version of the loop, or the end of it.
Advance(p) ==
    IF Single(p) THEN Go(p, "unlock") /\ UNCHANGED cur
    ELSE Go(p, "loop") /\ cur' = [cur EXCEPT ![p] = NextVersion(p)]

Commit(p) ==
    /\ pc[p] = "commit"
    /\ Flush(p, 0)
    /\ IF Up(p) THEN Go(p, "elapsed") /\ UNCHANGED cur ELSE Advance(p)
    /\ UNCHANGED <<fixed, locks, op, applied, ops, crashes, overlap, again, torn>>

\* UPDATE ... SET execution_time.
Elapsed(p) ==
    /\ pc[p] = "elapsed" /\ ~WriteBlocked(p, cur[p])
    /\ Advance(p)
    /\ UNCHANGED <<fixed, data, op, applied, ops, crashes, overlap, again, torn>>

\* A statement is refused (a duplicate row, a script's error, SQLITE_BUSY), or
\* the caller drops the future.
Fails(p) ==
    /\ pc[p] \in {"lock", "begin", "mark", "script1", "script2", "record", "elapsed"}
    /\ Fail(p)

Step(p) ==
    \/ Lock(p) \/ CheckDirty(p) \/ List(p) \/ Loop(p) \/ Begin(p) \/ Mark(p)
    \/ Script(p) \/ Record(p) \/ Commit(p) \/ Elapsed(p) \/ Unlock(p)

Next ==
    \E p \in Procs :
        \/ \E k \in Kinds, t \in Targets : Start(p, k, t)
        \/ Step(p) \/ Fails(p) \/ Disconnect(p) \/ TryAgain(p) \/ Crash(p)

Spec == Init /\ [][Next]_vars

-----------------------------------------------------------------------------
(* Properties.                                                             *)

\* Every variable has its type.
TypeOK ==
    /\ db \in Databases /\ source \in [Procs -> Sources]
    /\ locks \in [Procs -> 0..MaxOps]
    /\ \A v \in Versions : rows[v].st \in {"none", "dirty", "ok"} /\ schema[v] \in Int
    /\ \A p \in Procs : pend[p].done \in 0..2 /\ pend[p].at \in 0..N
    /\ cur \in [Procs -> 0..(N + 1)]
    /\ ops \in 0..MaxOps /\ crashes \in 0..MaxCrashes /\ overlap \in BOOLEAN
    /\ again \in [Procs -> 0..MaxOps] /\ torn \subseteq NoTx

\* The script and its row are one transaction.
Sheltered(v) == (db = "postgres" => v \notin NoTx) /\ (db = "mysql" => v \notin Ddl)

\* "we never execute migrations twice": an up script takes effect at most once.
\* A script in a transaction with its row is safe whichever commands and
\* crashes meet; the others need the lock, and a PostgreSQL script without a
\* transaction must also not be cut off from its row.
NeverTwice ==
    \A v \in Versions :
        /\ Sheltered(v) => schema[v] <= 2
        /\ ~overlap /\ v \notin torn => schema[v] \in 0..2

\* What _sqlx_migrations says is what the schema holds: a successful row stands
\* for the whole script, no row for nothing of it (but for a script that is
\* outside a transaction and before its row), and only DDL of MySQL leaves a
\* dirty row.
Bookkeeping ==
    \A v \in Versions :
        ~overlap /\ v \notin torn
        => /\ rows[v].st = "ok"
              => schema[v] = 2 \/ \E p \in Procs : pc[p] = "record" /\ cur[p] = v /\ OutsideTx(p)
           /\ rows[v].st = "none"
              => schema[v] = 0 \/ \E p \in Procs : pc[p] = "record" /\ cur[p] = v /\ OutsideTx(p)
           /\ rows[v].st = "dirty" => db = "mysql" /\ v \in Ddl

\* With the lock, the versions are applied in the order of the directory: when
\* the directories agree, the versions in force are a prefix of it.
InOrder ==
    (/\ ~overlap /\ \A p, q \in Procs : source[p] = source[q])
    => \A v, w \in Versions :
           (\A p \in Procs : source[p][v] # 0 /\ source[p][w] # 0)
           /\ v < w /\ rows[w].st = "ok" => rows[v].st # "none"

\* A run() that returns Ok under the lock has brought the database to its
\* directory: every version recorded, with its checksum, and no other version
\* unless it ignores those that it misses.
RunComplete ==
    \A p \in Procs :
        pc[p] = "unlock" /\ op[p].kind = "run" /\ ~overlap
        => \A v \in Versions :
               IF source[p][v] # 0 THEN rows[v] = Row("ok", source[p][v])
               ELSE p \in IgnoreMissing \/ rows[v] = NoRow

\* A migrator that returns Ok holds no lock but those its failed attempts on
\* the same connection have left behind.
LockKeptByFailure == \A p \in Procs : pc[p] = "done" => locks[p] <= again[p]

\* A script that ended half-way stops every later migrator: while its dirty row
\* is on record, no process executes the script of another version.
DirtyBlocks ==
    \A p \in Procs :
        pc[p] \in {"begin", "mark", "script1", "script2", "record", "commit"} /\ ~overlap
        => \A v \in Versions \ {cur[p]} : rows[v].st # "dirty"

\* Several migrators, crashes and dirty rows: each migration runs once, in order
\* and with its bookkeeping, and the lock is given back.
MigrationsExact ==
    /\ TypeOK /\ NeverTwice /\ Bookkeeping /\ InOrder
    /\ RunComplete /\ LockKeptByFailure /\ DirtyBlocks

=============================================================================
