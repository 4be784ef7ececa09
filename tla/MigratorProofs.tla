---------------------------- MODULE MigratorProofs ----------------------------
(***************************************************************************)
(* Proofs about Migrator: for any number of processes, versions, crashes   *)
(* and operations, migrations run once and in order, and                   *)
(* _sqlx_migrations says what the schema holds.                            *)
(*                                                                         *)
(* Two things protect a version.  The row lock a session takes with its    *)
(* row (SQLite: the write lock) keeps the script and the row of every      *)
(* transaction together; that needs no migration lock, and gives the first *)
(* half of NeverTwice.  The rest holds as long as no command without the   *)
(* lock has run beside another migrator: then at most one process is past  *)
(* lock(), and what it has listed, applied and recorded is described by    *)
(* its place in the loop.                                                  *)
(***************************************************************************)
EXTENDS Migrator, TLAPS

\* A process that is past lock(), or has none to take.
Inside == {"check", "list", "loop", "begin", "mark", "script1", "script2", "record", "commit",
           "elapsed", "unlock"}
\* apply() and revert() are under way: a transaction may be open.
Working == {"mark", "script1", "script2", "record", "commit"}
\* The loop is at a version, or between two.
InLoop == {"loop", "begin", "elapsed"} \cup Working

RowSet == {NoRow} \cup [st : {"dirty", "ok"}, sum : Nat]
PendSet == [tx : BOOLEAN, at : 0..N, row : RowSet, done : 0..2]
OpSet == [kind : Kinds \cup {"none"}, target : -1..N]

MigType ==
    /\ db \in Databases /\ source \in [Procs -> Sources]
    /\ locks \in [Procs -> Nat] /\ again \in [Procs -> Nat]
    /\ rows \in [Versions -> RowSet] /\ schema \in [Versions -> Int]
    /\ pend \in [Procs -> PendSet]
    /\ pc \in [Procs -> Inside \cup {"idle", "lock", "done", "failed"}]
    /\ op \in [Procs -> OpSet] /\ cur \in [Procs -> 0..N + 1]
    /\ applied \in [Procs -> [Versions -> RowSet]]
    /\ ops \in 0..MaxOps /\ crashes \in 0..MaxCrashes
    /\ overlap \in BOOLEAN /\ torn \subseteq NoTx /\ (db # "postgres" => torn = {})

-----------------------------------------------------------------------------
(* The migration lock.                                                     *)

\* A session holds the lock once for the call in progress and once for every failed
\* attempt before it; every attempt is an operation.
LockCount(p) ==
    /\ locks[p] <= again[p] + (IF pc[p] \in Inside \cup {"failed"} /\ Locking(p) THEN 1 ELSE 0)
    /\ again[p] + (IF pc[p] = "idle" THEN 0 ELSE 1) <= ops
    /\ pc[p] = "lock" => Locking(p)

\* The session of a migrator past lock() holds it, and one session does.
LockHeld ==
    db # "sqlite" =>
        /\ \A p \in Procs : pc[p] \in Inside /\ Locking(p) => locks[p] > 0
        /\ \A p, q \in Procs : locks[p] > 0 /\ locks[q] > 0 => p = q

\* Without overlap two migrators at once are two that use the lock.
Together ==
    ~overlap => \A p, q \in Procs :
                    p # q /\ Active(p) /\ Active(q) => db # "sqlite" /\ Locking(p)

-----------------------------------------------------------------------------
(* Transactions and rows.                                                  *)

InTx(p) == ~OutsideTx(p) /\ (ImplicitCommit(p) => pc[p] \in {"mark", "script1"})
RowWritten(p) == InTx(p) /\ (pc[p] = "commit" \/ (db = "mysql" /\ pc[p] # "mark"))

\* What the open transaction of a session holds, by its place in apply() or revert().
Shape(p) ==
    /\ pc[p] \notin Working => pend[p] = NoPend
    /\ pc[p] \in Working \cup {"begin", "elapsed"} => cur[p] \in Versions /\ source[p][cur[p]] # 0
    /\ pc[p] \in Inside \cup {"lock"} => op[p].kind \in Kinds
    /\ pc[p] = "elapsed" => Up(p)
    /\ pc[p] = "mark" => db = "mysql"
    /\ pc[p] = "script2" => ~OutsideTx(p)
    /\ pc[p] \in Working =>
         /\ pend[p].tx <=> InTx(p)
         /\ pend[p].done = IF ~InTx(p) \/ pc[p] \in {"mark", "script1"} THEN 0
                           ELSE IF pc[p] = "script2" THEN 1 ELSE 2
         /\ pend[p].at = IF RowWritten(p) THEN cur[p] ELSE 0
         /\ pend[p].row =
              IF ~RowWritten(p) THEN NoRow
              ELSE IF pc[p] = "commit" THEN IF Up(p) THEN Row("ok", source[p][cur[p]]) ELSE NoRow
              ELSE IF Up(p) THEN Row("dirty", source[p][cur[p]]) ELSE pend[p].row
    /\ pend[p].row.st # "ok" \/ pc[p] = "commit"

\* One session at a time has written a row and not committed it, and the row that an
\* INSERT is about to add is not there.
RowLocked ==
    /\ \A p, q \in Procs : pend[p].at # 0 /\ pend[p].at = pend[q].at => p = q
    /\ \A p \in Procs : pend[p].at # 0 /\ Up(p) => rows[pend[p].at].st = "none"

\* The row of a sheltered version bounds what its scripts have done.
RowBounds(v) ==
    Sheltered(v) =>
        /\ rows[v].st \in {"none", "ok"}
        /\ rows[v].st = "none" => schema[v] <= 0
        /\ schema[v] <= 2

-----------------------------------------------------------------------------
(* One migrator at a time.                                                 *)

\* A script without a transaction has run and is not recorded yet.
Unrecorded(p) == pc[p] = "record" /\ OutsideTx(p)

\* The row of a version says what its script has done.
RowTrue(v) ==
    /\ rows[v].st = "ok" => schema[v] = 2
    /\ rows[v].st = "none" => schema[v] = 0
    /\ rows[v].st = "dirty" => db = "mysql" /\ v \in Ddl /\ schema[v] \in 0..2

RowsTrue ==
    \A v \in Versions \ torn : RowTrue(v) \/ \E p \in Procs : Unrecorded(p) /\ cur[p] = v

\* The row of the current version is still the one that was listed.
Untouched(p) == pc[p] \in {"loop", "begin", "mark", "script1"} \/ (InTx(p) /\ pc[p] # "elapsed") \/ Unrecorded(p)

\* The loop wants the version: it is not applied yet, or not yet reverted.
Chosen(p) ==
    /\ Up(p) => applied[p][cur[p]] = NoRow
    /\ ~Up(p) => applied[p][cur[p]].st = "ok"
    /\ op[p].target = NoTarget \/ op[p].kind = "run" \/
         (IF Up(p) THEN cur[p] <= op[p].target ELSE cur[p] > op[p].target)

Ahead(p, v) == IF Up(p) THEN v > cur[p] ELSE v < cur[p]
Behind(p, v) == IF Up(p) THEN v < cur[p] ELSE v > cur[p]

\* What the loop leaves behind: a version applied, or passed over for the target.
Handled(p, v) ==
    IF source[p][v] = 0 THEN p \in IgnoreMissing \/ rows[v] = NoRow
    ELSE IF Up(p)
      THEN \/ rows[v] = Row("ok", source[p][v])
           \/ op[p].kind = "cli run" /\ op[p].target # NoTarget /\ v > op[p].target
    ELSE rows[v] = NoRow \/ v <= op[p].target

NoneDirty == \A v \in Versions : rows[v].st # "dirty"

\* The versions before the loop are as listed, those behind it handled.
Listed(p) ==
    /\ \A v \in Versions \ {cur[p]} : rows[v].st # "dirty"
    /\ \A v \in Versions : source[p][v] = 0 /\ p \notin IgnoreMissing => rows[v] = NoRow
    /\ \A v \in Versions : Ahead(p, v) => rows[v] = applied[p][v]
    /\ \A v \in Versions : Behind(p, v) => Handled(p, v)
    /\ Up(p) => cur[p] > 0
    /\ cur[p] \in Versions /\ Untouched(p) => rows[cur[p]] = applied[p][cur[p]]

\* What a migrator past the check knows of the database.
Knows(p) ==
    /\ pc[p] \in {"list", "loop", "begin", "mark", "script1", "elapsed", "unlock"} => NoneDirty
    /\ pc[p] \in InLoop => Listed(p)
    /\ pc[p] \in Working \cup {"begin"} => Chosen(p)
    /\ pc[p] = "elapsed" => rows[cur[p]] = Row("ok", source[p][cur[p]])
    /\ pc[p] = "unlock" /\ Up(p) => \A v \in Versions : Handled(p, v)
    /\ pc[p] = "commit" /\ ~InTx(p) =>
         rows[cur[p]] = IF Up(p) THEN Row("ok", source[p][cur[p]]) ELSE NoRow
    /\ pc[p] = "record" /\ ~InTx(p) /\ cur[p] \notin torn =>
         schema[cur[p]] = IF Up(p) THEN 2 ELSE 0
    /\ pc[p] \in {"script2", "record"} /\ ImplicitCommit(p) =>
         rows[cur[p]].st = "dirty" /\ (Up(p) => rows[cur[p]].sum = source[p][cur[p]])
    /\ pc[p] = "script2" /\ ImplicitCommit(p) => schema[cur[p]] = 1
    /\ pc[p] = "script1" /\ db = "mysql" => pend[p].row.st = "dirty"

OneAtATime ==
    ~overlap => RowsTrue /\ InOrder /\ \A p \in Procs : Knows(p)

MigInv ==
    /\ MigType
    /\ \A p \in Procs : LockCount(p)
    /\ LockHeld /\ Together
    /\ \A p \in Procs : Shape(p)
    /\ RowLocked
    /\ \A v \in Versions : RowBounds(v)
    /\ OneAtATime

-----------------------------------------------------------------------------
(* What a step of one process leaves alone.                                *)

Stays(q) ==
    /\ pc'[q] = pc[q] /\ op'[q] = op[q] /\ cur'[q] = cur[q] /\ applied'[q] = applied[q]
    /\ pend'[q] = pend[q] /\ locks'[q] = locks[q] /\ again'[q] = again[q]

\* Of the others nothing changes, and the database only while apply() or revert() runs.
Frame(p) ==
    /\ db' = db /\ source' = source /\ ops <= ops'
    /\ overlap => overlap'
    /\ torn \subseteq torn'
    /\ \A q \in Procs \ {p} : Stays(q)
    /\ pc[p] \notin Working => rows' = rows /\ schema' = schema /\ torn' = torn

LEMMA NoPendType == NoPend \in PendSet /\ NoRow \in RowSet /\ NoRows \in [Versions -> RowSet] /\ NoOp \in OpSet
BY MigratorAssumption DEF NoPend, PendSet, RowSet, NoRow, NoRows, NoOp, OpSet, NoTarget

LEMMA FailFrame ==
    ASSUME MigType, NEW p \in Procs, Fail(p) PROVE MigType' /\ Frame(p)
<1>1. torn' \subseteq NoTx /\ torn \subseteq torn' /\ (db # "postgres" => torn' = {}) /\ (pc[p] # "record" => torn' = torn)
  BY DEF MigType, Fail, Tear, OutsideTx
<1> QED BY <1>1, NoPendType DEF MigType, Fail, Go, Frame, Stays, fixed, Working

LEMMA StartFrame ==
    ASSUME MigType, NEW p \in Procs, NEW k \in Kinds, NEW t \in Targets, Start(p, k, t)
    PROVE  MigType' /\ Frame(p)
<1>1. [kind |-> k, target |-> t] \in OpSet
  BY MigratorAssumption DEF OpSet
<1>2. overlap' \in BOOLEAN /\ (overlap => overlap')
  BY Zenon DEF Start
<1>3. /\ pc[p] = "idle" /\ ops < MaxOps /\ ops' = ops + 1
      /\ op' = [op EXCEPT ![p] = [kind |-> k, target |-> t]]
      /\ pc' = [pc EXCEPT ![p] = IF k \in {"run", "undo"} THEN "lock" ELSE "check"]
      /\ UNCHANGED <<db, source, locks, rows, schema, pend, cur, applied, crashes, again, torn>>
  BY DEF Start, Go, fixed, data
<1>4. MigType'
  BY <1>1, <1>2, <1>3, MigratorAssumption DEF MigType, Inside
<1>5. Frame(p)
  BY <1>2, <1>3, MigratorAssumption DEF MigType, Frame, Stays
<1> QED BY <1>4, <1>5

LEMMA LockFrame ==
    ASSUME MigType, NEW p \in Procs, Lock(p) \/ Unlock(p) PROVE MigType' /\ Frame(p)
<1>1. Frame(p)
  BY DEF MigType, Lock, Unlock, Go, Frame, Stays, fixed
<1>2. CASE Lock(p)
  BY <1>1, <1>2 DEF MigType, Lock, Go, fixed, Inside
<1>3. CASE Unlock(p)
  BY <1>1, <1>3 DEF MigType, Unlock, Go, fixed, Inside
<1> QED BY <1>1, <1>2, <1>3

LEMMA EndFrame ==
    ASSUME MigType, NEW p \in Procs, Disconnect(p) \/ TryAgain(p) PROVE MigType' /\ Frame(p)
<1>1. Frame(p)
  BY DEF MigType, Disconnect, TryAgain, Reset, Go, Frame, Stays, fixed, data
<1>2. CASE Disconnect(p)
  BY <1>1, <1>2, NoPendType, MigratorAssumption DEF MigType, Disconnect, Reset, Go, fixed
<1>3. CASE TryAgain(p)
  BY <1>1, <1>3, NoPendType, MigratorAssumption DEF MigType, TryAgain, Reset, Go, fixed, data
<1> QED BY <1>1, <1>2, <1>3

LEMMA CrashFrame ==
    ASSUME MigType, NEW p \in Procs, Crash(p) PROVE MigType' /\ Frame(p)
<1>1. torn' \subseteq NoTx /\ torn \subseteq torn' /\ (db # "postgres" => torn' = {}) /\ (pc[p] # "record" => torn' = torn)
  BY DEF MigType, Crash, Tear, OutsideTx
<1>2. Frame(p)
  BY <1>1 DEF MigType, Crash, Reset, Go, Frame, Stays, fixed, Working
<1>3. MigType'
  BY <1>1, NoPendType, MigratorAssumption DEF MigType, Crash, Reset, Go, fixed
<1> QED BY <1>2, <1>3

LEMMA CheckFrame ==
    ASSUME MigType, NEW p \in Procs, CheckDirty(p) PROVE MigType' /\ Frame(p)
<1>1. CASE Fail(p)
  BY <1>1, FailFrame
<1>2. CASE ~Fail(p)
  BY <1>2 DEF MigType, CheckDirty, Go, Frame, Stays, fixed, data, Inside
<1> QED BY <1>1, <1>2

LEMMA ListFrame ==
    ASSUME MigType, NEW p \in Procs, List(p) PROVE MigType' /\ Frame(p)
<1>1. CASE Fail(p)
  BY <1>1, FailFrame
<1>2. CASE ~Fail(p)
  <2>1. PICK c : c = IF Up(p) THEN 1 ELSE N
    OBVIOUS
  <2>2. c \in 0..N + 1
    BY <2>1, MigratorAssumption
  <2>3. /\ applied' = [applied EXCEPT ![p] = rows] /\ cur' = [cur EXCEPT ![p] = c]
        /\ pc' = [pc EXCEPT ![p] = "loop"]
        /\ UNCHANGED <<db, source, locks, rows, schema, pend, op, ops, crashes, overlap, again, torn>>
    BY <1>2, <2>1 DEF List, Go, fixed, data
  <2>4. MigType'
    BY <2>2, <2>3 DEF MigType, Inside
  <2>5. Frame(p)
    BY <1>2 DEF MigType, List, Go, Frame, Stays, fixed, data
  <2> QED BY <2>4, <2>5
<1> QED BY <1>1, <1>2

\* A step of the loop but for its errors.
Turn(p) ==
    /\ pc[p] = "loop"
    /\ \/ /\ cur[p] \in Versions /\ source[p][cur[p]] # 0 /\ Wanted(p)
          /\ pc' = [pc EXCEPT ![p] = "begin"] /\ cur' = cur
       \/ /\ cur[p] \in Versions /\ (source[p][cur[p]] = 0 \/ (~Mismatch(p) /\ ~Wanted(p)))
          /\ cur' = [cur EXCEPT ![p] = NextVersion(p)] /\ pc' = pc
       \/ /\ cur[p] \notin Versions
          /\ pc' = [pc EXCEPT ![p] = "unlock"] /\ cur' = cur
    /\ UNCHANGED <<db, source, locks, rows, schema, pend, op, applied, ops, crashes, overlap, again, torn>>

LEMMA LoopTurns ==
    ASSUME NEW p \in Procs, Loop(p) PROVE Fail(p) \/ Turn(p)
BY DEF Loop, Turn, InRange, Skipped, Go, fixed, data

LEMMA NextInRange ==
    ASSUME MigType, NEW p \in Procs, cur[p] \in Versions PROVE NextVersion(p) \in 0..N + 1
BY MigratorAssumption DEF MigType, NextVersion, Sign, Versions

LEMMA TurnFrame ==
    ASSUME MigType, NEW p \in Procs, Turn(p) PROVE MigType' /\ Frame(p)
<1>1. cur[p] \in Versions => NextVersion(p) \in 0..N + 1
  BY NextInRange
<1>2. MigType'
  BY <1>1 DEF MigType, Turn, Inside
<1>3. Frame(p)
  BY DEF MigType, Turn, Frame, Stays
<1> QED BY <1>2, <1>3

LEMMA BeginFrame ==
    ASSUME MigType, NEW p \in Procs, Begin(p) PROVE MigType' /\ Frame(p)
<1>1. [pend[p] EXCEPT !.tx = ~OutsideTx(p)] \in PendSet
  <2>1. pend[p] \in PendSet /\ (~OutsideTx(p)) \in BOOLEAN
    BY DEF MigType, OutsideTx
  <2> QED BY <2>1 DEF PendSet
<1>2. pend' = [pend EXCEPT ![p] = [pend[p] EXCEPT !.tx = ~OutsideTx(p)]]
  BY DEF Begin
<1>3. pend' \in [Procs -> PendSet] /\ \A q \in Procs \ {p} : pend'[q] = pend[q]
  BY <1>1, <1>2 DEF MigType
<1>4. MigType'
  BY <1>3 DEF MigType, Begin, Go, fixed, Inside
<1>5. Frame(p)
  BY <1>3 DEF MigType, Begin, Go, Frame, Stays, fixed, Working
<1> QED BY <1>4, <1>5

\* A statement on the row: what it changes.
LEMMA SetRowFrame ==
    ASSUME MigType, NEW p \in Procs, NEW r \in RowSet, NEW l \in Inside, cur[p] \in Versions,
           pc[p] \in Working, SetRow(p, r, l)
    PROVE  MigType' /\ Frame(p)
<1>1. [pend[p] EXCEPT !.at = cur[p], !.row = r] \in PendSet
  <2>1. pend[p] \in PendSet /\ cur[p] \in 0..N
    BY MigratorAssumption DEF MigType, Versions
  <2> QED BY <2>1 DEF PendSet
<1>2. pend' \in [Procs -> PendSet] /\ \A q \in Procs \ {p} : pend'[q] = pend[q]
  <2>1. CASE pend[p].tx
    <3>1. pend' = [pend EXCEPT ![p] = [pend[p] EXCEPT !.at = cur[p], !.row = r]]
      BY <2>1 DEF SetRow
    <3> QED BY <1>1, <3>1 DEF MigType
  <2>2. CASE ~pend[p].tx
    BY <2>2 DEF SetRow, MigType
  <2> QED BY <2>1, <2>2
<1>3. rows' \in [Versions -> RowSet]
  BY DEF SetRow, MigType
<1>4. MigType'
  BY <1>2, <1>3 DEF MigType, SetRow, Go, fixed, Inside
<1>5. Frame(p)
  BY <1>2 DEF MigType, SetRow, Go, Frame, Stays, fixed
<1> QED BY <1>4, <1>5

LEMMA SeenType ==
    ASSUME MigType, NEW p \in Procs, cur[p] \in Versions
    PROVE  /\ Seen(p, cur[p]) \in RowSet /\ source[p] \in [Versions -> Nat]
           /\ \A st \in {"dirty", "ok"} : SameRow(p, st) \in RowSet
           /\ \A st \in {"dirty", "ok"} : NewRow(p, st) \in RowSet
<1>1. Seen(p, cur[p]) \in RowSet
  BY DEF MigType, Seen, PendSet
<1>2. source[p] \in [Versions -> Nat]
  BY MigratorAssumption DEF MigType
<1>3. \A st \in {"dirty", "ok"} : SameRow(p, st) \in RowSet
  BY <1>1 DEF SameRow, RowExists, RowSet, Row, NoRow
<1>4. \A st \in {"dirty", "ok"} : NewRow(p, st) \in RowSet
  BY <1>2 DEF NewRow, RowSet, Row
<1> QED BY <1>1, <1>2, <1>3, <1>4

LEMMA MarkFrame ==
    ASSUME MigType, NEW p \in Procs, cur[p] \in Versions, Mark(p) PROVE MigType' /\ Frame(p)
<1>1. PICK r : r = IF Up(p) THEN NewRow(p, "dirty") ELSE SameRow(p, "dirty")
  OBVIOUS
<1>2. r \in RowSet
  BY <1>1, SeenType
<1>3. SetRow(p, r, "script1") /\ pc[p] \in Working
  BY <1>1 DEF Mark, Working
<1> QED BY <1>2, <1>3, SetRowFrame DEF Inside

LEMMA RecordFrame ==
    ASSUME MigType, NEW p \in Procs, cur[p] \in Versions, Record(p) PROVE MigType' /\ Frame(p)
<1>1. PICK r \in RowSet : SetRow(p, r, "commit") /\ pc[p] \in Working
  BY SeenType, NoPendType DEF Record, Working
<1> QED BY <1>1, SetRowFrame DEF Inside

LEMMA FlushType ==
    ASSUME MigType, NEW p \in Procs, NEW n \in 0..2, cur[p] \in Versions, Flush(p, n)
    PROVE  /\ rows' \in [Versions -> RowSet] /\ schema' \in [Versions -> Int]
           /\ pend' \in [Procs -> PendSet] /\ \A q \in Procs \ {p} : pend'[q] = pend[q]
<1>1. pend[p].done \in Int /\ pend[p].row \in RowSet /\ (pend[p].at # 0 => pend[p].at \in Versions)
  <2>1. pend[p] \in PendSet
    BY DEF MigType
  <2> QED BY <2>1, MigratorAssumption DEF PendSet, Versions
<1>2. rows' \in [Versions -> RowSet]
  BY <1>1 DEF MigType, Flush
<1>3. Sign(p) * (pend[p].done + n) \in Int
  BY <1>1 DEF Sign
<1>4. schema' \in [Versions -> Int]
  BY <1>3 DEF MigType, Flush
<1>5. pend' \in [Procs -> PendSet] /\ \A q \in Procs \ {p} : pend'[q] = pend[q]
  BY NoPendType DEF MigType, Flush
<1> QED BY <1>2, <1>4, <1>5

LEMMA ScriptFrame ==
    ASSUME MigType, NEW p \in Procs, cur[p] \in Versions, Shape(p), Script(p) PROVE MigType' /\ Frame(p)
<1>1. pc[p] \in Working
  BY DEF Script, Working
<1>2. /\ rows' \in [Versions -> RowSet] /\ schema' \in [Versions -> Int]
      /\ pend' \in [Procs -> PendSet] /\ \A q \in Procs \ {p} : pend'[q] = pend[q]
  <2>1. CASE \E n \in {1, 2} : Flush(p, n)
    BY <2>1, FlushType
  <2>2. CASE ~\E n \in {1, 2} : Flush(p, n)
    <3>1. /\ pend' = [pend EXCEPT ![p] = [pend[p] EXCEPT !.done = pend[p].done + 1]]
          /\ UNCHANGED <<rows, schema>>
      BY <2>2 DEF Script
    <3>2. pend[p].done \in 0..1
      BY DEF Shape, Script, Working
    <3>3. [pend[p] EXCEPT !.done = pend[p].done + 1] \in PendSet
      <4>1. pend[p] \in PendSet
        BY DEF MigType
      <4> QED BY <3>2, <4>1 DEF PendSet
    <3> QED BY <3>1, <3>3 DEF MigType
  <2> QED BY <2>1, <2>2
<1>3. MigType'
  BY <1>2 DEF MigType, Script, Go, fixed, Inside
<1>4. Frame(p)
  BY <1>1, <1>2 DEF MigType, Script, Go, Frame, Stays, fixed
<1> QED BY <1>3, <1>4

LEMMA CommitFrame ==
    ASSUME MigType, NEW p \in Procs, cur[p] \in Versions, Commit(p) PROVE MigType' /\ Frame(p)
<1>1. pc[p] \in Working
  BY DEF Commit, Working
<1>2. /\ rows' \in [Versions -> RowSet] /\ schema' \in [Versions -> Int]
      /\ pend' \in [Procs -> PendSet] /\ \A q \in Procs \ {p} : pend'[q] = pend[q]
  BY FlushType DEF Commit
<1>3. NextVersion(p) \in 0..N + 1
  BY NextInRange
<1>4. MigType'
  BY <1>2, <1>3 DEF MigType, Commit, Advance, Go, fixed, Inside
<1>5. Frame(p)
  BY <1>1, <1>2 DEF MigType, Commit, Advance, Go, Frame, Stays, fixed
<1> QED BY <1>4, <1>5

LEMMA ElapsedFrame ==
    ASSUME MigType, NEW p \in Procs, cur[p] \in Versions, Elapsed(p) PROVE MigType' /\ Frame(p)
<1>1. NextVersion(p) \in 0..N + 1
  BY NextInRange
<1>2. MigType'
  <2>1. /\ cur' = cur \/ cur' = [cur EXCEPT ![p] = NextVersion(p)]
        /\ pc' = [pc EXCEPT ![p] = "unlock"] \/ pc' = [pc EXCEPT ![p] = "loop"]
        /\ UNCHANGED <<db, source, locks, rows, schema, pend, op, applied, ops, crashes, overlap, again, torn>>
    BY DEF Elapsed, Advance, Go, fixed, data
  <2>2. cur' \in [Procs -> 0..N + 1] /\ pc' \in [Procs -> Inside \cup {"idle", "lock", "done", "failed"}]
    BY <1>1, <2>1 DEF MigType, Inside
  <2> QED BY <2>1, <2>2 DEF MigType
<1>3. Frame(p)
  BY DEF MigType, Elapsed, Advance, Go, Frame, Stays, fixed, data
<1> QED BY <1>2, <1>3

-----------------------------------------------------------------------------
(* What a step of p must establish, and that it is enough.                 *)

LockStep(p) ==
    /\ LockCount(p)'
    /\ db # "sqlite" =>
         /\ pc'[p] \in Inside /\ Locking(p)' => locks'[p] > 0
         /\ locks'[p] > 0 => locks[p] > 0 \/ \A q \in Procs \ {p} : locks[q] = 0
    /\ ~overlap' /\ Active(p)' =>
         \/ Active(p) /\ (Locking(p) => Locking(p)')
         \/ \A q \in Procs \ {p} : Active(q) => db # "sqlite" /\ Locking(q) /\ Locking(p)'

RowStep(p) ==
    /\ Shape(p)'
    /\ pend'[p].at # 0 =>
         /\ pend'[p].at = pend[p].at \/ \A q \in Procs \ {p} : pend[q].at # pend'[p].at
         /\ Up(p)' => rows'[pend'[p].at].st = "none"
    /\ \A v \in Versions : rows'[v] = rows[v] \/ \A q \in Procs \ {p} : pend[q].at # v
    /\ \A v \in Versions : RowBounds(v)'

KnowStep(p) == ~overlap' => RowsTrue' /\ InOrder' /\ Knows(p)'

\* Without overlap one process at a time is past lock().
LEMMA Alone ==
    ASSUME LockHeld, Together, ~overlap, NEW p \in Procs, NEW q \in Procs,
           pc[p] \in Inside, pc[q] \in Inside
    PROVE  p = q
<1>1. Active(p) /\ Active(q)
  BY DEF Active, Inside
<1>2. p # q => db # "sqlite" /\ Locking(p) /\ Locking(q)
  BY <1>1 DEF Together
<1>3. p # q => locks[p] > 0 /\ locks[q] > 0
  BY <1>2 DEF LockHeld
<1> QED BY <1>2, <1>3 DEF LockHeld

LEMMA LocksCompose ==
    ASSUME MigType, MigType', NEW p \in Procs, Frame(p), LockStep(p),
           \A q \in Procs : LockCount(q), LockHeld, Together
    PROVE  (\A q \in Procs : LockCount(q)') /\ LockHeld' /\ Together'
<1>1. \A q \in Procs \ {p} : LockCount(q)'
  <2> SUFFICES ASSUME NEW q \in Procs \ {p} PROVE LockCount(q)'
    OBVIOUS
  <2>1. Stays(q) /\ ops <= ops' /\ LockCount(q)
    BY DEF Frame
  <2>2. locks[q] \in Nat /\ again[q] \in Nat /\ ops \in Nat /\ ops' \in Nat
    BY MigratorAssumption DEF MigType
  <2> QED BY <2>1, <2>2 DEF Stays, LockCount, Locking
<1>2. LockHeld'
  <2> SUFFICES ASSUME db # "sqlite" PROVE LockHeld'
    BY DEF Frame, LockHeld
  <2>1. /\ \A q \in Procs : pc[q] \in Inside /\ Locking(q) => locks[q] > 0
        /\ \A q, r \in Procs : locks[q] > 0 /\ locks[r] > 0 => q = r
    BY DEF LockHeld
  <2>2. \A q \in Procs \ {p} : pc'[q] = pc[q] /\ locks'[q] = locks[q] /\ (Locking(q)' <=> Locking(q))
    BY DEF Frame, Stays, Locking
  <2>3. \A q \in Procs : pc'[q] \in Inside /\ Locking(q)' => locks'[q] > 0
    BY <2>1, <2>2 DEF LockStep
  <2>4. \A q, r \in Procs : locks'[q] > 0 /\ locks'[r] > 0 => q = r
    <3>1. locks'[p] > 0 => locks[p] > 0 \/ \A q \in Procs \ {p} : locks[q] = 0
      BY DEF LockStep
    <3>2. \A r \in Procs \ {p} : ~(locks'[p] > 0 /\ locks[r] > 0)
      BY <2>1, <3>1
    <3> QED BY <2>1, <2>2, <3>2
  <2> QED BY <2>3, <2>4 DEF LockHeld
<1>3. Together'
  <2> SUFFICES ASSUME ~overlap', NEW q \in Procs, NEW r \in Procs, q # r, Active(q)', Active(r)'
               PROVE  db' # "sqlite" /\ Locking(q)'
    BY DEF Together
  <2>1. ~overlap /\ db' = db
    BY DEF Frame
  <2>2. \A s \in Procs \ {p} : (Active(s)' <=> Active(s)) /\ (Locking(s)' <=> Locking(s))
    BY DEF Frame, Stays, Active, Locking
  <2>3. \A s, t \in Procs : s # t /\ Active(s) /\ Active(t) => db # "sqlite" /\ Locking(s)
    BY <2>1 DEF Together
  <2> QED BY <2>1, <2>2, <2>3 DEF LockStep
<1> QED BY <1>1, <1>2, <1>3 DEF LockStep

LEMMA ShapeStays ==
    ASSUME NEW q \in Procs, Stays(q), db' = db, source' = source, Shape(q) PROVE Shape(q)'
<1>1. /\ pc'[q] = pc[q] /\ op'[q] = op[q] /\ cur'[q] = cur[q] /\ pend'[q] = pend[q]
      /\ (OutsideTx(q)' <=> OutsideTx(q)) /\ (ImplicitCommit(q)' <=> ImplicitCommit(q))
      /\ (Up(q)' <=> Up(q))
  BY DEF Stays, OutsideTx, ImplicitCommit, Up
<1>2. (InTx(q)' <=> InTx(q)) /\ (RowWritten(q)' <=> RowWritten(q))
  BY <1>1 DEF InTx, RowWritten
<1> QED BY <1>1, <1>2 DEF Shape

LEMMA RowsCompose ==
    ASSUME MigType, NEW p \in Procs, Frame(p), RowStep(p), RowLocked, \A q \in Procs : Shape(q)
    PROVE  (\A q \in Procs : Shape(q)') /\ RowLocked' /\ \A v \in Versions : RowBounds(v)'
<1>1. \A q \in Procs : Shape(q)'
  BY ShapeStays DEF Frame, RowStep
<1>2. \A q \in Procs \ {p} : pend'[q] = pend[q] /\ (Up(q)' <=> Up(q))
  BY DEF Frame, Stays, Up
<1>3. \A q, r \in Procs : pend'[q].at # 0 /\ pend'[q].at = pend'[r].at => q = r
  BY <1>2 DEF RowStep, RowLocked
<1>4. \A q \in Procs : pend'[q].at # 0 /\ Up(q)' => rows'[pend'[q].at].st = "none"
  <2> SUFFICES ASSUME NEW q \in Procs, pend'[q].at # 0, Up(q)' PROVE rows'[pend'[q].at].st = "none"
    OBVIOUS
  <2>1. CASE q = p
    BY <2>1 DEF RowStep
  <2>2. CASE q # p
    <3>1. pend'[q] = pend[q] /\ Up(q)
      BY <1>2, <2>2
    <3>2. pend[q].at \in Versions
      <4>1. pend[q] \in PendSet
        BY DEF MigType
      <4> QED BY <3>1, <4>1, MigratorAssumption DEF PendSet, Versions
    <3>3. rows'[pend[q].at] = rows[pend[q].at]
      BY <2>2, <3>2 DEF RowStep
    <3> QED BY <3>1, <3>3 DEF RowLocked
  <2> QED BY <2>1, <2>2
<1> QED BY <1>1, <1>3, <1>4 DEF RowLocked, RowStep

LEMMA KnowsStays ==
    ASSUME NEW q \in Procs, Stays(q), db' = db, source' = source, rows' = rows, schema' = schema,
           torn' = torn, Knows(q)
    PROVE  Knows(q)'
<1>1. /\ Up(q)' <=> Up(q)
      /\ ImplicitCommit(q)' <=> ImplicitCommit(q)
      /\ InTx(q)' <=> InTx(q)
      /\ Untouched(q)' <=> Untouched(q)
      /\ NoneDirty' <=> NoneDirty
  BY DEF Stays, NoneDirty, Untouched, Unrecorded, OutsideTx, InTx, ImplicitCommit, Up
<1>2. \A v \in Versions : /\ Ahead(q, v)' <=> Ahead(q, v)
                          /\ Behind(q, v)' <=> Behind(q, v)
                          /\ Handled(q, v)' <=> Handled(q, v)
  BY <1>1 DEF Stays, Ahead, Behind, Handled
<1>3. Chosen(q)' <=> Chosen(q)
  BY <1>1 DEF Stays, Chosen
<1>4. Listed(q)' <=> Listed(q)
  BY <1>1, <1>2 DEF Stays, Listed
<1> QED BY <1>1, <1>2, <1>3, <1>4 DEF Stays, Knows

LEMMA KnowledgeComposes ==
    ASSUME MigType, NEW p \in Procs, Frame(p), KnowStep(p), OneAtATime, LockHeld, Together
    PROVE  OneAtATime'
<1> SUFFICES ASSUME ~overlap', NEW q \in Procs, q # p PROVE Knows(q)'
  BY DEF OneAtATime, KnowStep
<1>1. Stays(q) /\ db' = db /\ source' = source /\ ~overlap /\ Knows(q)
  BY DEF Frame, OneAtATime
<1>2. CASE pc[q] \in Inside
  <2>1. pc[p] \notin Inside
    BY <1>1, <1>2, Alone
  <2>2. rows' = rows /\ schema' = schema /\ torn' = torn
    BY <2>1 DEF Frame, Working, Inside
  <2> QED BY <1>1, <2>2, KnowsStays
<1>3. CASE pc[q] \notin Inside
  BY <1>1, <1>3 DEF Stays, Knows, Inside, InLoop, Working
<1> QED BY <1>2, <1>3

LEMMA StepCompose ==
    ASSUME MigInv, NEW p \in Procs, MigType', Frame(p), LockStep(p), RowStep(p), KnowStep(p)
    PROVE  MigInv'
<1>1. (\A q \in Procs : LockCount(q)') /\ LockHeld' /\ Together'
  BY LocksCompose DEF MigInv
<1>2. (\A q \in Procs : Shape(q)') /\ RowLocked' /\ \A v \in Versions : RowBounds(v)'
  BY RowsCompose DEF MigInv
<1>3. OneAtATime'
  BY KnowledgeComposes DEF MigInv
<1> QED BY <1>1, <1>2, <1>3 DEF MigInv

-----------------------------------------------------------------------------
(* The steps that leave the database alone.                                *)

LEMMA LockKept ==
    ASSUME MigType, MigType', NEW p \in Procs, LockCount(p), LockHeld,
           locks' = locks, again' = again, op' = op, ops' = ops,
           pc[p] \in Inside \cup {"lock"}, pc'[p] \in Inside \cup {"failed"},
           pc[p] = "lock" => pc'[p] = "failed"
    PROVE  LockStep(p)
<1>1. locks[p] \in Nat /\ again[p] \in Nat /\ ops \in Nat
  BY MigratorAssumption DEF MigType
<1>2. Locking(p)' <=> Locking(p)
  BY DEF Locking
<1>3. LockCount(p)'
  BY <1>1, <1>2 DEF LockCount, Inside
<1>4. Active(p)
  BY DEF Active, Inside
<1> QED BY <1>2, <1>3, <1>4 DEF LockStep, LockHeld, Inside

LEMMA RowsKept ==
    ASSUME MigInv, NEW p \in Procs, db' = db, rows' = rows, schema' = schema, Shape(p)',
           pend'[p].at = 0 \/ (pend'[p] = pend[p] /\ (Up(p)' <=> Up(p)))
    PROVE  RowStep(p)
<1>1. \A v \in Versions : RowBounds(v)'
  BY DEF MigInv, RowBounds, Sheltered
<1> QED BY <1>1 DEF RowStep, MigInv, RowLocked

LEMMA TruthKept ==
    ASSUME MigInv, NEW p \in Procs, Frame(p), ~overlap', rows' = rows, schema' = schema,
           Unrecorded(p) => cur[p] \in torn'
    PROVE  RowsTrue' /\ InOrder' /\ RowsTrue /\ Knows(p)
<1>1. ~overlap /\ db' = db /\ source' = source /\ torn \subseteq torn'
  BY DEF Frame
<1>2. RowsTrue /\ InOrder /\ Knows(p)
  BY <1>1 DEF MigInv, OneAtATime
<1>3. \A v \in Versions : RowTrue(v) => RowTrue(v)'
  BY <1>1 DEF RowTrue
<1>4. \A q \in Procs \ {p} : (Unrecorded(q)' <=> Unrecorded(q)) /\ cur'[q] = cur[q]
  BY <1>1 DEF Frame, Stays, Unrecorded, OutsideTx
<1>5. RowsTrue'
  BY <1>1, <1>2, <1>3, <1>4 DEF RowsTrue
<1>6. InOrder'
  BY <1>1, <1>2 DEF InOrder
<1> QED BY <1>2, <1>5, <1>6

LEMMA StartInv ==
    ASSUME MigInv, NEW p \in Procs, NEW k \in Kinds, NEW t \in Targets, Start(p, k, t)
    PROVE  MigInv'
<1>1. MigType /\ MigType' /\ Frame(p)
  BY StartFrame DEF MigInv
<1>2. /\ pc[p] = "idle" /\ pc'[p] = IF k \in {"run", "undo"} THEN "lock" ELSE "check"
      /\ op'[p].kind = k /\ locks' = locks /\ again' = again /\ ops' = ops + 1
      /\ (k \notin {"run", "undo"} => again[p] = 0)
      /\ UNCHANGED <<db, rows, schema, pend, torn>>
  BY <1>1 DEF Start, Go, MigType, fixed, data
<1>3. LockStep(p)
  <2>1. locks[p] \in Nat /\ again[p] \in Nat /\ ops \in Nat
    BY <1>1, MigratorAssumption DEF MigType
  <2>2. Locking(p)' <=> k \in {"run", "undo"}
    BY <1>2 DEF Locking
  <2>3. LockCount(p)
    BY DEF MigInv
  <2>4. LockCount(p)'
    BY <1>2, <2>1, <2>2, <2>3 DEF LockCount, Inside
  <2>5. ~overlap' => \A q \in Procs \ {p} : Active(q) => db # "sqlite" /\ Locking(q) /\ k \in {"run", "undo"}
    BY Zenon DEF Start
  <2> QED BY <1>2, <2>2, <2>4, <2>5 DEF LockStep, Inside
<1>4. Shape(p)'
  BY <1>2 DEF MigInv, Shape, Working, InLoop, NoPend, NoRow
<1>5. RowStep(p)
  <2>1. pend'[p].at = 0
    BY <1>2 DEF MigInv, Shape, Working, NoPend
  <2> QED BY <1>2, <1>4, <2>1, RowsKept
<1>6. KnowStep(p)
  <2>1. Knows(p)'
    BY <1>2 DEF Knows, Working, InLoop
  <2>2. ~Unrecorded(p)
    BY <1>2 DEF Unrecorded
  <2> QED BY <1>1, <1>2, <2>1, <2>2, TruthKept DEF KnowStep
<1> QED BY <1>1, <1>3, <1>5, <1>6, StepCompose

LEMMA LockInv ==
    ASSUME MigInv, NEW p \in Procs, Lock(p) \/ Unlock(p) PROVE MigInv'
<1>1. MigType /\ MigType' /\ Frame(p)
  BY LockFrame DEF MigInv
<1>2. /\ pc[p] \in {"lock", "unlock"} /\ pc'[p] = IF pc[p] = "lock" THEN "check" ELSE "done"
      /\ op' = op /\ again' = again /\ ops' = ops
      /\ UNCHANGED <<db, rows, schema, pend, torn>>
      /\ Lock(p) <=> pc[p] = "lock"
  BY <1>1 DEF Lock, Unlock, Go, MigType, fixed, data
<1>3. LockStep(p)
  <2>1. locks[p] \in Nat /\ again[p] \in Nat /\ ops \in Nat
    BY <1>1, MigratorAssumption DEF MigType
  <2>2. Locking(p)' <=> Locking(p)
    BY <1>2 DEF Locking
  <2>3. LockCount(p) /\ Active(p)
    BY <1>2 DEF MigInv, Active
  <2>4. CASE Lock(p)
    <3>1. /\ locks'[p] = IF db = "sqlite" THEN locks[p] ELSE locks[p] + 1
          /\ db # "sqlite" => \A q \in Procs \ {p} : ~(locks[q] > 0)
      BY <1>1, <2>4 DEF Lock, MigType, LockHeldByOther
    <3>2. \A q \in Procs : locks[q] \in Nat
      BY <1>1 DEF MigType
    <3>3. LockCount(p)'
      BY <1>2, <2>1, <2>2, <2>3, <2>4, <3>1 DEF LockCount, Inside
    <3> QED BY <2>1, <2>2, <2>3, <3>1, <3>2, <3>3 DEF LockStep
  <2>5. CASE Unlock(p)
    <3>1. locks'[p] = IF Locking(p) /\ locks[p] > 0 THEN locks[p] - 1 ELSE locks[p]
      BY <1>1, <2>5 DEF Unlock, MigType
    <3>2. pc[p] = "unlock" /\ pc'[p] = "done"
      BY <1>2, <2>5 DEF Unlock
    <3>3. LockCount(p)'
      BY <1>2, <2>1, <2>2, <2>3, <3>1, <3>2 DEF LockCount, Inside
    <3>4. ~Active(p)' /\ pc'[p] \notin Inside /\ (locks'[p] > 0 => locks[p] > 0)
      BY <2>1, <3>1, <3>2 DEF Active, Inside
    <3> QED BY <3>3, <3>4 DEF LockStep
  <2> QED BY <2>4, <2>5
<1>4. Shape(p)'
  BY <1>2 DEF MigInv, Shape, Working, Inside, NoPend, NoRow
<1>5. RowStep(p)
  <2>1. pend'[p].at = 0
    BY <1>2 DEF MigInv, Shape, Working, NoPend
  <2> QED BY <1>2, <1>4, <2>1, RowsKept
<1>6. KnowStep(p)
  <2>1. Knows(p)'
    BY <1>2 DEF Knows, Working, InLoop
  <2>2. ~Unrecorded(p)
    BY <1>2 DEF Unrecorded
  <2> QED BY <1>1, <1>2, <2>1, <2>2, TruthKept DEF KnowStep
<1> QED BY <1>1, <1>3, <1>5, <1>6, StepCompose

\* A process that is nowhere: a disconnected one, one that tries again, one that died.
LEMMA EndInv ==
    ASSUME MigInv, NEW p \in Procs, Disconnect(p) \/ TryAgain(p) \/ Crash(p) PROVE MigInv'
<1>1. MigType /\ MigType' /\ Frame(p)
  BY EndFrame, CrashFrame DEF MigInv
<1>2. /\ pc'[p] = "idle" /\ ops' = ops
      /\ \/ locks'[p] = 0 /\ again'[p] = 0
         \/ /\ locks'[p] = locks[p] /\ again'[p] = again[p] + 1
            /\ pc[p] = "failed" /\ Locking(p)
      /\ UNCHANGED <<db, rows, schema>>
  BY <1>1 DEF Disconnect, TryAgain, Crash, Reset, Go, MigType, fixed, data
<1>3. LockStep(p)
  <2>1. locks[p] \in Nat /\ again[p] \in Nat /\ ops \in Nat
    BY <1>1, MigratorAssumption DEF MigType
  <2>2. LockCount(p)
    BY DEF MigInv
  <2>3. LockCount(p)'
    BY <1>2, <2>1, <2>2 DEF LockCount, Inside
  <2>4. ~Active(p)' /\ pc'[p] \notin Inside /\ (locks'[p] > 0 => locks[p] > 0)
    BY <1>2, <2>1 DEF Active, Inside
  <2> QED BY <2>3, <2>4 DEF LockStep
<1>4. pend'[p] = NoPend
  <2>1. CASE Crash(p)
    BY <1>1, <2>1 DEF Crash, MigType
  <2>2. CASE ~Crash(p)
    <3>1. pend' = pend /\ pc[p] \notin Working
      BY <2>2 DEF Disconnect, TryAgain, data, Working
    <3> QED BY <3>1 DEF MigInv, Shape
  <2> QED BY <2>1, <2>2
<1>5. RowStep(p)
  <2>1. Shape(p)'
    BY <1>2, <1>4 DEF Shape, Working, Inside, NoPend, NoRow
  <2> QED BY <1>2, <1>4, <2>1, RowsKept DEF NoPend
<1>6. KnowStep(p)
  <2>1. Knows(p)'
    BY <1>2 DEF Knows, Working, InLoop
  <2>2. Unrecorded(p) => cur[p] \in torn'
    BY DEF Unrecorded, Disconnect, TryAgain, Crash, Tear
  <2> QED BY <1>1, <1>2, <2>1, <2>2, TruthKept DEF KnowStep
<1> QED BY <1>1, <1>3, <1>5, <1>6, StepCompose

LEMMA FailInv ==
    ASSUME MigInv, NEW p \in Procs, pc[p] \in Inside \cup {"lock"}, Fail(p) PROVE MigInv'
<1>1. MigType /\ MigType' /\ Frame(p)
  BY FailFrame DEF MigInv
<1>2. /\ pc'[p] = "failed" /\ pend'[p] = NoPend
      /\ UNCHANGED <<db, rows, schema, op, locks, again, ops>>
  BY <1>1 DEF Fail, Go, MigType, fixed
<1>3. LockStep(p)
  BY <1>1, <1>2, LockKept DEF MigInv
<1>5. RowStep(p)
  <2>1. Shape(p)'
    BY <1>2 DEF Shape, Working, Inside, NoPend, NoRow
  <2> QED BY <1>2, <2>1, RowsKept DEF NoPend
<1>6. KnowStep(p)
  <2>1. Knows(p)'
    BY <1>2 DEF Knows, Working, InLoop
  <2>2. Unrecorded(p) => cur[p] \in torn'
    BY DEF Unrecorded, Fail, Tear
  <2> QED BY <1>1, <1>2, <2>1, <2>2, TruthKept DEF KnowStep
<1> QED BY <1>1, <1>3, <1>5, <1>6, StepCompose

LEMMA CheckInv ==
    ASSUME MigInv, NEW p \in Procs, CheckDirty(p) PROVE MigInv'
<1>1. CASE Fail(p)
  BY <1>1, FailInv DEF CheckDirty, Inside
<1>2. CASE ~Fail(p)
  <2>1. MigType /\ MigType' /\ Frame(p)
    BY CheckFrame DEF MigInv
  <2>2. /\ ~Dirty /\ pc[p] = "check" /\ pc'[p] = "list"
        /\ UNCHANGED <<db, rows, schema, pend, op, locks, again, ops>>
    BY <1>2, <2>1 DEF CheckDirty, Go, MigType, fixed, data
  <2>3. LockStep(p)
    BY <2>1, <2>2, LockKept DEF MigInv, Inside
  <2>4. RowStep(p)
    <3>1. Shape(p)'
      BY <2>2 DEF MigInv, Shape, Working, Inside, NoPend, NoRow
    <3>2. pend'[p].at = 0
      BY <2>2 DEF MigInv, Shape, Working, NoPend
    <3> QED BY <2>2, <3>1, <3>2, RowsKept
  <2>5. KnowStep(p)
    <3>1. Knows(p)'
      BY <2>2 DEF Knows, Working, InLoop, NoneDirty, Dirty
    <3>2. ~Unrecorded(p)
      BY <2>2 DEF Unrecorded
    <3> QED BY <2>1, <2>2, <3>1, <3>2, TruthKept DEF KnowStep
  <2> QED BY <2>1, <2>3, <2>4, <2>5, StepCompose
<1> QED BY <1>1, <1>2

LEMMA ListInv ==
    ASSUME MigInv, NEW p \in Procs, List(p) PROVE MigInv'
<1>1. CASE Fail(p)
  BY <1>1, FailInv DEF List, Inside
<1>2. CASE ~Fail(p)
  <2>1. MigType /\ MigType' /\ Frame(p)
    BY ListFrame DEF MigInv
  <2>2. /\ Valid(p) /\ pc[p] = "list" /\ pc'[p] = "loop" /\ applied'[p] = rows
        /\ cur'[p] = IF Up(p) THEN 1 ELSE N
        /\ UNCHANGED <<db, source, rows, schema, pend, op, locks, again, ops>>
    BY <1>2, <2>1 DEF List, Go, MigType, fixed, data
  <2>3. LockStep(p)
    BY <2>1, <2>2, LockKept DEF MigInv, Inside
  <2>4. RowStep(p)
    <3>1. Shape(p)'
      BY <2>2 DEF MigInv, Shape, Working, Inside, NoPend, NoRow
    <3>2. pend'[p].at = 0
      BY <2>2 DEF MigInv, Shape, Working, NoPend
    <3> QED BY <2>2, <3>1, <3>2, RowsKept
  <2>5. KnowStep(p)
    <3> SUFFICES ASSUME ~overlap' PROVE RowsTrue' /\ InOrder' /\ Knows(p)'
      BY DEF KnowStep
    <3>1. ~Unrecorded(p)
      BY <2>2 DEF Unrecorded
    <3>2. RowsTrue' /\ InOrder' /\ Knows(p)
      BY <2>1, <2>2, <3>1, TruthKept
    <3>3. NoneDirty' /\ (Up(p)' <=> Up(p))
      BY <2>2, <3>2 DEF Knows, NoneDirty, Up
    <3>4. \A v \in Versions : source[p][v] = 0 /\ p \notin IgnoreMissing => rows[v] = NoRow
      BY <2>1, <2>2 DEF Valid, Present, MigType, RowSet
    <3>5. \A v \in Versions : ~Behind(p, v)'
      <4>1. \A v \in Versions : ~(v < 1) /\ ~(v > N)
        BY MigratorAssumption DEF Versions
      <4> QED BY <2>2, <3>3, <4>1 DEF Behind
    <3>6. Listed(p)'
      BY <2>2, <3>3, <3>4, <3>5 DEF Listed, NoneDirty
    <3>7. Knows(p)'
      BY <2>2, <3>3, <3>6 DEF Knows, Working
    <3> QED BY <3>2, <3>7
  <2> QED BY <2>1, <2>3, <2>4, <2>5, StepCompose
<1> QED BY <1>1, <1>2

\* What each command wants of a version.
LEMMA WantedCases ==
    ASSUME NEW p \in Procs
    PROVE  /\ op[p].kind = "run" => (Wanted(p) <=> applied[p][cur[p]].st = "none")
           /\ op[p].kind = "cli run" =>
                (Wanted(p) <=> /\ applied[p][cur[p]].st = "none"
                               /\ op[p].target = NoTarget \/ cur[p] <= op[p].target)
           /\ op[p].kind = "undo" =>
                (Wanted(p) <=> applied[p][cur[p]].st # "none" /\ cur[p] > op[p].target)
           /\ op[p].kind = "cli revert" =>
                (Wanted(p) <=> /\ applied[p][cur[p]].st # "none"
                               /\ op[p].target = NoTarget \/ cur[p] > op[p].target)
BY DEF Wanted

\* The loop passes a version, chooses it, or ends.
LEMMA TurnInv ==
    ASSUME MigInv, NEW p \in Procs, Turn(p) PROVE MigInv'
<1>1. MigType /\ MigType' /\ Frame(p)
  BY TurnFrame DEF MigInv
<1>2. /\ pc[p] = "loop" /\ op[p].kind \in Kinds /\ pend[p] = NoPend
      /\ UNCHANGED <<db, source, rows, schema, pend, op, applied, locks, again, ops, torn>>
  BY DEF Turn, MigInv, Shape, Working, Inside
<1>3. \/ /\ cur[p] \in Versions /\ source[p][cur[p]] # 0 /\ Wanted(p)
         /\ pc'[p] = "begin" /\ cur'[p] = cur[p]
      \/ /\ cur[p] \in Versions /\ (source[p][cur[p]] = 0 \/ (~Mismatch(p) /\ ~Wanted(p)))
         /\ cur'[p] = NextVersion(p) /\ pc'[p] = "loop"
      \/ /\ cur[p] \notin Versions
         /\ pc'[p] = "unlock" /\ cur'[p] = cur[p]
  BY <1>1 DEF Turn, MigType
<1>4. LockStep(p)
  BY <1>1, <1>2, <1>3, LockKept DEF MigInv, Inside
<1>5. RowStep(p)
  <2>1. Shape(p)'
    BY <1>2, <1>3 DEF Shape, Working, Inside, NoPend, NoRow
  <2> QED BY <1>2, <2>1, RowsKept DEF NoPend
<1>6. KnowStep(p)
  <2> SUFFICES ASSUME ~overlap' PROVE RowsTrue' /\ InOrder' /\ Knows(p)'
    BY DEF KnowStep
  <2>1. ~Unrecorded(p)
    BY <1>2 DEF Unrecorded
  <2>2. RowsTrue' /\ InOrder' /\ Knows(p)
    BY <1>1, <1>2, <2>1, TruthKept
  <2>3. NoneDirty /\ NoneDirty' /\ (Up(p)' <=> Up(p))
    BY <1>2, <2>2 DEF Knows, NoneDirty, Up
  <2>4. /\ \A v \in Versions : source[p][v] = 0 /\ p \notin IgnoreMissing => rows[v] = NoRow
        /\ \A v \in Versions : Ahead(p, v) => rows[v] = applied[p][v]
        /\ \A v \in Versions : Behind(p, v) => Handled(p, v)
        /\ Up(p) => cur[p] > 0
        /\ cur[p] \in Versions => rows[cur[p]] = applied[p][cur[p]]
    BY <1>2, <2>2 DEF Knows, Listed, InLoop, Working, Untouched
  <2>5. \A v \in Versions : Handled(p, v)' <=> Handled(p, v)
    BY <1>2, <2>3 DEF Handled
  <2>6. cur[p] \in Int /\ (\A v \in Versions : v \in Int) /\ op[p].target \in Int /\ N \in Nat
    BY <1>1, MigratorAssumption DEF MigType, Versions, OpSet
  <2>7. CASE pc'[p] = "begin"
    <3>1. Chosen(p)'
      <4>1. Wanted(p) /\ cur[p] \in Versions /\ cur'[p] = cur[p] /\ rows[cur[p]] \in RowSet
        BY <1>1, <1>3, <2>7 DEF MigType
      <4>2. rows[cur[p]].st \in {"none", "ok"} /\ (rows[cur[p]].st = "none" => rows[cur[p]] = NoRow)
        BY <2>3, <4>1 DEF NoneDirty, RowSet, NoRow
      <4> QED BY <1>2, <2>3, <2>4, <2>6, <4>1, <4>2 DEF Chosen, Wanted, Up, Kinds, NoTarget
    <3>2. cur'[p] = cur[p]
      BY <1>3, <2>7
    <3>3. \A v \in Versions : (Ahead(p, v)' <=> Ahead(p, v)) /\ (Behind(p, v)' <=> Behind(p, v))
      BY <2>3, <3>2 DEF Ahead, Behind
    <3>4. Listed(p)'
      BY <1>2, <2>3, <2>4, <2>5, <3>2, <3>3 DEF Listed, NoneDirty
    <3> QED BY <2>2, <2>3, <2>7, <3>1, <3>4 DEF Knows, Working
  <2>8. CASE pc'[p] = "loop"
    <3>1. cur[p] \in Versions /\ cur'[p] = IF Up(p) THEN cur[p] + 1 ELSE cur[p] - 1
      BY <1>3, <2>6, <2>8 DEF NextVersion, Sign
    <3>2. Handled(p, cur[p])
      <4>1. rows[cur[p]] = applied[p][cur[p]] /\ rows[cur[p]] \in RowSet /\ rows[cur[p]].st # "dirty"
        BY <1>1, <2>3, <2>4, <3>1 DEF MigType, NoneDirty
      <4>2. CASE source[p][cur[p]] = 0
        BY <2>4, <3>1, <4>2 DEF Handled
      <4>3. CASE source[p][cur[p]] # 0 /\ ~Mismatch(p) /\ ~Wanted(p)
        <5>1. rows[cur[p]] = NoRow \/ (rows[cur[p]].st = "ok" /\ rows[cur[p]] = Row("ok", rows[cur[p]].sum))
          BY <4>1 DEF RowSet, Row
        <5>2. CASE Up(p)
          <6>1. CASE rows[cur[p]] = NoRow
            <7>1. applied[p][cur[p]].st = "none"
              BY <4>1, <6>1 DEF NoRow
            <7>2. op[p].kind = "cli run"
              BY <1>2, <4>3, <5>2, <7>1, WantedCases DEF Kinds, Up
            <7>3. op[p].target # NoTarget
              BY <4>3, <7>1, <7>2, WantedCases
            <7>4. ~(cur[p] <= op[p].target)
              BY <4>3, <7>1, <7>2, WantedCases
            <7>5. cur[p] > op[p].target
              BY <2>6, <7>4
            <7> QED BY <4>3, <5>2, <7>2, <7>3, <7>5 DEF Handled
          <6>2. CASE rows[cur[p]].st = "ok"
            <7>1. rows[cur[p]].sum = source[p][cur[p]]
              BY <4>1, <4>3, <5>2, <6>2 DEF Mismatch
            <7>2. rows[cur[p]] = Row("ok", rows[cur[p]].sum)
              BY <5>1, <6>2 DEF NoRow
            <7> QED BY <4>3, <5>2, <7>1, <7>2 DEF Handled
          <6> QED BY <5>1, <6>1, <6>2
        <5>3. CASE ~Up(p)
          <6>1. CASE rows[cur[p]] = NoRow
            BY <4>3, <5>3, <6>1 DEF Handled
          <6>2. CASE rows[cur[p]].st = "ok"
            <7>1. ~(cur[p] > op[p].target)
              BY <1>2, <4>1, <4>3, <5>3, <6>2, WantedCases DEF Kinds, Up
            <7>2. cur[p] <= op[p].target
              BY <2>6, <7>1
            <7> QED BY <4>3, <5>3, <7>2 DEF Handled
          <6> QED BY <5>1, <6>1, <6>2
        <5> QED BY <5>2, <5>3
      <4> QED BY <1>3, <2>8, <4>2, <4>3
    <3>3. \A v \in Versions : /\ Ahead(p, v)' => Ahead(p, v)
                              /\ Behind(p, v)' => Behind(p, v) \/ v = cur[p]
                              /\ v = cur'[p] => Ahead(p, v)
      BY <2>3, <2>6, <3>1 DEF Ahead, Behind
    <3>4. Up(p) => cur'[p] > 0
      BY <2>4, <2>6, <3>1
    <3>5. Listed(p)'
      BY <1>2, <2>3, <2>4, <2>5, <3>2, <3>3, <3>4 DEF Listed, NoneDirty
    <3> QED BY <2>2, <2>3, <2>8, <3>5 DEF Knows, Working
  <2>9. CASE pc'[p] = "unlock"
    <3>1. Up(p) => \A v \in Versions : Behind(p, v)
      <4>1. cur[p] \notin Versions /\ cur[p] \in 0..N + 1
        BY <1>1, <1>3, <2>9 DEF MigType
      <4>2. Up(p) => cur[p] = N + 1
        BY <2>4, <2>6, <4>1 DEF Versions
      <4> QED BY <2>6, <4>2 DEF Behind, Versions
    <3>2. Up(p)' => \A v \in Versions : Handled(p, v)'
      BY <2>3, <2>4, <2>5, <3>1
    <3> QED BY <2>2, <2>3, <2>9, <3>2 DEF Knows, InLoop, Working
  <2> QED BY <1>3, <2>2, <2>7, <2>8, <2>9
<1> QED BY <1>1, <1>4, <1>5, <1>6, StepCompose

LEMMA LoopInv ==
    ASSUME MigInv, NEW p \in Procs, Loop(p) PROVE MigInv'
BY LoopTurns, FailInv, TurnInv DEF Loop, Inside

\* As long as rows, command and version are the same, so is what the loop knows of them.
LEMMA ListedKept ==
    ASSUME NEW p \in Procs, source' = source, rows' = rows, op'[p] = op[p], cur'[p] = cur[p],
           applied'[p] = applied[p], Untouched(p)' => Untouched(p), Listed(p)
    PROVE  Listed(p)' /\ (Chosen(p) => Chosen(p)') /\ (NoneDirty => NoneDirty')
<1>1. Up(p)' <=> Up(p)
  BY DEF Up
<1>2. \A v \in Versions : /\ Ahead(p, v)' <=> Ahead(p, v)
                          /\ Behind(p, v)' <=> Behind(p, v)
                          /\ Handled(p, v)' <=> Handled(p, v)
  BY <1>1 DEF Ahead, Behind, Handled
<1>3. Listed(p)'
  BY <1>1, <1>2 DEF Listed
<1>4. (Chosen(p) => Chosen(p)') /\ (NoneDirty => NoneDirty')
  BY <1>1 DEF Chosen, NoneDirty
<1> QED BY <1>3, <1>4

LEMMA BeginInv ==
    ASSUME MigInv, NEW p \in Procs, Begin(p) PROVE MigInv'
<1>1. MigType /\ MigType' /\ Frame(p)
  BY BeginFrame DEF MigInv
<1>2. /\ pc[p] = "begin" /\ pc'[p] = (IF db = "mysql" THEN "mark" ELSE "script1")
      /\ UNCHANGED <<db, source, rows, schema, op, cur, applied, locks, again, ops, torn>>
  BY <1>1 DEF Begin, Go, MigType, fixed
<1>3. /\ pend[p] = NoPend /\ cur[p] \in Versions /\ source[p][cur[p]] # 0 /\ op[p].kind \in Kinds
      /\ pend'[p] = [NoPend EXCEPT !.tx = ~OutsideTx(p)]
  <2>1. /\ pend[p] = NoPend /\ cur[p] \in Versions /\ source[p][cur[p]] # 0 /\ op[p].kind \in Kinds
    BY <1>2 DEF MigInv, Shape, Working, Inside
  <2>2. pend'[p] = [pend[p] EXCEPT !.tx = ~OutsideTx(p)]
    BY <1>1 DEF Begin, MigType
  <2> QED BY <2>1, <2>2
<1>4. (pend'[p].tx <=> ~OutsideTx(p)) /\ pend'[p].at = 0 /\ pend'[p].row = NoRow /\ pend'[p].done = 0
  BY <1>3 DEF NoPend
<1>5. LockStep(p)
  BY <1>1, <1>2, LockKept DEF MigInv, Inside
<1>6. RowStep(p)
  <2>1. (InTx(p)' <=> ~OutsideTx(p)) /\ ~RowWritten(p)'
    BY <1>2 DEF InTx, RowWritten, OutsideTx, ImplicitCommit
  <2>2. Shape(p)'
    BY <1>2, <1>3, <1>4, <2>1 DEF Shape, Working, Inside, NoRow
  <2> QED BY <1>2, <1>4, <2>2, RowsKept
<1>7. KnowStep(p)
  <2> SUFFICES ASSUME ~overlap' PROVE RowsTrue' /\ InOrder' /\ Knows(p)'
    BY DEF KnowStep
  <2>1. ~Unrecorded(p)
    BY <1>2 DEF Unrecorded
  <2>2. RowsTrue' /\ InOrder' /\ Knows(p)
    BY <1>1, <1>2, <2>1, TruthKept
  <2>3. NoneDirty /\ Listed(p) /\ Chosen(p) /\ Untouched(p)
    BY <1>2, <2>2 DEF Knows, InLoop, Working, Untouched
  <2>4. Listed(p)' /\ Chosen(p)' /\ NoneDirty'
    BY <1>2, <2>3, ListedKept
  <2> QED BY <1>2, <2>2, <2>4 DEF Knows
<1> QED BY <1>1, <1>5, <1>6, <1>7, StepCompose

\* The loop goes on, with the version behind it.
LEMMA ListedOn ==
    ASSUME NEW p \in Procs, NEW c \in Versions, c = cur[p], Listed(p), Handled(p, c)',
           \A v \in Versions \ {c} : rows'[v] = rows[v],
           NoneDirty', source' = source, op'[p] = op[p], applied'[p] = applied[p],
           cur'[p] = NextVersion(p), source[p][c] # 0
    PROVE  Listed(p)'
<1>1. cur[p] \in Int /\ \A v \in Versions : v \in Int
  BY MigratorAssumption DEF Versions
<1>2. (Up(p)' <=> Up(p)) /\ cur'[p] = IF Up(p) THEN cur[p] + 1 ELSE cur[p] - 1
  BY <1>1 DEF NextVersion, Sign, Up
<1>3. \A v \in Versions : /\ Ahead(p, v)' => Ahead(p, v) /\ v # cur[p]
                          /\ Behind(p, v)' => Behind(p, v) \/ v = cur[p]
                          /\ v = cur'[p] => Ahead(p, v) /\ v # cur[p]
  BY <1>1, <1>2 DEF Ahead, Behind
<1>4. \A v \in Versions \ {c} : Handled(p, v)' <=> Handled(p, v)
  BY <1>2 DEF Handled
<1>5. /\ \A v \in Versions : source[p][v] = 0 /\ p \notin IgnoreMissing => rows[v] = NoRow
      /\ \A v \in Versions : Ahead(p, v) => rows[v] = applied[p][v]
      /\ \A v \in Versions : Behind(p, v) => Handled(p, v)
      /\ Up(p) => cur[p] > 0
  BY DEF Listed
<1>6. \A v \in Versions : Ahead(p, v)' => rows'[v] = applied'[p][v]
  BY <1>3, <1>5
<1>7. \A v \in Versions : Behind(p, v)' => Handled(p, v)'
  BY <1>3, <1>4, <1>5
<1>8. Up(p)' => cur'[p] > 0
  BY <1>1, <1>2, <1>5
<1>9. cur'[p] \in Versions => rows'[cur'[p]] = applied'[p][cur'[p]]
  BY <1>3, <1>5
<1>10. \A v \in Versions : source'[p][v] = 0 /\ p \notin IgnoreMissing => rows'[v] = NoRow
  BY <1>5
<1> QED BY <1>6, <1>7, <1>8, <1>9, <1>10 DEF Listed, NoneDirty

LEMMA ElapsedInv ==
    ASSUME MigInv, NEW p \in Procs, Elapsed(p) PROVE MigInv'
<1>1. pc[p] = "elapsed" /\ cur[p] \in Versions /\ source[p][cur[p]] # 0 /\ Up(p) /\ pend[p] = NoPend
  BY DEF Elapsed, MigInv, Shape, Working
<1>2. MigType /\ MigType' /\ Frame(p)
  BY <1>1, ElapsedFrame DEF MigInv
<1>3. /\ pc'[p] = "loop" /\ cur'[p] = NextVersion(p) /\ op[p].kind \in Kinds
      /\ UNCHANGED <<db, source, rows, schema, pend, op, applied, locks, again, ops, torn>>
  <2>1. ~Single(p)
    BY <1>1 DEF Up, Single
  <2> QED BY <1>1, <1>2, <2>1 DEF Elapsed, Advance, Go, MigType, fixed, data, MigInv, Shape, Inside
<1>4. LockStep(p)
  BY <1>1, <1>2, <1>3, LockKept DEF MigInv, Inside
<1>5. RowStep(p)
  <2>1. Shape(p)'
    BY <1>1, <1>3 DEF Shape, Working, Inside, NoPend, NoRow
  <2> QED BY <1>1, <1>3, <2>1, RowsKept DEF NoPend
<1>6. KnowStep(p)
  <2> SUFFICES ASSUME ~overlap' PROVE RowsTrue' /\ InOrder' /\ Knows(p)'
    BY DEF KnowStep
  <2>1. ~Unrecorded(p)
    BY <1>1 DEF Unrecorded
  <2>2. RowsTrue' /\ InOrder' /\ Knows(p)
    BY <1>2, <1>3, <2>1, TruthKept
  <2>3. NoneDirty /\ Listed(p) /\ rows[cur[p]] = Row("ok", source[p][cur[p]])
    BY <1>1, <2>2 DEF Knows, InLoop
  <2>4. NoneDirty'
    BY <1>3, <2>3 DEF NoneDirty
  <2>5. PICK c : c = cur[p]
    OBVIOUS
  <2>6. Handled(p, c)'
    BY <1>1, <1>3, <2>3, <2>5 DEF Handled, Up
  <2>7. Listed(p)'
    BY <1>1, <1>3, <2>3, <2>4, <2>5, <2>6, ListedOn
  <2> QED BY <1>3, <2>2, <2>4, <2>7 DEF Knows, Working
<1> QED BY <1>2, <1>4, <1>5, <1>6, StepCompose

-----------------------------------------------------------------------------
(* The statements of apply() and revert().                                 *)

LEMMA NotBlocked ==
    ASSUME MigType, NEW p \in Procs, cur[p] \in Versions, ~WriteBlocked(p, cur[p])
    PROVE  \A q \in Procs \ {p} : pend[q].at # cur[p]
BY MigratorAssumption DEF WriteBlocked, NoPend, Versions

\* Beside the process inside, no script is unrecorded: its own row is true.
LEMMA OwnRowTrue ==
    ASSUME MigInv, ~overlap, NEW p \in Procs, pc[p] \in Inside, ~Unrecorded(p),
           cur[p] \in Versions \ torn
    PROVE  RowTrue(cur[p])
<1>1. \A q \in Procs : ~(Unrecorded(q) /\ cur[q] = cur[p])
  <2> SUFFICES ASSUME NEW q \in Procs, Unrecorded(q) PROVE FALSE
    OBVIOUS
  <2>1. pc[q] \in Inside
    BY DEF Unrecorded, Inside
  <2> QED BY <2>1, Alone DEF MigInv
<1> QED BY <1>1 DEF MigInv, OneAtATime, RowsTrue

\* The version has been applied or reverted: nothing else has changed, and the order of
\* the directory is kept.
LEMMA SettledRow ==
    ASSUME MigInv, ~overlap, NEW p \in Procs, Frame(p), NEW c \in Versions, c = cur[p],
           op'[p] = op[p], source[p][c] # 0, Listed(p), Chosen(p),
           rows'[c] = IF Up(p) THEN Row("ok", source[p][c]) ELSE NoRow,
           \A v \in Versions \ {c} : rows'[v] = rows[v]
    PROVE  Handled(p, c)' /\ InOrder' /\ NoneDirty'
<1>1. db' = db /\ source' = source /\ (Up(p)' <=> Up(p))
  BY DEF Frame, Up
<1>2. Handled(p, c)'
  BY <1>1 DEF Handled
<1>3. NoneDirty'
  BY DEF NoneDirty, Listed, Row, NoRow
<1>4. (\A v \in Versions : v \in Int) /\ op[p].target \in Int
  BY MigratorAssumption DEF MigInv, MigType, Versions, OpSet
<1>5. Up(p) => \A v \in Versions : v < c /\ source[p][v] # 0 => rows[v].st = "ok"
  <2> SUFFICES ASSUME Up(p), NEW v \in Versions, v < c, source[p][v] # 0 PROVE rows[v].st = "ok"
    OBVIOUS
  <2>1. Handled(p, v)
    BY DEF Listed, Behind
  <2>2. op[p].kind = "cli run" /\ op[p].target # NoTarget => c <= op[p].target
    BY DEF Chosen
  <2>3. c <= op[p].target => ~(v > op[p].target)
    BY <1>4
  <2>4. rows[v] = Row("ok", source[p][v])
    BY <2>1, <2>2, <2>3 DEF Handled
  <2> QED BY <2>4 DEF Row
<1>6. ~Up(p) => \A v \in Versions : v > c /\ source[p][v] # 0 => rows[v] = NoRow
  <2> SUFFICES ASSUME ~Up(p), NEW v \in Versions, v > c, source[p][v] # 0 PROVE rows[v] = NoRow
    OBVIOUS
  <2>1. Handled(p, v)
    BY DEF Listed, Behind
  <2>2. op[p].target = NoTarget \/ c > op[p].target
    BY DEF Chosen, Up
  <2>3. ~(v <= op[p].target)
    <3>1. v > 0 /\ c \in Int
      BY MigratorAssumption DEF Versions
    <3>2. PICK t \in Int : t = op[p].target
      BY <1>4
    <3>3. t = -1 \/ c > t
      BY <2>2, <3>2 DEF NoTarget
    <3>4. ~(v <= t)
      BY <1>4, <3>1, <3>3
    <3> QED BY <3>2, <3>4
  <2> QED BY <2>1, <2>3 DEF Handled
<1>7. InOrder'
  <2> SUFFICES ASSUME \A q, r \in Procs : source[q] = source[r], NEW v \in Versions, NEW w \in Versions,
                      \A q \in Procs : source[q][v] # 0 /\ source[q][w] # 0,
                      v < w, rows'[w].st = "ok"
               PROVE  rows'[v].st # "none"
    BY <1>1 DEF InOrder
  <2>1. CASE v = c
    <3>1. w # c /\ rows'[w] = rows[w] /\ w > c
      BY <1>4, <2>1
    <3>2. Up(p)
      BY <1>6, <3>1 DEF NoRow
    <3> QED BY <2>1, <3>2 DEF Row
  <2>2. CASE v # c /\ w = c
    <3>1. Up(p)
      BY <2>2 DEF NoRow
    <3> QED BY <1>5, <2>2, <3>1
  <2>3. CASE v # c /\ w # c
    BY <2>3 DEF MigInv, OneAtATime, InOrder
  <2> QED BY <2>1, <2>2, <2>3
<1> QED BY <1>2, <1>3, <1>7

LEMMA MarkInv ==
    ASSUME MigInv, NEW p \in Procs, Mark(p) PROVE MigInv'
<1>1. /\ pc[p] = "mark" /\ cur[p] \in Versions /\ source[p][cur[p]] # 0 /\ op[p].kind \in Kinds
      /\ db = "mysql" /\ InTx(p) /\ ~OutsideTx(p) /\ pend[p].tx /\ pend[p].at = 0 /\ pend[p].done = 0
  BY DEF Mark, MigInv, Shape, Working, Inside, InTx, OutsideTx, RowWritten
<1>2. MigType /\ MigType' /\ Frame(p)
  BY <1>1, MarkFrame DEF MigInv
<1>3. PICK r : r = IF Up(p) THEN NewRow(p, "dirty") ELSE SameRow(p, "dirty")
  OBVIOUS
<1>4. /\ pend' = [pend EXCEPT ![p] = [pend[p] EXCEPT !.at = cur[p], !.row = r]]
      /\ pc'[p] = "script1" /\ ~WriteBlocked(p, cur[p]) /\ (Up(p) => ~RowExists(p))
      /\ UNCHANGED <<db, source, rows, schema, op, cur, applied, locks, again, ops, torn>>
  <2>1. SetRow(p, r, "script1") /\ (Up(p) => ~RowExists(p))
    BY <1>3 DEF Mark
  <2>2. pend' = [pend EXCEPT ![p] = [pend[p] EXCEPT !.at = cur[p], !.row = r]] /\ rows' = rows
    BY <1>1, <2>1 DEF SetRow
  <2>3. /\ pc' = [pc EXCEPT ![p] = "script1"] /\ ~WriteBlocked(p, cur[p])
        /\ UNCHANGED <<db, source, schema, op, cur, applied, locks, again, ops, torn>>
    BY <2>1 DEF SetRow, Go, fixed
  <2> QED BY <1>2, <2>1, <2>2, <2>3 DEF MigType
<1>5. pend'[p].tx /\ pend'[p].at = cur[p] /\ pend'[p].row = r /\ pend'[p].done = 0
  <2>1. pend[p] \in PendSet /\ pend'[p] = [pend[p] EXCEPT !.at = cur[p], !.row = r]
    BY <1>2, <1>4 DEF MigType
  <2> QED BY <1>1, <2>1 DEF PendSet
<1>6. /\ Up(p) => r = Row("dirty", source[p][cur[p]])
      /\ r.st # "ok"
      /\ rows[cur[p]].st # "none" => r.st = "dirty"
      /\ Up(p) => rows[cur[p]].st = "none"
  <2>1. 0 \notin Versions
    BY DEF Versions
  <2>2. Seen(p, cur[p]) = rows[cur[p]]
    BY <1>1, <2>1 DEF Seen
  <2> QED BY <1>3, <1>4, <2>2 DEF NewRow, SameRow, RowExists, Row, NoRow
<1>7. LockStep(p)
  BY <1>1, <1>2, <1>4, LockKept DEF MigInv, Inside
<1>8. RowStep(p)
  <2>1. InTx(p)' /\ RowWritten(p)' /\ (Up(p)' <=> Up(p))
    BY <1>1, <1>4 DEF InTx, RowWritten, OutsideTx, Up
  <2>2. Shape(p)'
    BY <1>1, <1>4, <1>5, <1>6, <2>1 DEF Shape, Working, Inside
  <2>3. \A q \in Procs \ {p} : pend[q].at # cur[p]
    BY <1>1, <1>2, <1>4, NotBlocked
  <2>4. \A v \in Versions : RowBounds(v)'
    BY <1>4 DEF MigInv, RowBounds, Sheltered
  <2> QED BY <1>4, <1>5, <1>6, <2>1, <2>2, <2>3, <2>4 DEF RowStep
<1>9. KnowStep(p)
  <2> SUFFICES ASSUME ~overlap' PROVE RowsTrue' /\ InOrder' /\ Knows(p)'
    BY DEF KnowStep
  <2>1. ~Unrecorded(p)
    BY <1>1 DEF Unrecorded
  <2>2. RowsTrue' /\ InOrder' /\ Knows(p)
    BY <1>2, <1>4, <2>1, TruthKept
  <2>3. NoneDirty /\ Listed(p) /\ Chosen(p) /\ Untouched(p)
    BY <1>1, <2>2 DEF Knows, InLoop, Working, Untouched
  <2>4. Listed(p)' /\ Chosen(p)' /\ NoneDirty'
    BY <1>4, <2>3, ListedKept
  <2>5. r.st = "dirty"
    <3>1. CASE Up(p)
      BY <1>6, <3>1 DEF Row
    <3>2. CASE ~Up(p)
      BY <1>1, <1>6, <2>3, <3>2 DEF Listed, Chosen
    <3> QED BY <3>1, <3>2
  <2> QED BY <1>4, <1>5, <2>2, <2>4, <2>5 DEF Knows
<1> QED BY <1>2, <1>7, <1>8, <1>9, StepCompose

\* The script of a version outside a transaction.
LEMMA ScriptOutsideInv ==
    ASSUME MigInv, NEW p \in Procs, Script(p), OutsideTx(p) PROVE MigInv'
<1>1. /\ pc[p] = "script1" /\ cur[p] \in Versions /\ source[p][cur[p]] # 0 /\ op[p].kind \in Kinds
      /\ ~InTx(p) /\ pend[p].at = 0 /\ pend[p].done = 0
  BY DEF Script, MigInv, Shape, Working, Inside, InTx, RowWritten
<1>2. MigType /\ MigType' /\ Frame(p)
  BY <1>1, ScriptFrame DEF MigInv
<1>3. /\ pc'[p] = "record" /\ pend'[p] = NoPend
      /\ UNCHANGED <<db, source, rows, op, cur, applied, locks, again, ops, torn>>
      /\ schema' = [schema EXCEPT ![cur[p]] = @ + Sign(p) * 2]
  BY <1>1, <1>2 DEF Script, Flush, Go, MigType, fixed
<1>4. LockStep(p)
  BY <1>1, <1>2, <1>3, LockKept DEF MigInv, Inside
<1>5. OutsideTx(p)' /\ ~InTx(p)' /\ ~RowWritten(p)' /\ (Up(p)' <=> Up(p))
  BY <1>3 DEF OutsideTx, InTx, RowWritten, Up
<1>6. RowStep(p)
  <2>1. Shape(p)'
    BY <1>1, <1>3, <1>5 DEF Shape, Working, Inside, NoPend, NoRow
  <2>2. \A v \in Versions : RowBounds(v)'
    <3>1. ~Sheltered(cur[p])
      BY DEF Sheltered, OutsideTx
    <3> QED BY <1>2, <1>3, <3>1 DEF MigInv, MigType, RowBounds, Sheltered
  <2> QED BY <1>3, <2>1, <2>2 DEF RowStep, NoPend
<1>7. KnowStep(p)
  <2> SUFFICES ASSUME ~overlap' PROVE RowsTrue' /\ InOrder' /\ Knows(p)'
    BY DEF KnowStep
  <2>1. ~overlap /\ RowsTrue /\ InOrder /\ Knows(p)
    BY <1>2 DEF Frame, MigInv, OneAtATime
  <2>2. Listed(p) /\ Chosen(p) /\ Untouched(p) /\ NoneDirty
    BY <1>1, <2>1 DEF Knows, InLoop, Working, Untouched
  <2>3. Listed(p)' /\ Chosen(p)'
    BY <1>3, <2>2, ListedKept
  <2>4. cur[p] \notin torn => schema[cur[p]] = IF Up(p) THEN 0 ELSE 2
    <3>1. cur[p] \notin torn => RowTrue(cur[p])
      BY <1>1, <2>1, OwnRowTrue DEF Inside, Unrecorded
    <3>2. rows[cur[p]].st = IF Up(p) THEN "none" ELSE "ok"
      BY <1>1, <2>2 DEF Listed, Chosen, NoRow
    <3> QED BY <3>1, <3>2 DEF RowTrue
  <2>5. cur[p] \notin torn => schema'[cur[p]] = IF Up(p) THEN 2 ELSE 0
    BY <1>1, <1>2, <1>3, <2>4 DEF Sign, MigType
  <2>6. Knows(p)'
    <3>1. ~ImplicitCommit(p)'
      BY <1>5 DEF ImplicitCommit, OutsideTx
    <3> QED BY <1>3, <1>5, <2>3, <2>5, <3>1 DEF Knows
  <2>7. InOrder'
    BY <1>3, <2>1 DEF InOrder
  <2>8. RowsTrue'
    <3> SUFFICES ASSUME NEW v \in Versions \ torn
                 PROVE  RowTrue(v)' \/ \E q \in Procs : Unrecorded(q)' /\ cur'[q] = v
      BY <1>3 DEF RowsTrue
    <3>1. CASE v = cur[p]
      BY <1>3, <1>5, <3>1 DEF Unrecorded
    <3>2. CASE v # cur[p]
      <4>1. schema'[v] = schema[v] /\ rows'[v] = rows[v] /\ db' = db
        BY <1>2, <1>3, <3>2 DEF MigType
      <4>2. RowTrue(v)' <=> RowTrue(v)
        BY <4>1 DEF RowTrue
      <4>3. \A q \in Procs : Unrecorded(q) /\ cur[q] = v => Unrecorded(q)' /\ cur'[q] = v
        BY <1>2, <1>3, <3>2 DEF Frame, Stays, Unrecorded, OutsideTx
      <4> QED BY <2>1, <4>2, <4>3 DEF RowsTrue
    <3> QED BY <3>1, <3>2
  <2> QED BY <2>6, <2>7, <2>8
<1> QED BY <1>2, <1>4, <1>6, <1>7, StepCompose

\* A step on the current version leaves the truth of the other rows alone.
LEMMA TrueElsewhere ==
    ASSUME MigInv, ~overlap, NEW p \in Procs, Frame(p), NEW c \in Versions, c = cur[p], torn' = torn,
           \A v \in Versions \ {c} : rows'[v] = rows[v] /\ schema'[v] = schema[v],
           c \notin torn => RowTrue(c)'
    PROVE  RowsTrue'
<1> SUFFICES ASSUME NEW v \in Versions \ torn, v # c
             PROVE  RowTrue(v)' \/ \E q \in Procs : Unrecorded(q)' /\ cur'[q] = v
  BY DEF RowsTrue
<1>1. db' = db
  BY DEF Frame
<1>2. RowTrue(v)' <=> RowTrue(v)
  BY <1>1 DEF RowTrue
<1>3. \A q \in Procs : Unrecorded(q) /\ cur[q] = v => Unrecorded(q)' /\ cur'[q] = v
  BY <1>1 DEF Frame, Stays, Unrecorded, OutsideTx
<1> QED BY <1>2, <1>3 DEF MigInv, OneAtATime, RowsTrue

\* A statement of MySQL's DDL: it commits what came before it, and itself.
LEMMA ScriptCommitsInv ==
    ASSUME MigInv, NEW p \in Procs, Script(p), ImplicitCommit(p) PROVE MigInv'
<1>1. /\ pc[p] \in {"script1", "script2"} /\ cur[p] \in Versions /\ source[p][cur[p]] # 0
      /\ op[p].kind \in Kinds /\ db = "mysql" /\ cur[p] \in Ddl /\ ~OutsideTx(p)
      /\ pend[p].done = 0 /\ pend[p].at = (IF pc[p] = "script1" THEN cur[p] ELSE 0)
      /\ pc[p] = "script1" /\ Up(p) => pend[p].row = Row("dirty", source[p][cur[p]])
  BY DEF Script, MigInv, Shape, Working, Inside, InTx, RowWritten, ImplicitCommit, OutsideTx
<1>2. MigType /\ MigType' /\ Frame(p)
  BY <1>1, ScriptFrame DEF MigInv
<1>3. /\ pc'[p] = (IF pc[p] = "script1" THEN "script2" ELSE "record") /\ pend'[p] = NoPend
      /\ UNCHANGED <<db, source, op, cur, applied, locks, again, ops, torn>>
      /\ schema' = [schema EXCEPT ![cur[p]] = @ + Sign(p)]
      /\ rows' = IF pc[p] = "script2" THEN rows ELSE [rows EXCEPT ![cur[p]] = pend[p].row]
  <2>1. Flush(p, 1)
    BY <1>1 DEF Script
  <2>2. Sign(p) * (pend[p].done + 1) = Sign(p)
    BY <1>1 DEF Sign
  <2>3. cur[p] # 0
    BY <1>1 DEF Versions
  <2> QED BY <1>1, <1>2, <2>1, <2>2, <2>3 DEF Script, Flush, Go, MigType, fixed
<1>4. LockStep(p)
  BY <1>1, <1>2, <1>3, LockKept DEF MigInv, Inside
<1>5. /\ ImplicitCommit(p)' /\ ~OutsideTx(p)' /\ ~InTx(p)' /\ ~RowWritten(p)' /\ (Up(p)' <=> Up(p))
  BY <1>1, <1>3 DEF ImplicitCommit, OutsideTx, InTx, RowWritten, Up
<1>6. \A v \in Versions \ {cur[p]} : rows'[v] = rows[v] /\ schema'[v] = schema[v]
  BY <1>1, <1>2, <1>3 DEF MigType
<1>7. RowStep(p)
  <2>1. Shape(p)'
    BY <1>1, <1>3, <1>5 DEF Shape, Working, Inside, NoPend, NoRow
  <2>2. \A v \in Versions : RowBounds(v)'
    <3>1. ~Sheltered(cur[p])'
      BY <1>1, <1>3 DEF Sheltered
    <3> QED BY <1>3, <1>6, <3>1 DEF MigInv, RowBounds, Sheltered
  <2>3. \A v \in Versions : rows'[v] = rows[v] \/ \A q \in Procs \ {p} : pend[q].at # v
    <3>1. CASE pc[p] = "script2"
      BY <1>3, <3>1
    <3>2. CASE pc[p] = "script1"
      <4>1. pend[p].at = cur[p] /\ cur[p] # 0
        BY <1>1, <3>2 DEF Versions
      <4>2. \A q \in Procs \ {p} : pend[q].at # cur[p]
        BY <4>1 DEF MigInv, RowLocked
      <4> QED BY <1>6, <4>2
    <3> QED BY <1>1, <3>1, <3>2
  <2> QED BY <1>3, <2>1, <2>2, <2>3 DEF RowStep, NoPend
<1>8. KnowStep(p)
  <2> SUFFICES ASSUME ~overlap' PROVE RowsTrue' /\ InOrder' /\ Knows(p)'
    BY DEF KnowStep
  <2>1. ~overlap /\ RowsTrue /\ InOrder /\ Knows(p) /\ torn = {}
    BY <1>1, <1>2 DEF Frame, MigInv, OneAtATime, MigType
  <2>2. Listed(p) /\ Chosen(p)
    BY <1>1, <2>1 DEF Knows, InLoop, Working
  <2>3. PICK c : c = cur[p]
    OBVIOUS
  <2>4. rows'[c].st = "dirty" /\ (Up(p) => rows'[c].sum = source[p][c])
    <3>1. CASE pc[p] = "script1"
      BY <1>1, <1>2, <1>3, <2>1, <2>3, <3>1 DEF Knows, MigType, Row
    <3>2. CASE pc[p] = "script2"
      BY <1>1, <1>3, <2>1, <2>3, <3>2 DEF Knows
    <3> QED BY <1>1, <3>1, <3>2
  <2>5. schema'[c] = IF pc[p] = "script1" THEN 1 ELSE IF Up(p) THEN 2 ELSE 0
    <3>1. schema'[c] = schema[c] + Sign(p)
      BY <1>1, <1>2, <1>3, <2>3 DEF MigType
    <3>2. CASE pc[p] = "script1"
      <4>1. RowTrue(cur[p])
        BY <1>1, <2>1, <3>2, OwnRowTrue DEF Inside, Unrecorded
      <4>2. rows[cur[p]].st = IF Up(p) THEN "none" ELSE "ok"
        BY <1>1, <2>2, <3>2 DEF Listed, Untouched, Chosen, NoRow
      <4>3. schema[cur[p]] = IF Up(p) THEN 0 ELSE 2
        BY <4>1, <4>2 DEF RowTrue
      <4> QED BY <2>3, <3>1, <3>2, <4>3 DEF Sign
    <3>3. CASE pc[p] = "script2"
      <4>1. schema[c] = 1
        BY <1>1, <2>1, <2>3, <3>3 DEF Knows
      <4> QED BY <3>1, <3>3, <4>1 DEF Sign
    <3> QED BY <1>1, <3>2, <3>3
  <2>6. RowsTrue'
    <3>1. RowTrue(c)'
      BY <1>1, <1>3, <2>3, <2>4, <2>5 DEF RowTrue
    <3> QED BY <1>1, <1>2, <1>3, <1>6, <2>1, <2>3, <3>1, TrueElsewhere
  <2>7. InOrder'
    BY <1>3, <1>6, <2>1, <2>3, <2>4 DEF InOrder
  <2>8. Listed(p)' /\ Chosen(p)'
    <3>1. \A v \in Versions : (Ahead(p, v)' <=> Ahead(p, v)) /\ (Behind(p, v)' <=> Behind(p, v))
      BY <1>3, <1>5 DEF Ahead, Behind
    <3>2. cur[p] \in Int /\ \A v \in Versions : v \in Int
      BY <1>1, MigratorAssumption DEF Versions
    <3>3. ~Ahead(p, c) /\ ~Behind(p, c)
      BY <2>3, <3>2 DEF Ahead, Behind
    <3>4. \A v \in Versions \ {c} : Handled(p, v)' <=> Handled(p, v)
      BY <1>3, <1>5, <1>6, <2>3 DEF Handled
    <3>5. ~Untouched(p)'
      BY <1>1, <1>3, <1>5 DEF Untouched, Unrecorded
    <3>6. Listed(p)'
      BY <1>1, <1>3, <1>5, <1>6, <2>2, <2>3, <3>1, <3>3, <3>4, <3>5 DEF Listed
    <3>7. Chosen(p)'
      BY <1>3, <1>5, <2>2 DEF Chosen
    <3> QED BY <3>6, <3>7
  <2>9. Knows(p)'
    BY <1>1, <1>3, <1>5, <2>3, <2>4, <2>5, <2>8 DEF Knows
  <2> QED BY <2>6, <2>7, <2>9
<1> QED BY <1>2, <1>4, <1>7, <1>8, StepCompose

\* A statement of a script inside its transaction.
LEMMA ScriptInside ==
    ASSUME MigInv, NEW p \in Procs, Script(p), ~OutsideTx(p), ~ImplicitCommit(p) PROVE MigInv'
<1>1. /\ pc[p] \in {"script1", "script2"} /\ cur[p] \in Versions /\ source[p][cur[p]] # 0
      /\ op[p].kind \in Kinds /\ InTx(p) /\ pend[p].tx
      /\ pend[p].done = (IF pc[p] = "script1" THEN 0 ELSE 1)
  BY DEF Script, MigInv, Shape, Working, Inside, InTx
<1>2. MigType /\ MigType' /\ Frame(p)
  BY <1>1, ScriptFrame DEF MigInv
<1>3. /\ pc'[p] = (IF pc[p] = "script1" THEN "script2" ELSE "record")
      /\ UNCHANGED <<db, source, rows, schema, op, cur, applied, locks, again, ops, torn>>
      /\ pend'[p] = [pend[p] EXCEPT !.done = pend[p].done + 1]
  BY <1>1, <1>2 DEF Script, Go, MigType, fixed
<1>4. /\ pend'[p].tx /\ pend'[p].at = pend[p].at /\ pend'[p].row = pend[p].row
      /\ pend'[p].done = (IF pc[p] = "script1" THEN 1 ELSE 2)
  <2>1. pend[p] \in PendSet
    BY <1>2 DEF MigType
  <2> QED BY <1>1, <1>3, <2>1 DEF PendSet
<1>5. /\ ~OutsideTx(p)' /\ ~ImplicitCommit(p)' /\ InTx(p)' /\ (RowWritten(p)' <=> RowWritten(p))
      /\ (Up(p)' <=> Up(p))
  BY <1>1, <1>3 DEF InTx, RowWritten, OutsideTx, ImplicitCommit, Up
<1>6. LockStep(p)
  BY <1>1, <1>2, <1>3, LockKept DEF MigInv, Inside
<1>7. RowStep(p)
  <2>0. Shape(p)
    BY DEF MigInv
  <2>1. Shape(p)'
    BY <1>1, <1>3, <1>4, <1>5, <2>0 DEF Shape, Working, Inside
  <2>2. \A v \in Versions : RowBounds(v)'
    BY <1>3 DEF MigInv, RowBounds, Sheltered
  <2>3. pend[p].at # 0 /\ Up(p) => rows[pend[p].at].st = "none"
    BY DEF MigInv, RowLocked
  <2> QED BY <1>3, <1>4, <1>5, <2>1, <2>2, <2>3 DEF RowStep
<1>8. KnowStep(p)
  <2> SUFFICES ASSUME ~overlap' PROVE RowsTrue' /\ InOrder' /\ Knows(p)'
    BY DEF KnowStep
  <2>1. ~Unrecorded(p)
    BY <1>1 DEF Unrecorded
  <2>2. RowsTrue' /\ InOrder' /\ Knows(p)
    BY <1>2, <1>3, <2>1, TruthKept
  <2>3. Listed(p) /\ Chosen(p) /\ Untouched(p)
    BY <1>1, <2>2 DEF Knows, InLoop, Working, Untouched
  <2>4. Listed(p)' /\ Chosen(p)'
    BY <1>3, <2>3, ListedKept
  <2> QED BY <1>1, <1>3, <1>5, <2>2, <2>4 DEF Knows
<1> QED BY <1>2, <1>6, <1>7, <1>8, StepCompose


\* The row of the version, written inside its transaction.
LEMMA RecordInside ==
    ASSUME MigInv, NEW p \in Procs, Record(p), InTx(p) PROVE MigInv'
<1>1. /\ pc[p] = "record" /\ cur[p] \in Versions /\ source[p][cur[p]] # 0 /\ op[p].kind \in Kinds
      /\ ~OutsideTx(p) /\ ~ImplicitCommit(p) /\ pend[p].tx /\ pend[p].done = 2
      /\ pend[p].at = (IF db = "mysql" THEN cur[p] ELSE 0)
      /\ db = "mysql" /\ Up(p) => pend[p].row = Row("dirty", source[p][cur[p]])
  BY DEF Record, MigInv, Shape, Working, Inside, InTx, RowWritten
<1>2. MigType /\ MigType' /\ Frame(p) /\ cur[p] # 0
  BY <1>1, RecordFrame DEF MigInv, Versions
<1>3. PICK r : /\ r = IF Up(p) THEN Row("ok", source[p][cur[p]]) ELSE NoRow
               /\ SetRow(p, r, "commit")
               /\ Up(p) => rows[cur[p]].st = "none"
  <2>1. CASE ~Up(p)
    BY <2>1 DEF Record
  <2>2. CASE Up(p) /\ db = "mysql"
    <3>1. Seen(p, cur[p]) = Row("dirty", source[p][cur[p]])
      BY <1>1, <2>2 DEF Seen
    <3>2. SameRow(p, "ok") = Row("ok", source[p][cur[p]])
      BY <3>1 DEF SameRow, RowExists, Row
    <3>3. rows[cur[p]].st = "none"
      BY <1>1, <1>2, <2>2 DEF MigInv, RowLocked
    <3> QED BY <2>2, <3>2, <3>3 DEF Record
  <2>3. CASE Up(p) /\ db # "mysql"
    <3>1. Seen(p, cur[p]) = rows[cur[p]]
      BY <1>1, <1>2, <2>3 DEF Seen
    <3> QED BY <2>3, <3>1 DEF Record, NewRow, RowExists
  <2> QED BY <2>1, <2>2, <2>3
<1>4. /\ pend' = [pend EXCEPT ![p] = [pend[p] EXCEPT !.at = cur[p], !.row = r]]
      /\ pc'[p] = "commit" /\ ~WriteBlocked(p, cur[p])
      /\ UNCHANGED <<db, source, rows, schema, op, cur, applied, locks, again, ops, torn>>
  <2>1. pend' = [pend EXCEPT ![p] = [pend[p] EXCEPT !.at = cur[p], !.row = r]] /\ rows' = rows
    BY <1>1, <1>3 DEF SetRow
  <2>2. /\ pc' = [pc EXCEPT ![p] = "commit"] /\ ~WriteBlocked(p, cur[p])
        /\ UNCHANGED <<db, source, schema, op, cur, applied, locks, again, ops, torn>>
    BY <1>3 DEF SetRow, Go, fixed
  <2> QED BY <1>2, <2>1, <2>2 DEF MigType
<1>5. pend'[p].tx /\ pend'[p].at = cur[p] /\ pend'[p].row = r /\ pend'[p].done = 2
  <2>1. pend[p] \in PendSet /\ pend'[p] = [pend[p] EXCEPT !.at = cur[p], !.row = r]
    BY <1>2, <1>4 DEF MigType
  <2> QED BY <1>1, <2>1 DEF PendSet
<1>6. /\ ~OutsideTx(p)' /\ ~ImplicitCommit(p)' /\ InTx(p)' /\ RowWritten(p)' /\ (Up(p)' <=> Up(p))
  BY <1>1, <1>4 DEF InTx, RowWritten, OutsideTx, ImplicitCommit, Up
<1>7. LockStep(p)
  BY <1>1, <1>2, <1>4, LockKept DEF MigInv, Inside
<1>8. RowStep(p)
  <2>1. Shape(p)'
    BY <1>1, <1>3, <1>4, <1>5, <1>6 DEF Shape, Working, Inside
  <2>2. \A q \in Procs \ {p} : pend[q].at # cur[p]
    BY <1>1, <1>2, <1>4, NotBlocked
  <2>3. \A v \in Versions : RowBounds(v)'
    BY <1>4 DEF MigInv, RowBounds, Sheltered
  <2> QED BY <1>3, <1>4, <1>5, <1>6, <2>1, <2>2, <2>3 DEF RowStep
<1>9. KnowStep(p)
  <2> SUFFICES ASSUME ~overlap' PROVE RowsTrue' /\ InOrder' /\ Knows(p)'
    BY DEF KnowStep
  <2>1. ~Unrecorded(p)
    BY <1>1 DEF Unrecorded
  <2>2. RowsTrue' /\ InOrder' /\ Knows(p)
    BY <1>2, <1>4, <2>1, TruthKept
  <2>3. Listed(p) /\ Chosen(p) /\ Untouched(p)
    BY <1>1, <2>2 DEF Knows, InLoop, Working, Untouched
  <2>4. Listed(p)' /\ Chosen(p)'
    BY <1>4, <2>3, ListedKept
  <2> QED BY <1>4, <1>6, <2>2, <2>4 DEF Knows
<1> QED BY <1>2, <1>7, <1>8, <1>9, StepCompose

\* The row of a script that is in force already.
LEMMA RecordOutside ==
    ASSUME MigInv, NEW p \in Procs, Record(p), ~InTx(p) PROVE MigInv'
<1>1. /\ pc[p] = "record" /\ cur[p] \in Versions /\ source[p][cur[p]] # 0 /\ op[p].kind \in Kinds
      /\ OutsideTx(p) \/ ImplicitCommit(p)
      /\ ~pend[p].tx /\ pend[p].done = 0 /\ pend[p].at = 0 /\ pend[p].row = NoRow
  BY DEF Record, MigInv, Shape, Working, Inside, InTx, RowWritten
<1>2. MigType /\ MigType' /\ Frame(p) /\ cur[p] # 0
  BY <1>1, RecordFrame DEF MigInv, Versions
<1>3. PICK r : /\ r = IF ~Up(p) THEN NoRow ELSE IF db = "mysql" THEN SameRow(p, "ok") ELSE NewRow(p, "ok")
               /\ SetRow(p, r, "commit")
  BY DEF Record
<1>4. /\ pc'[p] = "commit" /\ ~WriteBlocked(p, cur[p])
      /\ UNCHANGED <<db, source, schema, pend, op, cur, applied, locks, again, ops, torn>>
      /\ rows' = [rows EXCEPT ![cur[p]] = r]
  BY <1>1, <1>2, <1>3 DEF SetRow, Go, MigType, fixed
<1>5. /\ (OutsideTx(p)' <=> OutsideTx(p)) /\ (ImplicitCommit(p)' <=> ImplicitCommit(p))
      /\ ~InTx(p)' /\ ~RowWritten(p)' /\ (Up(p)' <=> Up(p))
  BY <1>1, <1>4 DEF ImplicitCommit, OutsideTx, InTx, RowWritten, Up
<1>6. PICK c : c = cur[p]
  OBVIOUS
<1>7. rows'[c] = r /\ \A v \in Versions \ {c} : rows'[v] = rows[v] /\ schema'[v] = schema[v]
  BY <1>1, <1>2, <1>4, <1>6 DEF MigType
<1>8. LockStep(p)
  BY <1>1, <1>2, <1>4, LockKept DEF MigInv, Inside
<1>9. RowStep(p)
  <2>1. Shape(p)'
    BY <1>1, <1>4, <1>5 DEF Shape, Working, Inside, NoRow
  <2>2. \A v \in Versions : RowBounds(v)'
    <3>1. ~Sheltered(c)'
      BY <1>1, <1>4, <1>6 DEF Sheltered, OutsideTx, ImplicitCommit
    <3> QED BY <1>4, <1>7, <3>1 DEF MigInv, RowBounds, Sheltered
  <2>3. \A q \in Procs \ {p} : pend[q].at # c
    BY <1>1, <1>2, <1>4, <1>6, NotBlocked
  <2> QED BY <1>1, <1>4, <1>7, <2>1, <2>2, <2>3 DEF RowStep
<1>10. KnowStep(p)
  <2> SUFFICES ASSUME ~overlap' PROVE RowsTrue' /\ InOrder' /\ Knows(p)'
    BY DEF KnowStep
  <2>1. ~overlap /\ Knows(p)
    BY <1>2 DEF Frame, MigInv, OneAtATime
  <2>2. Listed(p) /\ Chosen(p)
    BY <1>1, <2>1 DEF Knows, InLoop, Working
  <2>3. rows'[c] = IF Up(p) THEN Row("ok", source[p][c]) ELSE NoRow
    <3>1. CASE Up(p) /\ db = "mysql"
      <4>1. ImplicitCommit(p)
        BY <1>1, <3>1 DEF OutsideTx
      <4>2. rows[c].st = "dirty" /\ rows[c].sum = source[p][c]
        BY <1>1, <1>6, <2>1, <3>1, <4>1 DEF Knows
      <4>3. Seen(p, c) = rows[c]
        BY <1>1, <1>2, <1>6 DEF Seen
      <4>4. SameRow(p, "ok") = Row("ok", source[p][c])
        BY <1>6, <4>2, <4>3 DEF SameRow, RowExists
      <4> QED BY <1>3, <1>7, <3>1, <4>4
    <3>2. CASE ~(Up(p) /\ db = "mysql")
      BY <1>3, <1>6, <1>7, <3>2 DEF NewRow
    <3> QED BY <3>1, <3>2
  <2>4. Handled(p, c)' /\ InOrder' /\ NoneDirty'
    BY <1>1, <1>2, <1>4, <1>6, <1>7, <2>1, <2>2, <2>3, SettledRow
  <2>5. RowsTrue'
    <3>1. c \notin torn => schema'[c] = IF Up(p) THEN 2 ELSE 0
      BY <1>1, <1>4, <1>6, <2>1 DEF Knows
    <3>2. c \notin torn => RowTrue(c)'
      BY <2>3, <3>1 DEF RowTrue, Row, NoRow
    <3> QED BY <1>1, <1>2, <1>4, <1>6, <1>7, <2>1, <3>2, TrueElsewhere
  <2>6. Listed(p)' /\ Chosen(p)'
    <3>1. \A v \in Versions : (Ahead(p, v)' <=> Ahead(p, v)) /\ (Behind(p, v)' <=> Behind(p, v))
      BY <1>4, <1>5 DEF Ahead, Behind
    <3>2. cur[p] \in Int /\ \A v \in Versions : v \in Int
      BY <1>1, MigratorAssumption DEF Versions
    <3>3. ~Ahead(p, c) /\ ~Behind(p, c)
      BY <1>6, <3>2 DEF Ahead, Behind
    <3>4. \A v \in Versions \ {c} : Handled(p, v)' <=> Handled(p, v)
      BY <1>4, <1>5, <1>7 DEF Handled
    <3>5. ~Untouched(p)'
      BY <1>4, <1>5 DEF Untouched, Unrecorded
    <3>6. Listed(p)'
      BY <1>1, <1>4, <1>5, <1>6, <1>7, <2>2, <3>1, <3>3, <3>4, <3>5 DEF Listed
    <3>7. Chosen(p)'
      BY <1>4, <1>5, <2>2 DEF Chosen
    <3> QED BY <3>6, <3>7
  <2>7. Knows(p)'
    BY <1>4, <1>5, <1>6, <2>3, <2>6 DEF Knows
  <2> QED BY <2>4, <2>5, <2>7
<1> QED BY <1>2, <1>8, <1>9, <1>10, StepCompose


LEMMA RecordInv ==
    ASSUME MigInv, NEW p \in Procs, Record(p) PROVE MigInv'
BY RecordInside, RecordOutside

\* The loop leaves the version it has just applied or reverted.
LEMMA CommitKnows ==
    ASSUME MigInv, ~overlap', NEW p \in Procs, Frame(p), NEW c \in Versions, c = cur[p],
           pc[p] = "commit", op'[p] = op[p], applied'[p] = applied[p], source[p][c] # 0, torn' = torn,
           \/ Up(p) /\ pc'[p] = "elapsed" /\ cur'[p] = c
           \/ ~Up(p) /\ pc'[p] = "unlock"
           \/ ~Up(p) /\ pc'[p] = "loop" /\ cur'[p] = NextVersion(p),
           rows'[c] = IF Up(p) THEN Row("ok", source[p][c]) ELSE NoRow,
           \A v \in Versions \ {c} : rows'[v] = rows[v] /\ schema'[v] = schema[v],
           c \notin torn => schema'[c] = IF Up(p) THEN 2 ELSE 0
    PROVE  RowsTrue' /\ InOrder' /\ Knows(p)'
<1>1. ~overlap /\ Listed(p) /\ Chosen(p) /\ db' = db /\ source' = source /\ (Up(p)' <=> Up(p))
  BY DEF Frame, MigInv, OneAtATime, Knows, InLoop, Working, Up
<1>2. Handled(p, c)' /\ InOrder' /\ NoneDirty'
  BY <1>1, SettledRow
<1>3. RowsTrue'
  <2>1. c \notin torn => RowTrue(c)'
    BY DEF RowTrue, Row, NoRow
  <2> QED BY <1>1, <2>1, TrueElsewhere
<1>4. Knows(p)'
  <2>1. CASE pc'[p] = "elapsed"
    <3>1. cur'[p] = c /\ Up(p)
      BY <2>1
    <3>2. \A v \in Versions : (Ahead(p, v)' <=> Ahead(p, v)) /\ (Behind(p, v)' <=> Behind(p, v))
      BY <1>1, <3>1 DEF Ahead, Behind
    <3>3. c \in Int /\ \A v \in Versions : v \in Int
      BY MigratorAssumption DEF Versions
    <3>4. ~Ahead(p, c) /\ ~Behind(p, c)
      BY <3>3 DEF Ahead, Behind
    <3>5. \A v \in Versions \ {c} : Handled(p, v)' <=> Handled(p, v)
      BY <1>1 DEF Handled
    <3>6. ~Untouched(p)'
      BY <2>1 DEF Untouched, Unrecorded
    <3>7. Listed(p)'
      BY <1>1, <1>2, <3>1, <3>2, <3>4, <3>5, <3>6 DEF Listed, NoneDirty
    <3> QED BY <1>1, <1>2, <2>1, <3>1, <3>7 DEF Knows, Working
  <2>2. CASE pc'[p] = "unlock"
    BY <1>1, <1>2, <2>2 DEF Knows, InLoop, Working
  <2>3. CASE pc'[p] = "loop"
    <3>1. cur'[p] = NextVersion(p)
      BY <2>3
    <3>2. Listed(p)'
      BY <1>1, <1>2, <3>1, ListedOn
    <3> QED BY <1>2, <2>3, <3>2 DEF Knows, Working
  <2> QED BY <2>1, <2>2, <2>3
<1> QED BY <1>2, <1>3, <1>4

LEMMA CommitInv ==
    ASSUME MigInv, NEW p \in Procs, Commit(p) PROVE MigInv'
<1>1. /\ pc[p] = "commit" /\ cur[p] \in Versions /\ source[p][cur[p]] # 0 /\ op[p].kind \in Kinds
      /\ pend[p].done = (IF InTx(p) THEN 2 ELSE 0)
      /\ pend[p].at = (IF InTx(p) THEN cur[p] ELSE 0)
      /\ InTx(p) => pend[p].row = IF Up(p) THEN Row("ok", source[p][cur[p]]) ELSE NoRow
  BY DEF Commit, MigInv, Shape, Working, Inside, RowWritten
<1>2. MigType /\ MigType' /\ Frame(p) /\ cur[p] # 0
  BY <1>1, CommitFrame DEF MigInv, Versions
<1>3. PICK c : c = cur[p]
  OBVIOUS
<1>4. /\ pend'[p] = NoPend
      /\ UNCHANGED <<db, source, op, applied, locks, again, ops, torn>>
      /\ \/ Up(p) /\ pc'[p] = "elapsed" /\ cur'[p] = c
         \/ ~Up(p) /\ pc'[p] = "unlock"
         \/ ~Up(p) /\ pc'[p] = "loop" /\ cur'[p] = NextVersion(p)
  BY <1>2, <1>3 DEF Commit, Flush, Advance, Go, MigType, fixed
<1>5. /\ \A v \in Versions \ {c} : rows'[v] = rows[v] /\ schema'[v] = schema[v]
      /\ rows'[c] = IF InTx(p) THEN IF Up(p) THEN Row("ok", source[p][c]) ELSE NoRow ELSE rows[c]
      /\ schema'[c] = IF ~InTx(p) THEN schema[c] ELSE IF Up(p) THEN schema[c] + 2 ELSE schema[c] - 2
  <2>1. Flush(p, 0) /\ schema[c] \in Int
    BY <1>1, <1>2, <1>3 DEF Commit, MigType
  <2>2. Sign(p) * (pend[p].done + 0) = IF ~InTx(p) THEN 0 ELSE IF Up(p) THEN 2 ELSE -2
    BY <1>1 DEF Sign
  <2>3. schema' = [schema EXCEPT ![c] = @ + (Sign(p) * (pend[p].done + 0))]
    BY <1>3, <2>1 DEF Flush
  <2>4. rows' = IF InTx(p) THEN [rows EXCEPT ![c] = IF Up(p) THEN Row("ok", source[p][c]) ELSE NoRow] ELSE rows
    BY <1>1, <1>2, <1>3, <2>1 DEF Flush
  <2> QED BY <1>1, <1>2, <1>3, <2>1, <2>2, <2>3, <2>4 DEF MigType
<1>6. LockStep(p)
  BY <1>1, <1>2, <1>4, LockKept DEF MigInv, Inside
<1>7. Up(p) /\ InTx(p) => rows[c].st = "none"
  BY <1>1, <1>2, <1>3 DEF MigInv, RowLocked
<1>8. RowStep(p)
  <2>1. Shape(p)'
    <3>1. Up(p)' <=> Up(p)
      BY <1>4 DEF Up
    <3> QED BY <1>1, <1>3, <1>4, <3>1 DEF Shape, Working, Inside, NoPend, NoRow
  <2>2. \A v \in Versions : RowBounds(v)'
    <3> SUFFICES ASSUME NEW v \in Versions, Sheltered(v)' PROVE RowBounds(v)'
      BY DEF RowBounds
    <3>1. Sheltered(v) /\ RowBounds(v) /\ schema[v] \in Int
      BY <1>2, <1>4 DEF Sheltered, MigInv, MigType
    <3>2. CASE v # c \/ ~InTx(p)
      BY <1>5, <3>1, <3>2 DEF RowBounds
    <3>3. CASE v = c /\ InTx(p)
      BY <1>5, <1>7, <3>1, <3>3 DEF RowBounds, Row, NoRow
    <3> QED BY <3>2, <3>3
  <2>3. InTx(p) => \A q \in Procs \ {p} : pend[q].at # c
    BY <1>1, <1>2, <1>3 DEF MigInv, RowLocked
  <2> QED BY <1>4, <1>5, <2>1, <2>2, <2>3 DEF RowStep, NoPend
<1>9. KnowStep(p)
  <2> SUFFICES ASSUME ~overlap' PROVE RowsTrue' /\ InOrder' /\ Knows(p)'
    BY DEF KnowStep
  <2>1. ~overlap /\ Knows(p)
    BY <1>2 DEF Frame, MigInv, OneAtATime
  <2>2. Listed(p) /\ Chosen(p)
    BY <1>1, <2>1 DEF Knows, InLoop, Working
  <2>3. rows'[c] = IF Up(p) THEN Row("ok", source[p][c]) ELSE NoRow
    BY <1>1, <1>3, <1>5, <2>1 DEF Knows
  <2>4. c \notin torn => RowTrue(c)
    BY <1>1, <1>3, <2>1, OwnRowTrue DEF Inside, Unrecorded
  <2>5. c \notin torn => schema'[c] = IF Up(p) THEN 2 ELSE 0
    <3>1. CASE InTx(p)
      <4>1. rows[c] = applied[p][c]
        BY <1>1, <1>3, <2>2, <3>1 DEF Listed, Untouched
      <4>2. rows[c].st = IF Up(p) THEN "none" ELSE "ok"
        BY <1>3, <2>2, <4>1 DEF Chosen, NoRow
      <4>3. c \notin torn => schema[c] = IF Up(p) THEN 0 ELSE 2
        BY <2>4, <4>2 DEF RowTrue
      <4> QED BY <1>5, <3>1, <4>3
    <3>2. CASE ~InTx(p)
      BY <1>5, <2>3, <2>4, <3>2 DEF RowTrue, Row, NoRow
    <3> QED BY <3>1, <3>2
  <2> QED BY <1>1, <1>2, <1>3, <1>4, <1>5, <2>3, <2>5, CommitKnows
<1> QED BY <1>2, <1>6, <1>8, <1>9, StepCompose


LEMMA ScriptInv ==
    ASSUME MigInv, NEW p \in Procs, Script(p) PROVE MigInv'
BY ScriptOutsideInv, ScriptCommitsInv, ScriptInside

-----------------------------------------------------------------------------
(* The invariant, and the theorems.                                        *)

LEMMA InitInv ==
    ASSUME Init PROVE MigInv
<1>1. MigType
  <2>1. 0 \in 0..N + 1 /\ 0 \in 0..MaxOps /\ 0 \in 0..MaxCrashes
    BY MigratorAssumption
  <2>2. /\ locks \in [Procs -> Nat] /\ again \in [Procs -> Nat] /\ schema \in [Versions -> Int]
        /\ cur \in [Procs -> 0..N + 1]
    BY <2>1 DEF Init
  <2>3. /\ rows \in [Versions -> RowSet] /\ pend \in [Procs -> PendSet] /\ op \in [Procs -> OpSet]
        /\ applied \in [Procs -> [Versions -> RowSet]]
    BY NoPendType DEF Init
  <2>4. pc \in [Procs -> Inside \cup {"idle", "lock", "done", "failed"}]
    BY DEF Init
  <2> QED BY <2>1, <2>2, <2>3, <2>4 DEF Init, MigType
<1>2. \A p \in Procs : pc[p] = "idle" /\ pend[p] = NoPend /\ locks[p] = 0 /\ again[p] = 0 /\ ops = 0
  BY DEF Init
<1>3. \A p \in Procs : LockCount(p)
  BY <1>2 DEF LockCount, Inside
<1>4. LockHeld /\ Together
  BY <1>2 DEF LockHeld, Together, Inside, Active
<1>5. \A p \in Procs : Shape(p)
  BY <1>2 DEF Shape, Working, Inside, NoPend, NoRow
<1>6. RowLocked
  BY <1>2 DEF RowLocked, NoPend
<1>7. \A v \in Versions : rows[v] = NoRow /\ schema[v] = 0
  BY DEF Init, NoRows
<1>8. \A v \in Versions : RowBounds(v) /\ RowTrue(v)
  BY <1>7 DEF RowBounds, RowTrue, NoRow
<1>9. RowsTrue /\ InOrder
  BY <1>7, <1>8 DEF RowsTrue, InOrder, NoRow
<1>10. \A p \in Procs : Knows(p)
  BY <1>2 DEF Knows, InLoop, Working
<1> QED BY <1>1, <1>3, <1>4, <1>5, <1>6, <1>8, <1>9, <1>10 DEF MigInv, OneAtATime

LEMMA StutterInv ==
    ASSUME MigInv, UNCHANGED vars PROVE MigInv'
<1>1. UNCHANGED <<db, source, locks, rows, schema, pend, pc, op, cur, applied, ops, crashes, overlap, again, torn>>
  BY DEF vars, fixed, data, proc
<1>2. MigType'
  BY <1>1 DEF MigInv, MigType
<1>3. (\A p \in Procs : LockCount(p)') /\ LockHeld' /\ Together'
  BY <1>1 DEF MigInv, LockCount, LockHeld, Together, Active, Locking
<1>4. \A p \in Procs : Stays(p)
  BY <1>1 DEF Stays
<1>5. \A p \in Procs : Shape(p)'
  BY <1>1, <1>4, ShapeStays DEF MigInv
<1>6. RowLocked'
  BY <1>1 DEF MigInv, RowLocked, Up
<1>7. \A v \in Versions : RowBounds(v)' /\ (RowTrue(v) => RowTrue(v)')
  BY <1>1 DEF MigInv, RowBounds, RowTrue, Sheltered
<1>8. OneAtATime'
  <2> SUFFICES ASSUME ~overlap PROVE OneAtATime'
    BY <1>1 DEF OneAtATime
  <2>1. RowsTrue /\ InOrder /\ \A p \in Procs : Knows(p)
    BY DEF MigInv, OneAtATime
  <2>2. \A p \in Procs : Knows(p)'
    BY <1>1, <1>4, <2>1, KnowsStays
  <2>3. InOrder'
    BY <1>1, <2>1 DEF InOrder
  <2>4. \A p \in Procs : Unrecorded(p) => Unrecorded(p)'
    BY <1>1 DEF Unrecorded, OutsideTx
  <2>5. RowsTrue'
    BY <1>1, <1>7, <2>1, <2>4 DEF RowsTrue
  <2> QED BY <2>2, <2>3, <2>5 DEF OneAtATime
<1> QED BY <1>2, <1>3, <1>5, <1>6, <1>7, <1>8 DEF MigInv

LEMMA NextInv ==
    ASSUME MigInv, [Next]_vars PROVE MigInv'
<1>1. CASE UNCHANGED vars
  BY <1>1, StutterInv
<1>2. ASSUME NEW p \in Procs, NEW k \in Kinds, NEW t \in Targets, Start(p, k, t) PROVE MigInv'
  BY <1>2, StartInv
<1>3. ASSUME NEW p \in Procs, Step(p) PROVE MigInv'
  BY <1>3, LockInv, CheckInv, ListInv, LoopInv, BeginInv, MarkInv, ScriptInv, RecordInv, CommitInv,
     ElapsedInv DEF Step
<1>4. ASSUME NEW p \in Procs, Fails(p) PROVE MigInv'
  BY <1>4, FailInv DEF Fails, Inside
<1>5. ASSUME NEW p \in Procs, Disconnect(p) \/ TryAgain(p) \/ Crash(p) PROVE MigInv'
  BY <1>5, EndInv
<1> QED BY <1>1, <1>2, <1>3, <1>4, <1>5 DEF Next

\* The inductive invariant.
THEOREM Invariance == Spec => []MigInv
<1>1. Init => MigInv
  BY InitInv
<1>2. MigInv /\ [Next]_vars => MigInv'
  BY NextInv
<1> QED BY <1>1, <1>2, PTL DEF Spec

LEMMA TypeHolds ==
    ASSUME MigInv PROVE TypeOK
<1>1. MigType
  BY DEF MigInv
<1>2. \A v \in Versions : rows[v].st \in {"none", "dirty", "ok"} /\ schema[v] \in Int
  BY <1>1 DEF MigType, RowSet, NoRow
<1>3. \A p \in Procs : pend[p].done \in 0..2 /\ pend[p].at \in 0..N
  <2> SUFFICES ASSUME NEW p \in Procs PROVE pend[p].done \in 0..2 /\ pend[p].at \in 0..N
    OBVIOUS
  <2>1. pend[p] \in PendSet
    BY <1>1 DEF MigType
  <2> QED BY <2>1 DEF PendSet
<1>4. \A p \in Procs : locks[p] \in 0..MaxOps /\ again[p] \in 0..MaxOps
  <2> SUFFICES ASSUME NEW p \in Procs PROVE locks[p] \in 0..MaxOps /\ again[p] \in 0..MaxOps
    OBVIOUS
  <2>1. locks[p] \in Nat /\ again[p] \in Nat /\ ops \in 0..MaxOps
    BY <1>1 DEF MigType
  <2>2. LockCount(p)
    BY DEF MigInv
  <2>3. pc[p] \in Inside \cup {"failed"} => pc[p] # "idle"
    BY DEF Inside
  <2> QED BY <2>1, <2>2, <2>3, MigratorAssumption DEF LockCount
<1> QED BY <1>1, <1>2, <1>3, <1>4 DEF MigType, TypeOK

\* A script without a transaction that is not recorded yet: what its process knows of it.
LEMMA UnrecordedKnown ==
    ASSUME MigInv, ~overlap, NEW p \in Procs, Unrecorded(p), cur[p] \notin torn
    PROVE  schema[cur[p]] \in {0, 2} /\ rows[cur[p]].st # "dirty"
<1>1. Knows(p) /\ Shape(p)
  BY DEF MigInv, OneAtATime
<1>2. pc[p] = "record" /\ ~InTx(p) /\ Untouched(p) /\ cur[p] \in Versions
  BY <1>1 DEF Unrecorded, InTx, Untouched, Shape, Working
<1>3. schema[cur[p]] \in {0, 2}
  BY <1>1, <1>2 DEF Knows
<1>4. Listed(p) /\ Chosen(p)
  BY <1>1, <1>2 DEF Knows, InLoop, Working
<1>5. rows[cur[p]].st # "dirty"
  BY <1>2, <1>4 DEF Listed, Chosen, NoRow
<1> QED BY <1>3, <1>5

LEMMA NeverTwiceHolds ==
    ASSUME MigInv PROVE NeverTwice
<1>1. \A v \in Versions : Sheltered(v) => schema[v] <= 2
  BY DEF MigInv, RowBounds
<1>2. ASSUME NEW v \in Versions, ~overlap, v \notin torn PROVE schema[v] \in 0..2
  <2>1. CASE RowTrue(v)
    <3>1. rows[v].st \in {"none", "dirty", "ok"}
      BY TypeHolds DEF TypeOK
    <3> QED BY <2>1, <3>1 DEF RowTrue
  <2>2. CASE ~RowTrue(v)
    <3>1. PICK p \in Procs : Unrecorded(p) /\ cur[p] = v
      BY <1>2, <2>2 DEF MigInv, OneAtATime, RowsTrue
    <3> QED BY <1>2, <3>1, UnrecordedKnown
  <2> QED BY <2>1, <2>2
<1> QED BY <1>1, <1>2 DEF NeverTwice

LEMMA BookkeepingHolds ==
    ASSUME MigInv PROVE Bookkeeping
<1> SUFFICES ASSUME NEW v \in Versions, ~overlap, v \notin torn
             PROVE  \/ RowTrue(v)
                    \/ rows[v].st # "dirty" /\ \E p \in Procs : Unrecorded(p) /\ cur[p] = v
  BY DEF Bookkeeping, RowTrue, Unrecorded
<1>1. RowTrue(v) \/ \E p \in Procs : Unrecorded(p) /\ cur[p] = v
  BY DEF MigInv, OneAtATime, RowsTrue
<1> QED BY <1>1, UnrecordedKnown

LEMMA RunCompleteHolds ==
    ASSUME MigInv PROVE RunComplete
<1> SUFFICES ASSUME NEW p \in Procs, pc[p] = "unlock", op[p].kind = "run", ~overlap, NEW v \in Versions
             PROVE  IF source[p][v] # 0 THEN rows[v] = Row("ok", source[p][v])
                    ELSE p \in IgnoreMissing \/ rows[v] = NoRow
  BY DEF RunComplete
<1>1. Handled(p, v)
  BY DEF MigInv, OneAtATime, Knows, Up
<1> QED BY <1>1 DEF Handled, Up

LEMMA DirtyBlocksHolds ==
    ASSUME MigInv PROVE DirtyBlocks
<1>1. \A p \in Procs : pc[p] \in Working \cup {"begin"} /\ ~overlap => Listed(p)
  BY DEF MigInv, OneAtATime, Knows, InLoop
<1> QED BY <1>1 DEF DirtyBlocks, Listed, Working

LEMMA LockKeptHolds ==
    ASSUME MigInv PROVE LockKeptByFailure
<1> SUFFICES ASSUME NEW p \in Procs, pc[p] = "done" PROVE locks[p] <= again[p]
  BY DEF LockKeptByFailure
<1>1. LockCount(p) /\ pc[p] \notin Inside \cup {"failed"} /\ again[p] \in Nat
  BY DEF MigInv, MigType, Inside
<1> QED BY <1>1 DEF LockCount

LEMMA InOrderHolds ==
    ASSUME MigInv PROVE InOrder
BY DEF MigInv, OneAtATime, InOrder

\* Every variable keeps its type, and the counters their bounds.
THEOREM TypeCorrect == Spec => []TypeOK
BY Invariance, TypeHolds, PTL

\* An up script takes effect at most once: in a transaction with its row whichever commands
\* and crashes meet, and under the migration lock for the scripts of PostgreSQL without a
\* transaction and for the DDL of MySQL, unless the script was cut off from its row.
THEOREM NeverAppliedTwice == Spec => []NeverTwice
BY Invariance, NeverTwiceHolds, PTL

\* _sqlx_migrations says what the schema holds, and only DDL of MySQL leaves a dirty row.
THEOREM RowsAreTrue == Spec => []Bookkeeping
BY Invariance, BookkeepingHolds, PTL

\* With equal directories, the versions in force are a prefix of the directory.
THEOREM AppliedInOrder == Spec => []InOrder
BY Invariance, InOrderHolds, PTL

\* When run() is about to return Ok under the lock, every version of its directory is on
\* record with its checksum, and no other unless it ignores the versions it misses.
THEOREM RunBringsUpToDate == Spec => []RunComplete
BY Invariance, RunCompleteHolds, PTL

\* A migrator that has returned Ok holds the lock at most once for every failed attempt
\* before it on the same connection.
THEOREM LocksGivenBack == Spec => []LockKeptByFailure
BY Invariance, LockKeptHolds, PTL

\* While a version is dirty, no process executes the script of another.
THEOREM DirtyStopsOthers == Spec => []DirtyBlocks
BY Invariance, DirtyBlocksHolds, PTL


\* For any number of processes, versions, crashes and directories: migrations run once, in
\* order and with their bookkeeping, run() ends up to date, a dirty version stops the others
\* and a lock is kept only by an attempt that failed.
THEOREM MigrationsAreExact == Spec => []MigrationsExact
BY Invariance, TypeHolds, NeverTwiceHolds, BookkeepingHolds, InOrderHolds, RunCompleteHolds,
   LockKeptHolds, DirtyBlocksHolds, PTL DEF MigrationsExact
=============================================================================
