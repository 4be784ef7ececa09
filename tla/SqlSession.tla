----------------------------- MODULE SqlSession -----------------------------
(***************************************************************************)
(* The server's side of a transaction, as far as the drivers rely on it,   *)
(* and the statements sqlx-core/src/transaction.rs sends to drive it.      *)
(*                                                                         *)
(* A session keeps the writes it can see, the durable ones, and a stack of *)
(* frames: BEGIN is the frame 0 and SAVEPOINT _sqlx_savepoint_n the frame  *)
(* n, each with the writes that were visible when it was made.  A write is *)
(* represented by whoever made it.                                         *)
(***************************************************************************)
EXTENDS Integers, Sequences, FiniteSets

CONSTANT Dialect

ASSUME DialectAssumption == Dialect \in {"sqlite", "postgres", "mysql"}

\* failed: PostgreSQL's aborted transaction, in which only a rollback helps.
NewSession == [frames |-> <<>>, data |-> {}, durable |-> {}, failed |-> FALSE]

InTransaction(s) == s.frames # <<>>

-----------------------------------------------------------------------------
(* begin_, commit_ and rollback_ansi_transaction_sql().                    *)

BeginSql(depth) ==
    IF depth = 0 THEN [verb |-> "BEGIN", name |-> 0]
                 ELSE [verb |-> "SAVEPOINT", name |-> depth]

CommitSql(depth) ==
    IF depth = 1 THEN [verb |-> "COMMIT", name |-> 0]
                 ELSE [verb |-> "RELEASE", name |-> depth - 1]

RollbackSql(depth) ==
    IF depth = 1 THEN [verb |-> "ROLLBACK", name |-> 0]
                 ELSE [verb |-> "ROLLBACK TO", name |-> depth - 1]

-----------------------------------------------------------------------------
(* What the server does with them.                                         *)

Named(s, n) == {i \in DOMAIN s.frames : s.frames[i].name = n}

\* The most recent frame of that name.
Latest(s, n) == CHOOSE i \in Named(s, n) : \A j \in Named(s, n) : j <= i

Accepts(s, q) ==
    CASE q.verb = "BEGIN"     -> ~s.failed /\ (Dialect = "sqlite" => ~InTransaction(s))
      [] q.verb = "SAVEPOINT" -> ~s.failed /\ (Dialect = "postgres" => InTransaction(s))
      [] q.verb = "RELEASE"   -> ~s.failed /\ Named(s, q.name) # {}
      [] q.verb = "ROLLBACK TO" -> Named(s, q.name) # {}
      [] OTHER                -> Dialect = "sqlite" => InTransaction(s)

Push(s, n) == [s EXCEPT !.frames = Append(@, [name |-> n, snap |-> s.data])]

Committed(s) ==
    LET kept == IF s.failed THEN s.durable ELSE s.data
    IN  [frames |-> <<>>, data |-> kept, durable |-> kept, failed |-> FALSE]

RolledBack(s) == [frames |-> <<>>, data |-> s.durable, durable |-> s.durable, failed |-> FALSE]

\* SQLite's outermost savepoint commits when it is released.
Released(s, n) ==
    IF Latest(s, n) = 1 THEN Committed(s)
    ELSE [s EXCEPT !.frames = SubSeq(@, 1, Latest(s, n) - 1)]

\* ROLLBACK TO keeps the savepoint itself.
RolledBackTo(s, n) ==
    [s EXCEPT !.frames = SubSeq(@, 1, Latest(s, n)),
              !.data = s.frames[Latest(s, n)].snap,
              !.failed = FALSE]

\* MySQL commits implicitly before BEGIN, replaces a savepoint of the same
\* name and ignores one outside a transaction; a second BEGIN is only a
\* warning to PostgreSQL.
Begun(s) == IF Dialect = "mysql" THEN Push(Committed(s), 0)
            ELSE IF InTransaction(s) THEN s ELSE Push(s, 0)

Saved(s, n) ==
    LET others == SelectSeq(s.frames, LAMBDA f : f.name # n)
    IN  IF Dialect # "mysql" THEN Push(s, n)
        ELSE IF InTransaction(s) THEN Push([s EXCEPT !.frames = others], n) ELSE s

Executed(s, q) ==
    CASE q.verb = "BEGIN"       -> Begun(s)
      [] q.verb = "SAVEPOINT"   -> Saved(s, q.name)
      [] q.verb = "COMMIT"      -> Committed(s)
      [] q.verb = "ROLLBACK"    -> RolledBack(s)
      [] q.verb = "RELEASE"     -> Released(s, q.name)
      [] q.verb = "ROLLBACK TO" -> RolledBackTo(s, q.name)

\* A rejected statement aborts PostgreSQL's transaction.
Rejected(s) == [s EXCEPT !.failed = (Dialect = "postgres" /\ InTransaction(s))]

Written(s, w) ==
    IF InTransaction(s) THEN [s EXCEPT !.data = @ \cup {w}]
    ELSE [s EXCEPT !.data = @ \cup {w}, !.durable = @ \cup {w}]
=============================================================================
