-------------------------- MODULE MCServices --------------------------
(***************************************************************************)
(* The components around the connections, each on a small instance: a      *)
(* behaviour is about one of them, and the others rest.                    *)
(***************************************************************************)
EXTENDS PgListener, PgCopy, PgAdvisoryLock, PgEstablish, MySqlEstablish, PgDescribe, BufferedSocket, AsyncStream, SqliteExplain, SqliteStatements, Migrator, CliMigrate, TestHarness, ChildPool, TLC

VARIABLE scene    \* which component this behaviour is about

TheFrames == <<2, 1, 3>>

\* SQL strings of one, two and three raw statements.
Piece(params, count, kind) == [params |-> params, rows |-> count, kind |-> kind]
ThePieces ==
    [q \in Strings |->
        CASE q = "one"  -> <<Piece(<<0>>, 2, "plain")>>
          [] q = "two"  -> <<Piece(<<0, 0>>, 1, "plain"), Piece(<<>>, 0, "empty"), Piece(<<0, 2>>, 0, "write")>>
          [] q = "late" -> <<Piece(<<1, 0>>, 1, "plain"), Piece(<<0, -1>>, 0, "late")>>]
TheArguments == {<<>>, <<"x", "y">>, <<"x", "y", "z">>}

\* Two versions; or the first one edited afterwards, and the second one not yet.
TheSources == {<<1, 1>>, <<2, 0>>}
\* None, everything, and the first version.
TheTargets == {-1, 0, 1}

TheHabits == {{"infer"}, {"timestamp"}, {"sequential", "infer"}}

-----------------------------------------------------------------------------
(* What SQLite 3.40 answers to EXPLAIN for some queries on                 *)
(*     create table t(a integer not null, b text)                          *)
(*     create table u(x integer not null, y text not null)                 *)
(* and the columns of the result that can be NULL by the meaning of SQL.   *)

ColumnOf(dt, nl) == [kind |-> "single", dt |-> dt, nl |-> nl]

TheRootBlocks ==
       (<<0, 2>> :> (0 :> ColumnOf("Integer", "no") @@ 1 :> ColumnOf("Text", "yes")))
    @@ (<<0, 3>> :> (0 :> ColumnOf("Integer", "no") @@ 1 :> ColumnOf("Text", "no")))

TheMayBeNull ==
    <<{2},
      {2},
      {2},
      {1},
      {2},
      {},
      {3},
      {1},
      {2},
      {2, 3},
      {2},
      {1},
      {},
      {3},
      {1},
      {1},
      {}>>

ThePrograms == <<
  \* select a, b from t
    <<
     <<"Init", 0, 8, 0, "">>, <<"OpenRead", 0, 2, 0, "">>, <<"Rewind", 0, 7, 0, "">>,
     <<"Column", 0, 0, 1, "">>, <<"Column", 0, 1, 2, "">>, <<"ResultRow", 1, 2, 0, "">>,
     <<"Next", 0, 3, 0, "">>, <<"Halt", 0, 0, 0, "">>, <<"Transaction", 0, 0, 2, "">>, <<"Goto",
     0, 1, 0, "">>>>
  \* select t.a, u.y from t left join u on u.x = t.a
  , <<
     <<"Init", 0, 31, 0, "">>, <<"OpenRead", 0, 2, 0, "">>, <<"OpenRead", 1, 3, 0, "">>,
     <<"Rewind", 0, 30, 0, "">>, <<"Once", 0, 15, 0, "">>, <<"OpenAutoindex", 2, 3, 0, "">>,
     <<"Blob", 10000, 1, 0, "">>, <<"Rewind", 1, 15, 0, "">>, <<"Column", 1, 0, 3, "">>,
     <<"Column", 1, 1, 4, "">>, <<"Rowid", 1, 5, 0, "">>, <<"MakeRecord", 3, 3, 2, "">>,
     <<"FilterAdd", 1, 0, 3, "">>, <<"IdxInsert", 2, 2, 0, "">>, <<"Next", 1, 8, 0, "">>,
     <<"Integer", 0, 6, 0, "">>, <<"Column", 0, 0, 7, "">>, <<"Affinity", 7, 1, 0, "">>,
     <<"Filter", 1, 26, 7, "">>, <<"SeekGE", 2, 26, 7, "">>, <<"IdxGT", 2, 26, 7, "">>,
     <<"Integer", 1, 6, 0, "">>, <<"Column", 0, 0, 8, "">>, <<"Column", 2, 1, 9, "">>,
     <<"ResultRow", 8, 2, 0, "">>, <<"Next", 2, 20, 0, "">>, <<"IfPos", 6, 29, 0, "">>,
     <<"NullRow", 2, 0, 0, "">>, <<"Goto", 0, 21, 0, "">>, <<"Next", 0, 4, 0, "">>, <<"Halt", 0,
     0, 0, "">>, <<"Transaction", 0, 0, 2, "">>, <<"Goto", 0, 1, 0, "">>>>
  \* select t.a, u.y from t left join u on u.rowid = t.a
  , <<
     <<"Init", 0, 16, 0, "">>, <<"OpenRead", 0, 2, 0, "">>, <<"OpenRead", 1, 3, 0, "">>,
     <<"Rewind", 0, 15, 0, "">>, <<"Integer", 0, 1, 0, "">>, <<"Column", 0, 0, 2, "">>,
     <<"SeekRowid", 1, 11, 2, "">>, <<"Integer", 1, 1, 0, "">>, <<"Column", 0, 0, 3, "">>,
     <<"Column", 1, 1, 4, "">>, <<"ResultRow", 3, 2, 0, "">>, <<"IfPos", 1, 14, 0, "">>,
     <<"NullRow", 1, 0, 0, "">>, <<"Goto", 0, 7, 0, "">>, <<"Next", 0, 4, 0, "">>, <<"Halt", 0,
     0, 0, "">>, <<"Transaction", 0, 0, 2, "">>, <<"Goto", 0, 1, 0, "">>>>
  \* select sum(a), count(*) from t
  , <<
     <<"Init", 0, 13, 0, "">>, <<"Null", 0, 1, 3, "">>, <<"OpenRead", 0, 2, 0, "">>, <<"Rewind",
     0, 8, 0, "">>, <<"Column", 0, 0, 4, "">>, <<"AggStep", 0, 4, 1, "sum">>, <<"AggStep", 0, 0,
     2, "count">>, <<"Next", 0, 4, 0, "">>, <<"AggFinal", 1, 1, 0, "sum">>, <<"AggFinal", 2, 0,
     0, "count">>, <<"Copy", 1, 5, 1, "">>, <<"ResultRow", 5, 2, 0, "">>, <<"Halt", 0, 0, 0,
     "">>, <<"Transaction", 0, 0, 2, "">>, <<"Goto", 0, 1, 0, "">>>>
  \* select a, b from t order by b
  , <<
     <<"Init", 0, 17, 0, "">>, <<"SorterOpen", 1, 4, 0, "">>, <<"OpenRead", 0, 2, 0, "">>,
     <<"Rewind", 0, 9, 0, "">>, <<"Column", 0, 0, 2, "">>, <<"Column", 0, 1, 1, "">>,
     <<"MakeRecord", 1, 2, 4, "">>, <<"SorterInsert", 1, 4, 1, "">>, <<"Next", 0, 4, 0, "">>,
     <<"OpenPseudo", 2, 5, 4, "">>, <<"SorterSort", 1, 16, 0, "">>, <<"SorterData", 1, 5, 2,
     "">>, <<"Column", 2, 0, 3, "">>, <<"Column", 2, 1, 2, "">>, <<"ResultRow", 2, 2, 0, "">>,
     <<"SorterNext", 1, 11, 0, "">>, <<"Halt", 0, 0, 0, "">>, <<"Transaction", 0, 0, 2, "">>,
     <<"Goto", 0, 1, 0, "">>>>
  \* select a from t limit 1 offset 4
  , <<
     <<"Init", 0, 13, 0, "">>, <<"Integer", 1, 1, 0, "">>, <<"Integer", 4, 2, 0, "">>,
     <<"MustBeInt", 2, 0, 0, "">>, <<"OffsetLimit", 1, 3, 2, "">>, <<"OpenRead", 0, 2, 0, "">>,
     <<"Rewind", 0, 12, 0, "">>, <<"IfPos", 2, 11, 1, "">>, <<"Column", 0, 0, 4, "">>,
     <<"ResultRow", 4, 1, 0, "">>, <<"DecrJumpZero", 1, 12, 0, "">>, <<"Next", 0, 7, 0, "">>,
     <<"Halt", 0, 0, 0, "">>, <<"Transaction", 0, 0, 2, "">>, <<"Goto", 0, 1, 0, "">>>>
  \* select coalesce(b, 'x'), a + 1, a || b from t
  , <<
     <<"Init", 0, 14, 0, "">>, <<"OpenRead", 0, 2, 0, "">>, <<"Rewind", 0, 13, 0, "">>,
     <<"Column", 0, 1, 1, "">>, <<"NotNull", 1, 6, 0, "">>, <<"String8", 0, 1, 0, "">>,
     <<"Column", 0, 0, 4, "">>, <<"Add", 5, 4, 2, "">>, <<"Column", 0, 0, 4, "">>, <<"Column",
     0, 1, 6, "">>, <<"Concat", 6, 4, 3, "">>, <<"ResultRow", 1, 3, 0, "">>, <<"Next", 0, 3, 0,
     "">>, <<"Halt", 0, 0, 0, "">>, <<"Transaction", 0, 0, 2, "">>, <<"Integer", 1, 5, 0, "">>,
     <<"Goto", 0, 1, 0, "">>>>
  \* select 1 union all select b from t
  , <<
     <<"Init", 0, 9, 0, "">>, <<"Integer", 1, 1, 0, "">>, <<"ResultRow", 1, 1, 0, "">>,
     <<"OpenRead", 0, 2, 0, "">>, <<"Rewind", 0, 8, 0, "">>, <<"Column", 0, 1, 1, "">>,
     <<"ResultRow", 1, 1, 0, "">>, <<"Next", 0, 5, 0, "">>, <<"Halt", 0, 0, 0, "">>,
     <<"Transaction", 0, 0, 2, "">>, <<"Goto", 0, 1, 0, "">>>>
  \* insert into t(a, b) values (?, ?) returning a, b
  , <<
     <<"Init", 0, 20, 0, "">>, <<"OpenWrite", 0, 2, 0, "">>, <<"Variable", 1, 2, 0, "">>,
     <<"Variable", 2, 3, 0, "">>, <<"NewRowid", 0, 1, 0, "">>, <<"HaltIfNull", 1299, 2, 2, "">>,
     <<"MakeRecord", 2, 2, 4, "">>, <<"Insert", 0, 4, 1, "">>, <<"SCopy", 2, 5, 0, "">>,
     <<"SCopy", 3, 6, 0, "">>, <<"MakeRecord", 5, 2, 7, "">>, <<"NewRowid", 2, 8, 0, "">>,
     <<"Insert", 2, 7, 8, "">>, <<"FkCheck", 0, 0, 0, "">>, <<"Rewind", 2, 19, 0, "">>,
     <<"Column", 2, 0, 5, "">>, <<"Column", 2, 1, 6, "">>, <<"ResultRow", 5, 2, 0, "">>,
     <<"Next", 2, 15, 0, "">>, <<"Halt", 0, 0, 0, "">>, <<"Transaction", 0, 1, 2, "">>,
     <<"OpenEphemeral", 2, 2, 0, "">>, <<"Goto", 0, 1, 0, "">>>>
  \* select last_insert_rowid(), cast(b as integer), date('now') from t
  , <<
     <<"Init", 0, 13, 0, "">>, <<"OpenRead", 0, 2, 0, "">>, <<"Rewind", 0, 12, 0, "">>,
     <<"Function", 0, 0, 1, "last_insert_rowid(0)">>, <<"Column", 0, 1, 2, "">>, <<"Cast", 2,
     68, 0, "">>, <<"Once", 0, 9, 0, "">>, <<"String8", 0, 5, 0, "">>, <<"Function", 1, 5, 4,
     "date(-1)">>, <<"Copy", 4, 3, 0, "">>, <<"ResultRow", 1, 3, 0, "">>, <<"Next", 0, 3, 0,
     "">>, <<"Halt", 0, 0, 0, "">>, <<"Transaction", 0, 0, 2, "">>, <<"Goto", 0, 1, 0, "">>>>
  \* select a, lag(a) over (order by a) from t
  , <<
     <<"Init", 0, 71, 0, "">>, <<"Null", 0, 1, 0, "">>, <<"InitCoroutine", 3, 21, 3, "">>,
     <<"SorterOpen", 6, 5, 0, "">>, <<"OpenRead", 0, 2, 0, "">>, <<"Rewind", 0, 12, 0, "">>,
     <<"Column", 0, 0, 5, "">>, <<"Column", 0, 0, 6, "">>, <<"Column", 0, 0, 4, "">>,
     <<"MakeRecord", 4, 3, 8, "">>, <<"SorterInsert", 6, 8, 4, "">>, <<"Next", 0, 6, 0, "">>,
     <<"OpenPseudo", 7, 9, 5, "">>, <<"SorterSort", 6, 20, 0, "">>, <<"SorterData", 6, 9, 7,
     "">>, <<"Column", 7, 0, 7, "">>, <<"Column", 7, 2, 6, "">>, <<"Column", 7, 1, 5, "">>,
     <<"Yield", 3, 0, 0, "">>, <<"SorterNext", 6, 14, 0, "">>, <<"EndCoroutine", 3, 0, 0, "">>,
     <<"OpenEphemeral", 1, 3, 0, "">>, <<"OpenDup", 2, 1, 0, "">>, <<"OpenDup", 3, 1, 0, "">>,
     <<"OpenDup", 4, 1, 0, "">>, <<"Integer", 1, 10, 0, "">>, <<"OpenDup", 8, 1, 0, "">>,
     <<"InitCoroutine", 3, 0, 3, "">>, <<"Yield", 3, 51, 0, "">>, <<"Copy", 5, 12, 0, "">>,
     <<"Copy", 6, 13, 0, "">>, <<"Copy", 7, 14, 0, "">>, <<"MakeRecord", 12, 3, 15, "">>,
     <<"NewRowid", 2, 16, 0, "">>, <<"Insert", 2, 15, 16, "">>, <<"Ne", 10, 40, 16, "">>,
     <<"Null", 0, 1, 0, "">>, <<"Rewind", 1, 1, 0, "">>, <<"Rewind", 4, 1, 0, "">>, <<"Goto", 0,
     50, 0, "">>, <<"Column", 4, 2, 17, "">>, <<"Next", 4, 42, 0, "">>, <<"AggValue", 1, 1, 2,
     "lag">>, <<"Null", 0, 2, 0, "">>, <<"Rowid", 1, 18, 0, "">>, <<"AddImm", 18, -1, 0, "">>,
     <<"SeekRowid", 8, 48, 18, "">>, <<"Column", 8, 2, 2, "">>, <<"Gosub", 11, 66, 0, "">>,
     <<"Next", 1, 50, 0, "">>, <<"Goto", 0, 28, 0, "">>, <<"Rewind", 2, 64, 0, "">>, <<"Column",
     4, 2, 17, "">>, <<"Next", 4, 54, 0, "">>, <<"AggValue", 1, 1, 2, "lag">>, <<"Null", 0, 2,
     0, "">>, <<"Rowid", 1, 18, 0, "">>, <<"AddImm", 18, -1, 0, "">>, <<"SeekRowid", 8, 60, 18,
     "">>, <<"Column", 8, 2, 2, "">>, <<"Gosub", 11, 66, 0, "">>, <<"Next", 1, 63, 0, "">>,
     <<"Goto", 0, 64, 0, "">>, <<"Goto", 0, 54, 0, "">>, <<"ResetSorter", 1, 0, 0, "">>,
     <<"Goto", 0, 70, 0, "">>, <<"Column", 1, 0, 19, "">>, <<"Copy", 2, 20, 0, "">>,
     <<"ResultRow", 19, 2, 0, "">>, <<"Return", 11, 0, 0, "">>, <<"Halt", 0, 0, 0, "">>,
     <<"Transaction", 0, 0, 2, "">>, <<"Goto", 0, 1, 0, "">>>>
  \* select b, max(a) from t group by b
  , <<
     <<"Init", 0, 43, 0, "">>, <<"SorterOpen", 1, 2, 0, "">>, <<"Integer", 0, 5, 0, "">>,
     <<"Null", 0, 8, 8, "">>, <<"Gosub", 7, 39, 0, "">>, <<"OpenRead", 0, 2, 0, "">>,
     <<"Rewind", 0, 12, 0, "">>, <<"Column", 0, 1, 10, "">>, <<"Column", 0, 0, 11, "">>,
     <<"MakeRecord", 10, 2, 12, "">>, <<"SorterInsert", 1, 12, 0, "">>, <<"Next", 0, 7, 0, "">>,
     <<"OpenPseudo", 2, 12, 2, "">>, <<"SorterSort", 1, 42, 0, "">>, <<"SorterData", 1, 12, 2,
     "">>, <<"Column", 2, 0, 9, "">>, <<"Compare", 8, 9, 1, "">>, <<"Jump", 18, 22, 18, "">>,
     <<"Move", 9, 8, 1, "">>, <<"Gosub", 6, 33, 0, "">>, <<"IfPos", 5, 42, 0, "">>, <<"Gosub",
     7, 39, 0, "">>, <<"Column", 2, 1, 13, "">>, <<"CollSeq", 14, 0, 0, "">>, <<"AggStep", 0,
     13, 2, "max">>, <<"If", 14, 27, 0, "">>, <<"Column", 2, 0, 1, "">>, <<"Integer", 1, 4, 0,
     "">>, <<"SorterNext", 1, 14, 0, "">>, <<"Gosub", 6, 33, 0, "">>, <<"Goto", 0, 42, 0, "">>,
     <<"Integer", 1, 5, 0, "">>, <<"Return", 6, 0, 0, "">>, <<"IfPos", 4, 35, 0, "">>,
     <<"Return", 6, 0, 0, "">>, <<"AggFinal", 2, 1, 0, "max">>, <<"Copy", 1, 15, 1, "">>,
     <<"ResultRow", 15, 2, 0, "">>, <<"Return", 6, 0, 0, "">>, <<"Null", 0, 1, 3, "">>,
     <<"Integer", 0, 4, 0, "">>, <<"Return", 7, 0, 0, "">>, <<"Halt", 0, 0, 0, "">>,
     <<"Transaction", 0, 0, 2, "">>, <<"Goto", 0, 1, 0, "">>>>
  \* with recursive c(n) as (select 1 union all select n + 1 from c where n < 3) select n from c
  , <<
     <<"Init", 0, 29, 0, "">>, <<"InitCoroutine", 1, 23, 2, "">>, <<"OpenPseudo", 1, 2, 1, "">>,
     <<"OpenEphemeral", 2, 1, 0, "">>, <<"Integer", 1, 3, 0, "">>, <<"MakeRecord", 3, 1, 4,
     "">>, <<"NewRowid", 2, 5, 0, "">>, <<"Insert", 2, 4, 5, "">>, <<"Rewind", 2, 22, 0, "">>,
     <<"NullRow", 1, 0, 0, "">>, <<"RowData", 2, 2, 0, "">>, <<"Delete", 2, 0, 0, "">>,
     <<"Column", 1, 0, 6, "">>, <<"Yield", 1, 0, 0, "">>, <<"Column", 1, 0, 4, "">>, <<"Ge", 7,
     21, 4, "">>, <<"Column", 1, 0, 4, "">>, <<"Add", 8, 4, 3, "">>, <<"MakeRecord", 3, 1, 4,
     "">>, <<"NewRowid", 2, 5, 0, "">>, <<"Insert", 2, 4, 5, "">>, <<"Goto", 0, 8, 0, "">>,
     <<"EndCoroutine", 1, 0, 0, "">>, <<"InitCoroutine", 1, 0, 2, "">>, <<"Yield", 1, 28, 0,
     "">>, <<"Copy", 6, 9, 0, "">>, <<"ResultRow", 9, 1, 0, "">>, <<"Goto", 0, 24, 0, "">>,
     <<"Halt", 0, 0, 0, "">>, <<"Integer", 3, 7, 0, "">>, <<"Integer", 1, 8, 0, "">>, <<"Goto",
     0, 1, 0, "">>>>
  \* select case when b is null then a else b end, not a, null from t where a in (select x from u)
  , <<
     <<"Init", 0, 28, 0, "">>, <<"OpenRead", 0, 2, 0, "">>, <<"Rewind", 0, 27, 0, "">>,
     <<"BeginSubrtn", 0, 1, 0, "">>, <<"Once", 0, 13, 0, "">>, <<"OpenEphemeral", 2, 1, 0, "">>,
     <<"OpenRead", 1, 3, 0, "">>, <<"Rewind", 1, 12, 0, "">>, <<"Column", 1, 0, 2, "">>,
     <<"MakeRecord", 2, 1, 3, "">>, <<"IdxInsert", 2, 3, 2, "">>, <<"Next", 1, 8, 0, "">>,
     <<"NullRow", 2, 0, 0, "">>, <<"Return", 1, 4, 1, "">>, <<"Column", 0, 0, 4, "">>,
     <<"Affinity", 4, 1, 0, "">>, <<"NotFound", 2, 26, 4, "">>, <<"Column", 0, 1, 8, "">>,
     <<"NotNull", 8, 21, 0, "">>, <<"Column", 0, 0, 5, "">>, <<"Goto", 0, 22, 0, "">>,
     <<"Column", 0, 1, 5, "">>, <<"Column", 0, 0, 8, "">>, <<"Not", 8, 6, 0, "">>, <<"Null", 0,
     7, 0, "">>, <<"ResultRow", 5, 3, 0, "">>, <<"Next", 0, 3, 0, "">>, <<"Halt", 0, 0, 0, "">>,
     <<"Transaction", 0, 0, 2, "">>, <<"Goto", 0, 1, 0, "">>>>
  \* delete from t where a = 1 returning b
  , <<
     <<"Init", 0, 27, 0, "">>, <<"Null", 0, 1, 0, "">>, <<"OpenRead", 0, 2, 0, "">>, <<"Rewind",
     0, 9, 0, "">>, <<"Column", 0, 0, 2, "">>, <<"Ne", 3, 8, 2, "">>, <<"Rowid", 0, 4, 0, "">>,
     <<"RowSetAdd", 1, 4, 0, "">>, <<"Next", 0, 4, 0, "">>, <<"OpenWrite", 0, 2, 0, "">>,
     <<"RowSetRead", 1, 21, 4, "">>, <<"NotExists", 0, 20, 4, "">>, <<"Copy", 4, 5, 0, "">>,
     <<"Column", 0, 0, 6, "">>, <<"Column", 0, 1, 7, "">>, <<"Delete", 0, 1, 0, "">>, <<"SCopy",
     7, 8, 0, "">>, <<"MakeRecord", 8, 1, 9, "">>, <<"NewRowid", 2, 10, 0, "">>, <<"Insert", 2,
     9, 10, "">>, <<"Goto", 0, 10, 0, "">>, <<"FkCheck", 0, 0, 0, "">>, <<"Rewind", 2, 26, 0,
     "">>, <<"Column", 2, 0, 8, "">>, <<"ResultRow", 8, 1, 0, "">>, <<"Next", 2, 23, 0, "">>,
     <<"Halt", 0, 0, 0, "">>, <<"Transaction", 0, 1, 2, "">>, <<"Integer", 1, 3, 0, "">>,
     <<"OpenEphemeral", 2, 1, 0, "">>, <<"Goto", 0, 1, 0, "">>>>
  \* select (select x from u where x = t.a) from t
  , <<
     <<"Init", 0, 19, 0, "">>, <<"OpenRead", 0, 2, 0, "">>, <<"Rewind", 0, 18, 0, "">>,
     <<"BeginSubrtn", 0, 2, 0, "">>, <<"Null", 0, 3, 3, "">>, <<"Integer", 1, 4, 0, "">>,
     <<"OpenRead", 1, 3, 0, "">>, <<"Rewind", 1, 14, 0, "">>, <<"Column", 1, 0, 5, "">>,
     <<"Column", 0, 0, 6, "">>, <<"Ne", 6, 13, 5, "">>, <<"Column", 1, 0, 3, "">>,
     <<"DecrJumpZero", 4, 14, 0, "">>, <<"Next", 1, 8, 0, "">>, <<"Return", 2, 4, 1, "">>,
     <<"Copy", 3, 1, 0, "">>, <<"ResultRow", 1, 1, 0, "">>, <<"Next", 0, 3, 0, "">>, <<"Halt",
     0, 0, 0, "">>, <<"Transaction", 0, 0, 2, "">>, <<"Goto", 0, 1, 0, "">>>>
  \* select x, 1.5, x'00' from u intersect select a, 1.5, x'00' from t
  , <<
     <<"Init", 0, 30, 0, "">>, <<"OpenEphemeral", 2, 3, 0, "">>, <<"OpenRead", 1, 3, 0, "">>,
     <<"Rewind", 1, 10, 0, "">>, <<"Column", 1, 0, 1, "">>, <<"Real", 0, 2, 0, "">>, <<"Blob",
     1, 3, 0, "">>, <<"MakeRecord", 1, 3, 4, "">>, <<"IdxInsert", 2, 4, 1, "">>, <<"Next", 1, 4,
     0, "">>, <<"OpenEphemeral", 3, 3, 0, "">>, <<"OpenRead", 0, 2, 0, "">>, <<"Rewind", 0, 19,
     0, "">>, <<"Column", 0, 0, 1, "">>, <<"Real", 0, 2, 0, "">>, <<"Blob", 1, 3, 0, "">>,
     <<"MakeRecord", 1, 3, 4, "">>, <<"IdxInsert", 3, 4, 1, "">>, <<"Next", 0, 13, 0, "">>,
     <<"Rewind", 2, 27, 0, "">>, <<"RowData", 2, 4, 0, "">>, <<"NotFound", 3, 26, 4, "">>,
     <<"Column", 2, 0, 5, "">>, <<"Column", 2, 1, 6, "">>, <<"Column", 2, 2, 7, "">>,
     <<"ResultRow", 5, 3, 0, "">>, <<"Next", 2, 20, 0, "">>, <<"Close", 3, 0, 0, "">>,
     <<"Close", 2, 0, 0, "">>, <<"Halt", 0, 0, 0, "">>, <<"Transaction", 0, 0, 2, "">>,
     <<"Goto", 0, 1, 0, "">>>> >>

-----------------------------------------------------------------------------
(* The composition.                                                        *)

Scenes == {"listener", "copy", "lock", "pg_login", "my_login", "describe", "socket", "stream", "explain", "statements", "migrate", "cli", "harness", "child"}

\* The other components rest in one of their initial states.  The two setters
\* of a listener are not both away from their defaults.
ServicesInit ==
    /\ scene \in Scenes
    /\ ListenerInit
    /\ IF scene = "listener" THEN eager_reconnect \/ ~ignore_close_event ELSE ~eager_reconnect /\ ~ignore_close_event
    /\ CopyInit
    /\ LockInit
    /\ EstablishInit
    /\ scene # "pg_login" => popts = [mode |-> "prefer", tls |-> TRUE, password |-> "right"] /\ pserver = [ssl |-> "S", cert |-> "valid", method |-> "scram"]
    /\ LoginInit
    /\ scene # "my_login" => mopts.mode = "preferred" /\ mopts.tls /\ mopts.password = "right" /\ ~mopts.cleartext /\ mserver = [ssl |-> TRUE, announced |-> "none", account |-> "sha256_password", cached |-> TRUE]
    /\ DescribeInit
    /\ SocketInit
    /\ StreamInit
    /\ scene # "stream" => script = <<"ok">>
    /\ ExplainInit
    /\ scene # "explain" => xquery = 1
    /\ StatementsInit
    /\ Init
    /\ scene # "migrate" => db = "postgres" /\ source = [p \in Procs |-> <<1, 1>>]
    /\ CliInit
    /\ scene # "cli" => habit = {"infer"}
    /\ HarnessInit
    /\ scene # "harness" => backend = "postgres"
    /\ ChildInit

OthersRest ==
    /\ scene' = scene
    /\ IF scene = "listener" THEN TRUE ELSE UNCHANGED listenerVars
    /\ IF scene = "copy" THEN TRUE ELSE UNCHANGED copyVars
    /\ IF scene = "lock" THEN TRUE ELSE UNCHANGED lockVars
    /\ IF scene = "pg_login" THEN TRUE ELSE UNCHANGED establish_vars
    /\ IF scene = "my_login" THEN TRUE ELSE UNCHANGED login_vars
    /\ IF scene = "describe" THEN TRUE ELSE UNCHANGED describe_vars
    /\ IF scene = "socket" THEN TRUE ELSE UNCHANGED socketVars
    /\ IF scene = "stream" THEN TRUE ELSE UNCHANGED streamVars
    /\ IF scene = "explain" THEN TRUE ELSE UNCHANGED xvars
    /\ IF scene = "statements" THEN TRUE ELSE UNCHANGED statement_vars
    /\ IF scene = "migrate" THEN TRUE ELSE UNCHANGED vars
    /\ IF scene = "cli" THEN TRUE ELSE UNCHANGED cli_vars
    /\ IF scene = "harness" THEN TRUE ELSE UNCHANGED harness_vars
    /\ IF scene = "child" THEN TRUE ELSE UNCHANGED child_vars

ServicesNext ==
    \/ scene = "listener" /\ ListenerNext /\ OthersRest
    \/ scene = "copy" /\ CopyNext /\ OthersRest
    \/ scene = "lock" /\ LockNext /\ OthersRest
    \/ scene = "pg_login" /\ EstablishNext /\ OthersRest
    \/ scene = "my_login" /\ LoginNext /\ OthersRest
    \/ scene = "describe" /\ DescribeNext /\ OthersRest
    \/ scene = "socket" /\ SocketNext /\ OthersRest
    \/ scene = "stream" /\ StreamNext /\ OthersRest
    \/ scene = "explain" /\ ExplainNext /\ OthersRest
    \/ scene = "statements" /\ StatementsNext /\ OthersRest
    \/ scene = "migrate" /\ Next /\ OthersRest
    \/ scene = "cli" /\ CliNext /\ OthersRest
    \/ scene = "harness" /\ HarnessNext /\ OthersRest
    \/ scene = "child" /\ ChildNext /\ OthersRest

all_vars == <<scene, listenerVars, copyVars, lockVars, establish_vars, login_vars, describe_vars, socketVars, streamVars, xvars, statement_vars, vars, cli_vars, harness_vars, child_vars>>

ServicesSpec == ServicesInit /\ [][ServicesNext]_all_vars

-----------------------------------------------------------------------------
(* Properties: what the components of the scene promise together.          *)

\* A COPY that was finished, aborted or refused leaves a connection on which
\* the next call gets its own answer, and loads what it was given.  Where the
\* code lets an answer go uncounted (a lapse), at most one is, and then the
\* other promises end, for the pool too: the drop of a copy_out stream leaves
\* a connection that copy.rs:50-55 takes for usable.
CopyInSync == scene = "copy" => UnreadCounted /\ ResultsOwn /\ CopyLoads /\ PooledInSync

\* Client and server agree, in both drivers, on whether the login succeeded, on
\* TLS, on the password and on whose turn it is.
LoginsAgree ==
    /\ scene = "pg_login" => EstablishedInSync /\ EncryptionAgreed /\ PasswordDecides /\ NobodyStuck
    /\ scene = "my_login" => LoginInSync /\ LoginNotStuck /\ RightPasswordAccepted

\* What describe() says of types and of nullable columns is what the catalog
\* and the query plan say: PostgreSQL's caches, SQLite's walk over the bytecode.
DescribedFaithfully ==
    /\ scene = "describe" => CachesFaithful /\ CachesPaired
    /\ scene = "explain" => NullableSound /\ CutsLoseNothing /\ GasSuffices

\* The statements of a SQL string run once each, in order, with their own
\* arguments; a dropped iteration leaves none running, and a locked table is
\* waited for.  The values a future yields reach its stream once and in order.
StatementsOnce ==
    /\ scene = "statements" => EachOnceInOrder /\ BoundToOwn /\ NoneLeftRunning /\ SleepsWhileHeld
    /\ scene = "stream" => NeverReplaced /\ YieldedInOrder

\* Tests that run at the same time do not see each other's databases, and their
\* pools share the connections of the parent pool, whose limit close() raises by
\* one for each idle connection that it drains.  On the command line `migrate
\* add` keeps one kind of migration and `database setup` ends migrated.
DatabasesReady ==
    /\ scene = "harness" => DatabaseFresh /\ DatabaseBookkept
    /\ scene = "child" => PermitsAccounted /\ LimitShared
    /\ scene = "cli" => AllOrNoneReversible /\ SetUpMeansMigrated

\* No step takes back what an earlier one promised: a loss is reported before
\* later notifications, a failed test keeps its database, a stream that ends
\* has executed everything, and a new migration sorts after the others.
NothingTakenBack ==
    [][LossReported /\ FailureKept /\ EndsComplete /\ NewestSortsLast]_all_vars
=============================================================================
