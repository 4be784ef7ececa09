--------------------------- MODULE SqliteExplain ---------------------------
(***************************************************************************)
(* explain() of sqlx-sqlite/src/connection/explain.rs: types and           *)
(* nullability of the columns of a query, found by executing the query's   *)
(* EXPLAIN program over types instead of values.  A jump that depends on   *)
(* data forks a branch; a branch is cut at its third visit of an           *)
(* instruction, or when its memory has been seen.                          *)
(*                                                                         *)
(* When explain() has its answer, a walk follows the same program through  *)
(* any sequence of jumps, with none of the limits, and is compared with    *)
(* the answer.                                                             *)
(***************************************************************************)
EXTENDS Integers, Sequences, FiniteSets, TLC

CONSTANTS
    Programs,      \* query |-> the rows of EXPLAIN: <<opcode, p1, p2, p3, p4>>
    RootBlocks,    \* <<database, page>> |-> column |-> type: root_block_columns()
    MayBeNull,     \* query |-> the columns that can be NULL, by the meaning of the SQL
    Gas            \* MAX_TOTAL_INSTRUCTION_COUNT

MaxLoopCount == 2

VARIABLES
    xquery,     \* the query
    branches,   \* BranchList.states, a stack
    seen,       \* BranchList.visited_branch_state
    at,         \* the branch being executed, or NoBranch
    gas,        \* instructions left
    results,    \* result_states
    answer,     \* the columns' types and nullability, when done
    walk        \* the memory of the walk, or NoMem

xvars == <<xquery, branches, seen, at, gas, results, answer, walk>>

-----------------------------------------------------------------------------
(* Memory: registers, cursors, tables.                                     *)

\* nullable is "yes", "no", or "none" when unknown.
SingleReg(dt, nl) == [kind |-> "single", dt |-> dt, nl |-> nl]
RecordReg(cols) == [kind |-> "record", cols |-> cols]
IntReg(n) == [kind |-> "int", n |-> n]

Default == SingleReg("Null", "none")
NullType == SingleReg("Null", "yes")

\* IntMap
EmptyMap == <<>>
Insert(map, k, v) == (k :> v) @@ map
RemoveKey(map, k) == [j \in DOMAIN map \ {k} |-> map[j]]
Has(map, k) == k \in DOMAIN map

Mem0 == [i |-> 0, r |-> EmptyMap, p |-> EmptyMap, t |-> EmptyMap]
NoMem == [Mem0 EXCEPT !.i = -1]
NoBranch == [visited |-> EmptyMap, mem |-> NoMem]

Program == Programs[xquery]
Size == Len(Program)
Instr(i) == Program[i + 1]
Op(i) == Instr(i)[1]

\* map_to_datatype(), map_to_nullable(), map_to_columntype()
DataType(v) == CASE v.kind = "single" -> v.dt [] v.kind = "int" -> "Integer" [] OTHER -> "Null"
Nullable(v) == CASE v.kind = "single" -> v.nl [] v.kind = "int" -> "no" [] OTHER -> "none"
ColumnType(v) == IF v.kind = "int" THEN SingleReg("Integer", "no") ELSE v

RegType(m, k) == IF Has(m.r, k) THEN ColumnType(m.r[k]) ELSE Default

\* CursorDataType: columns() and is_empty()
Columns(m, c) ==
    LET cur == m.p[c] IN
    CASE cur.kind = "normal" -> IF Has(m.t, cur.n) THEN m.t[cur.n].cols ELSE EmptyMap
      [] OTHER -> IF Has(m.r, cur.n) /\ m.r[cur.n].kind = "record" THEN m.r[cur.n].cols ELSE EmptyMap

IsEmpty(m, c) ==
    LET cur == m.p[c] IN
    CASE cur.kind = "normal" -> IF Has(m.t, cur.n) THEN m.t[cur.n].empty ELSE "yes"
      [] OTHER -> "no"

\* table_mut()
OwnTable(m, c) == Has(m.p, c) /\ m.p[c].kind = "normal" /\ Has(m.t, m.p[c].n)
SetTable(m, c, tab) == [m EXCEPT !.t[m.p[c].n] = tab]

AffinityToType(a) ==
    CASE a = 65 -> "Blob" [] a = 66 -> "Text" [] a = 67 -> "Numeric"
      [] a = 68 -> "Integer" [] a = 69 -> "Float" [] OTHER -> "Null"

OpcodeToType(op) ==
    CASE op = "Real" -> "Float" [] op = "Blob" -> "Blob" [] op = "String8" -> "Text"
      [] op \in {"NewRowid", "Rowid", "Count"} -> "Integer" [] OTHER -> "Null"

-----------------------------------------------------------------------------
(* One instruction.  The outcome: branches pushed, in this order; the      *)
(* state the branch goes on with, if it does; the row it has published.    *)

Outcome(push, go, out) == [push |-> push, go |-> go, out |-> out]
GoOn(m) == Outcome(<<>>, <<m>>, <<>>)
Fork(push, go) == Outcome(push, go, <<>>)
Stop == Outcome(<<>>, <<>>, <<>>)

Jump(m, i) == [m EXCEPT !.i = i]
NextOf(m) == [m EXCEPT !.i = @ + 1]
Set(m, k, v) == [m EXCEPT !.r = Insert(@, k, v)]
NotNullNow(m, k) ==
    IF Has(m.r, k) /\ m.r[k].kind = "single" THEN [m EXCEPT !.r[k].nl = "no"] ELSE m

Opt(cond, m) == IF cond THEN <<m>> ELSE <<>>

\* goto p2 or next instruction
BothWays ==
    {"DecrJumpZero", "ElseEq", "Eq", "Filter", "Found", "Ge", "Gt", "IdxGE", "IdxGT", "IdxLE",
     "IdxLT", "IfNoHope", "IfNot", "IfNotOpen", "IfNotZero", "IfNullRow", "IfSmaller",
     "IncrVacuum", "IsNullOrType", "Le", "Lt", "Ne", "Next", "NoConflict", "NotExists", "Once",
     "Prev", "Program", "RowSetRead", "RowSetTest", "SeekGE", "SeekGT", "SeekLE", "SeekLT",
     "SeekRowid", "SeekScan", "SequenceTest", "SorterNext", "VFilter", "VNext"}

MaybeNull(m, k) == Has(m.r, k) /\ Nullable(m.r[k]) # "no"
MaybeNotNull(m, k) == Has(m.r, k) /\ DataType(m.r[k]) # "Null"

ExecIsNull(m, p1, p2) ==
    Fork(Opt(MaybeNull(m, p1), Jump(Set(m, p1, Default), p2)),
         Opt(MaybeNotNull(m, p1), NextOf(NotNullNow(m, p1))))

ExecNotNull(m, p1, p2) ==
    Fork(Opt(MaybeNotNull(m, p1), Jump(NotNullNow(m, p1), p2)),
         Opt(MaybeNull(m, p1), NextOf(Set(m, p1, Default))))

ExecIf(m, p1, p2, p3) ==
    LET known == Has(m.r, p1) /\ m.r[p1].kind = "int"
        note(mm, n) == IF p3 = 0 THEN Set(mm, p1, IntReg(n)) ELSE mm
    IN  Fork(Opt(known => m.r[p1].n # 0, Jump(note(m, 1), p2)),
             Opt(known => m.r[p1].n = 0, NextOf(note(m, 0))))

\* loop: this branch has been here before.
ExecIfPos(m, p1, p2, loop) ==
    LET known == Has(m.r, p1) /\ m.r[p1].kind = "int"
        less == IF known THEN Set(m, p1, IntReg(m.r[p1].n - 1)) ELSE m
    IN  Fork(Opt((known => m.r[p1].n >= 1) \/ loop, Jump(less, p2)),
             CASE known => m.r[p1].n < 1 -> <<NextOf(m)>>
               [] (~(known => m.r[p1].n < 1)) /\ loop ->
                      <<NextOf(IF known THEN Set(m, p1, SingleReg("Integer", "no")) ELSE m)>>
               [] OTHER -> <<>>)


\* Rewind, Last, Sort, SorterSort
ExecRewind(m, p1, p2) ==
    IF p2 = 0 THEN GoOn(NextOf(m))
    ELSE IF ~Has(m.p, p1) THEN Stop
    ELSE LET emptied == IF OwnTable(m, p1)
                        THEN SetTable(m, p1, [m.t[m.p[p1].n] EXCEPT !.empty = "yes"]) ELSE m
         IN  Fork(Opt(IsEmpty(m, p1) # "no", Jump(emptied, p2)),
                  Opt(IsEmpty(m, p1) # "yes", NextOf(m)))

\* EndCoroutine, Return, Yield: r[p1] holds the address to go back to.
Holds(m, p1) == Has(m.r, p1) /\ m.r[p1].kind = "int"
Drop(m, p1) == [m EXCEPT !.r = RemoveKey(@, p1)]
IsYield(i) == i \in 0..(Size - 1) /\ Op(i) = "Yield"

ExecEndCoroutine(m, p1) ==
    IF Holds(m, p1) /\ IsYield(m.r[p1].n)
    THEN GoOn(Jump(Drop(m, p1), Instr(m.r[p1].n)[3])) ELSE Stop

ExecReturn(m, p1, p3) ==
    CASE Holds(m, p1) -> GoOn(Jump(Drop(m, p1), m.r[p1].n + 1))
      [] ~Holds(m, p1) /\ p3 = 1 -> GoOn(NextOf(m))
      [] OTHER -> Stop

ExecYield(m, p1) ==
    IF ~Holds(m, p1) THEN Stop
    ELSE LET y == m.r[p1].n IN
         GoOn(Jump(Set(m, p1, IntReg(m.i)), IF IsYield(y) THEN y + 1 ELSE y))

-----------------------------------------------------------------------------
(* Instructions that go on with the next one: what they do to memory.      *)

ExecColumn(m, p1, p2, p3) ==
    Set(m, p3, IF Has(m.p, p1) /\ Has(Columns(m, p1), p2) THEN Columns(m, p1)[p2] ELSE Default)

ExecRowData(m, p1, p2) ==
    Set(m, p2, RecordReg(IF Has(m.p, p1) THEN Columns(m, p1) ELSE EmptyMap))

ExecMakeRecord(m, p1, p2, p3) == Set(m, p3, RecordReg([k \in 0..(p2 - 1) |-> RegType(m, p1 + k)]))

ExecInsert(m, p1, p2) ==
    IF ~Has(m.r, p2) \/ ~OwnTable(m, p1) THEN m
    ELSE LET v == m.r[p2] IN
         CASE v.kind = "record" -> SetTable(m, p1, [cols |-> v.cols, empty |-> "no"])
           [] v.kind = "single" /\ v.dt = "Null" ->
                  SetTable(m, p1, [m.t[m.p[p1].n] EXCEPT !.empty = "no"])
           [] OTHER -> m

ExecDelete(m, p1) ==
    IF OwnTable(m, p1) /\ m.t[m.p[p1].n].empty = "no"
    THEN SetTable(m, p1, [m.t[m.p[p1].n] EXCEPT !.empty = "none"]) ELSE m

\* A cursor p1 on a table of its own, named by the instruction.
OpenTable(m, p1, tab) ==
    [m EXCEPT !.t = Insert(@, m.i, tab), !.p = Insert(@, p1, [kind |-> "normal", n |-> m.i])]

ExecOpen(m, op, p1, p2, p3) ==
    CASE op = "OpenPseudo" -> [m EXCEPT !.p = Insert(@, p1, [kind |-> "pseudo", n |-> p2])]
      [] op = "OpenDup" -> IF Has(m.p, p2) THEN [m EXCEPT !.p = Insert(@, p1, m.p[p2])] ELSE m
      [] op \in {"OpenRead", "OpenWrite"} ->
             OpenTable(m, p1, [cols |-> IF Has(RootBlocks, <<p3, p2>>) THEN RootBlocks[<<p3, p2>>]
                                        ELSE EmptyMap, empty |-> "none"])
      [] OTHER -> OpenTable(m, p1, [cols |-> [k \in 0..(p2 - 1) |-> NullType], empty |-> "yes"])

ExecNullRow(m, p1) ==
    LET nulled(cols) == [k \in DOMAIN cols |->
                            IF cols[k].kind = "single" THEN [cols[k] EXCEPT !.nl = "yes"] ELSE cols[k]]
    IN  IF ~Has(m.p, p1) THEN m
        ELSE IF OwnTable(m, p1)
             THEN SetTable(m, p1, [m.t[m.p[p1].n] EXCEPT !.cols = nulled(@)])
             ELSE IF m.p[p1].kind = "pseudo" /\ Has(m.r, m.p[p1].n) /\ m.r[m.p[p1].n].kind = "record"
                  THEN [m EXCEPT !.r[m.p[p1].n].cols = nulled(@)]
                  ELSE m

ExecFunction(m, p2, p3, f) ==
    LET optional == IF p2 # 0 THEN "yes" ELSE "no" IN
    CASE f = "last_insert_rowid(0)" -> Set(m, p3, SingleReg("Integer", "no"))
      [] f \in {"date(-1)", "time(-1)", "datetime(-1)", "strftime(-1)"} -> Set(m, p3, SingleReg("Text", optional))
      [] f = "julianday(-1)" -> Set(m, p3, SingleReg("Float", optional))
      [] f = "unixepoch(-1)" -> Set(m, p3, SingleReg("Integer", optional))
      [] OTHER -> m

\* p4 stands for the function, whatever the number of its arguments.
Counting == {"count", "row_number", "rank", "dense_rank", "ntile"}
Ranking == {"percent_rank", "cume_dist"}
Shifting == {"lead", "lag"}

ExecAggStep(m, p2, p3, f) ==
    CASE f \in Counting -> Set(m, p3, SingleReg("Integer", "no"))
      [] f \in Ranking -> Set(m, p3, SingleReg("Float", "no"))
      [] f = "sum" -> IF ~Has(m.r, p2) THEN m
                      ELSE Set(m, p3, SingleReg(IF DataType(m.r[p2]) \in {"Integer", "Int4", "Bool"}
                                             THEN "Integer" ELSE "Float", Nullable(m.r[p2])))
      [] f \in Shifting -> IF Has(m.r, p2) THEN Set(m, p3, SingleReg(DataType(m.r[p2]), "yes")) ELSE m
      [] OTHER -> IF Has(m.r, p2) THEN Set(m, p3, m.r[p2]) ELSE m

ExecAggFinal(m, p1, p2, p3, f) ==
    CASE f \in Counting -> Set(m, p1, SingleReg("Integer", "no"))
      [] f \in Ranking -> Set(m, p3, SingleReg("Float", "no"))
      [] f \in Shifting -> IF Has(m.r, p2) THEN Set(m, p3, SingleReg(DataType(m.r[p2]), "yes")) ELSE m
      [] OTHER -> m

ExecCast(m, p1, p2) ==
    IF Has(m.r, p1) THEN Set(m, p1, SingleReg(AffinityToType(p2), Nullable(m.r[p1]))) ELSE m

\* SCopy, IntCopy, Not: n = 0; Copy: n = p3.  The two ranges do not overlap.
ExecCopy(m, p1, p2, n) ==
    [m EXCEPT !.r = [k \in {p2 + j : j \in {i \in 0..n : Has(m.r, p1 + i)}} |-> m.r[p1 + k - p2]] @@ @]

ExecMove(m, p1, p2, n) ==
    LET moved == {j \in 0..(n - 1) : Has(m.r, p1 + j)} IN
    [m EXCEPT !.r = [k \in {p1 + j : j \in moved} \ {p2 + j : j \in moved} |-> NullType]
                    @@ [k \in {p2 + j : j \in moved} |-> m.r[p1 + k - p2]] @@ @]

ExecNull(m, p2, p3) ==
    [m EXCEPT !.r = [k \in p2..(IF p2 < p3 THEN p3 ELSE p2) |-> NullType] @@ @]

ExecArithmetic(m, p1, p2, p3) ==
    LET a == m.r[p1]
        b == m.r[p2]
        either(x, y) == CASE x = "yes" \/ y = "yes" -> "yes"
                          [] x = "none" -> y [] y = "none" -> x [] OTHER -> "no"
    IN  Set(m, p3,
            CASE Has(m.r, p1) /\ Has(m.r, p2) ->
                     SingleReg(IF DataType(a) = "Null" THEN DataType(b) ELSE DataType(a),
                            either(Nullable(a), Nullable(b)))
              [] Has(m.r, p1) /\ ~Has(m.r, p2) -> SingleReg(DataType(a), "none")
              [] ~Has(m.r, p1) /\ Has(m.r, p2) -> SingleReg(DataType(b), "none")
              [] OTHER -> Default)

Straight(m, op, p1, p2, p3, p4) ==
    CASE op = "Column" -> ExecColumn(m, p1, p2, p3)
      [] op = "Sequence" -> Set(m, p2, SingleReg("Integer", "no"))
      [] op \in {"RowData", "SorterData"} -> ExecRowData(m, p1, p2)
      [] op = "MakeRecord" -> ExecMakeRecord(m, p1, p2, p3)
      [] op \in {"Insert", "IdxInsert", "SorterInsert"} -> ExecInsert(m, p1, p2)
      [] op = "Delete" -> ExecDelete(m, p1)
      [] op \in {"OpenPseudo", "OpenDup", "OpenRead", "OpenWrite", "OpenEphemeral",
                 "OpenAutoindex", "SorterOpen"} -> ExecOpen(m, op, p1, p2, p3)
      [] op = "Variable" -> Set(m, p2, NullType)
      [] op = "HaltIfNull" -> NotNullNow(m, p3)
      [] op = "Function" -> ExecFunction(m, p2, p3, p4)
      [] op = "NullRow" -> ExecNullRow(m, p1)
      [] op \in {"AggStep", "AggValue"} -> ExecAggStep(m, p2, p3, p4)
      [] op = "AggFinal" -> ExecAggFinal(m, p1, p2, p3, p4)
      [] op = "Cast" -> ExecCast(m, p1, p2)
      [] op \in {"SCopy", "IntCopy", "Not"} -> ExecCopy(m, p1, p2, 0)
      [] op = "Copy" -> IF p3 >= 0 THEN ExecCopy(m, p1, p2, p3) ELSE m
      [] op = "Move" -> IF p3 >= 1 THEN ExecMove(m, p1, p2, p3) ELSE m
      [] op = "Integer" -> Set(m, p2, IntReg(p1))
      [] op \in {"Blob", "Count", "Real", "String8", "Rowid", "NewRowid"} ->
             Set(m, p2, SingleReg(OpcodeToType(op), "no"))
      [] op = "Null" -> ExecNull(m, p2, p3)
      [] op \in {"Or", "And", "BitAnd", "BitOr", "ShiftLeft", "ShiftRight", "Add", "Subtract",
                 "Multiply", "Divide", "Remainder", "Concat"} -> ExecArithmetic(m, p1, p2, p3)
      [] op = "OffsetLimit" -> Set(m, p2, SingleReg("Integer", "no"))
      [] OTHER -> m

Exec(m, loop) ==
    LET ins == Instr(m.i)
        op == ins[1]  p1 == ins[2]  p2 == ins[3]  p3 == ins[4]  p4 == ins[5]
    IN  CASE op \in {"Init", "Goto", "FkIfZero"} -> GoOn(Jump(m, p2))
          [] op = "Gosub" -> GoOn(Jump(Set(m, p1, IntReg(m.i)), p2))
          [] op \in BothWays -> Fork(<<Jump(m, p2)>>, <<NextOf(m)>>)
          [] op = "IsNull" -> ExecIsNull(m, p1, p2)
          [] op = "NotNull" -> ExecNotNull(m, p1, p2)
          [] op = "MustBeInt" -> Fork(Opt(p2 # 0, Jump(m, p2)), <<NextOf(m)>>)
          [] op = "If" -> ExecIf(m, p1, p2, p3)
          [] op = "IfPos" -> ExecIfPos(m, p1, p2, loop)
          [] op \in {"Rewind", "Last", "Sort", "SorterSort"} -> ExecRewind(m, p1, p2)
          [] op = "InitCoroutine" ->
                 GoOn(Jump(Set(m, p1, IntReg(p3)), IF p2 # 0 THEN p2 ELSE m.i + 1))
          [] op = "EndCoroutine" -> ExecEndCoroutine(m, p1)
          [] op = "Return" -> ExecReturn(m, p1, p3)
          [] op = "Yield" -> ExecYield(m, p1)
          [] op = "Jump" -> Fork(<<Jump(m, p1), Jump(m, p2), Jump(m, p3)>>, <<NextOf(m)>>)
          [] op = "ResultRow" ->
                 Outcome(<<NextOf(m)>>, <<>>, <<[c \in 1..p2 |-> RegType(m, p1 + c - 1)]>>)
          [] op = "Halt" -> Stop
          [] OTHER -> GoOn(NextOf(Straight(m, op, p1, p2, p3, p4)))

-----------------------------------------------------------------------------
(* explain()                                                               *)

NoAnswer == [done |-> FALSE, cols |-> <<>>]

ExplainInit ==
    /\ xquery \in DOMAIN Programs
    /\ branches = <<[visited |-> [i \in 0..(Size - 1) |-> 0], mem |-> Mem0]>>
    /\ seen = {} /\ at = NoBranch /\ gas = Gas /\ results = <<>>
    /\ answer = NoAnswer /\ walk = NoMem

\* BranchList::pop()
PopBranch ==
    /\ at = NoBranch /\ branches # <<>>
    /\ at' = branches[Len(branches)]
    /\ branches' = SubSeq(branches, 1, Len(branches) - 1)
    /\ UNCHANGED <<xquery, seen, gas, results, answer, walk>>

\* The branch ends: past the program, out of gas, or in a loop.
CutBranch ==
    /\ at # NoBranch
    /\ \/ at.mem.i >= Size /\ gas' = gas
       \/ at.mem.i < Size /\ gas = 0 /\ gas' = gas
       \/ at.mem.i < Size /\ gas > 0 /\ at.visited[at.mem.i] > MaxLoopCount /\ gas' = gas - 1
    /\ at' = NoBranch
    /\ UNCHANGED <<xquery, branches, seen, results, answer, walk>>

\* BranchList::push() of each state, which drops what it has seen.
Pushed(ms, visited) ==
    LET new(k) == ms[k] \notin seen /\ \A j \in 1..(k - 1) : ms[j] # ms[k]
        kept == SelectSeq([k \in DOMAIN ms |-> k], new)
    IN  branches \o [j \in DOMAIN kept |-> [visited |-> visited, mem |-> ms[kept[j]]]]

StepBranch ==
    /\ at # NoBranch /\ at.mem.i < Size /\ gas > 0 /\ at.visited[at.mem.i] <= MaxLoopCount
    /\ LET visited == [at.visited EXCEPT ![at.mem.i] = @ + 1]
           e == Exec(at.mem, visited[at.mem.i] > 1)
       IN  /\ branches' = Pushed(e.push, visited)
           /\ seen' = seen \cup {e.push[k] : k \in DOMAIN e.push}
           /\ results' = results \o e.out
           /\ at' = IF e.go = <<>> THEN NoBranch ELSE [visited |-> visited, mem |-> e.go[1]]
    /\ gas' = gas - 1
    /\ UNCHANGED <<xquery, answer, walk>>


\* The rows found on all branches are merged, the last one found first.
ColumnAnswer(c) ==
    LET rows == DOMAIN results
        typed == {k \in rows : DataType(results[k][c]) # "Null"}
        nulls == {Nullable(results[k][c]) : k \in rows}
    IN  [dt |-> IF typed = {} THEN "Null"
                ELSE DataType(results[CHOOSE k \in typed : \A j \in typed : j <= k][c]),
         nl |-> CASE "yes" \in nulls -> "yes"
                  [] "yes" \notin nulls /\ "no" \in nulls -> "no"
                  [] OTHER -> "none"]

FinishExplain ==
    /\ at = NoBranch /\ branches = <<>> /\ answer = NoAnswer
    /\ answer' = [done |-> TRUE,
                  cols |-> IF results = <<>> THEN <<>>
                           ELSE [c \in DOMAIN results[1] |-> ColumnAnswer(c)]]
    /\ walk' = Mem0
    /\ UNCHANGED <<xquery, branches, seen, at, gas, results>>

\* The walk goes on in any of the ways the instruction has.
Walk ==
    /\ walk # NoMem /\ walk.i < Size
    /\ LET e == Exec(walk, FALSE) IN
       \E m \in {e.push[k] : k \in DOMAIN e.push} \cup {e.go[k] : k \in DOMAIN e.go} : walk' = m
    /\ UNCHANGED <<xquery, branches, seen, at, gas, results, answer>>

ExplainNext == PopBranch \/ CutBranch \/ StepBranch \/ FinishExplain \/ Walk

ExplainSpec == ExplainInit /\ [][ExplainNext]_xvars

-----------------------------------------------------------------------------
(* Properties.                                                             *)

\* A column that can be NULL by the meaning of the SQL is never said to be
\* NOT NULL: the macros would give it a type that cannot hold NULL.
NullableSound ==
    answer.done => \A c \in MayBeNull[xquery] \cap DOMAIN answer.cols : answer.cols[c].nl # "no"

\* The cuts lose nothing: whichever way the program is walked, for as long as
\* one likes, a row in which a column may be NULL, or has a type, is accounted
\* for in the answer.
CutsLoseNothing ==
    walk # NoMem /\ walk.i < Size /\ Op(walk.i) = "ResultRow"
    => \A c \in 1..Instr(walk.i)[3] :
           LET v == RegType(walk, Instr(walk.i)[2] + c - 1) IN
           /\ c \in DOMAIN answer.cols
           /\ Nullable(v) = "yes" => answer.cols[c].nl = "yes"
           /\ DataType(v) # "Null" => answer.cols[c].dt # "Null"

\* The loop limit and the dropping of memory already seen keep the analysis
\* small: it never ends for want of gas, which would leave branches unread.
GasSuffices == answer.done => gas > 0

=============================================================================
