------------------------------ MODULE AnyDriver ------------------------------
(***************************************************************************)
(* The Any driver (sqlx-core/src/any and the any.rs of each driver): a     *)
(* value is bound as one of eight Rust types, becomes an AnyValueKind,     *)
(* then an argument of the driver behind the connection; what the column   *)
(* holds comes back through AnyRow::map_from() and try_get().  A second    *)
(* part follows one call site that is executed again and again, whose      *)
(* statement the connection prepared with the types of the first call; a   *)
(* third is fetch_optional() over the answers of a query.                  *)
(*                                                                         *)
(* Values are small integers.  i16, i32 and i64 have 2, 3 and 4 bits; a    *)
(* f32 holds the even numbers, a f64 all of them.                          *)
(***************************************************************************)
EXTENDS Integers, Sequences

CONSTANT MaxItems   \* bound: answers of a query

ASSUME AnyDriverAssumption == MaxItems \in Nat

VARIABLES
    cell,       \* a value bound, stored and read, or a query answered
    site        \* the statement of a call site, and its last execution

any_vars == <<cell, site>>

Backends == {"PostgreSQL", "MySQL", "SQLite"}

-----------------------------------------------------------------------------
(* Types and values (any/types, any/value.rs).                             *)

AnyTypes == {"bool", "i16", "i32", "i64", "f32", "f64", "str", "bytes"}
AnyIntegers == {"i16", "i32", "i64"}

KindOf(t) ==
    CASE t = "bool" -> "Bool" [] t = "i16" -> "SmallInt" [] t = "i32" -> "Integer" [] t = "i64" -> "BigInt"
      [] t = "f32" -> "Real" [] t = "f64" -> "Double" [] t = "str" -> "Text" [] t = "bytes" -> "Blob"
AnyIsInteger(kind) == kind \in {"SmallInt", "Integer", "BigInt"}

SignedRange(bits) == -(2 ^ (bits - 1))..(2 ^ (bits - 1)) - 1
WidthRange(t) == SignedRange(CASE t = "i16" -> 2 [] t = "i32" -> 3 [] OTHER -> 4)
ValuesOf(t) ==
    CASE t \in AnyIntegers -> WidthRange(t) [] t = "bool" -> {0, 1} [] t = "f32" -> {0, 2}
      [] t = "f64" -> 0..2 [] OTHER -> {0, 1}

AnyFails == [ok |-> FALSE, null |-> FALSE, kind |-> "Null", v |-> 0]
AnyValue(kind, v) == [ok |-> TRUE, null |-> FALSE, kind |-> kind, v |-> v]
AnyNull(kind) == [ok |-> TRUE, null |-> TRUE, kind |-> kind, v |-> 0]

\* Encode<Any> for T and for Option<T>: a NULL remembers the type it has not got.
AnyEncode(t, v) == AnyValue(KindOf(t), v)
AnyEncodeNone(t) == AnyNull(KindOf(t))

-----------------------------------------------------------------------------
(* Arguments of the driver.                                                *)

\* convert_to(): the Option<T>::None that is added for a NULL of each kind.
NullAs(kind) ==
    CASE kind \in {"Null", "Integer"} -> "i32" [] kind = "Bool" -> "bool" [] kind = "SmallInt" -> "i16" [] kind = "BigInt" -> "i64"
      [] kind = "Real" -> "f64" [] kind = "Double" -> "f32" [] kind = "Text" -> "str" [] kind = "Blob" -> "bytes"

\* convert_to(): any other value is added as the type it has.
ConvertTo(value) ==
    IF value.null THEN [type |-> NullAs(value.kind), null |-> TRUE, v |-> 0]
    ELSE [type |-> CHOOSE t \in AnyTypes : KindOf(t) = value.kind, null |-> FALSE, v |-> value.v]

\* map_arguments() of the SQLite driver.
MapArguments(value) ==
    [type |-> CASE value.null -> "Null" [] value.kind \in {"Bool", "SmallInt", "Integer"} -> "Int" [] value.kind = "BigInt" -> "Int64"
                [] value.kind \in {"Real", "Double"} -> "Double" [] value.kind = "Text" -> "Text" [] value.kind = "Blob" -> "Blob",
     null |-> value.null, v |-> value.v]

-----------------------------------------------------------------------------
(* Columns: what the database keeps of an argument.  Arguments go into     *)
(* columns of their own class.                                             *)

ColumnsOf(db) ==
    CASE db = "PostgreSQL" -> {"Bool", "Int2", "Int4", "Int8", "Float4", "Float8", "Text", "Varchar", "Bytea", "Numeric"}
      [] db = "MySQL" -> {"Tiny", "Short", "Long", "LongLong", "UnsignedLong", "Float", "Double", "VarString", "Blob"}
      [] db = "SQLite" -> {"Bool", "Int4", "Integer", "Float", "Text", "Blob"}

ColumnValues(db, column) ==
    CASE column \in {"Int2", "Short"} -> WidthRange("i16")
      [] column \in {"Int4", "Long"} /\ db # "SQLite" -> WidthRange("i32")
      [] column = "UnsignedLong" -> 0..7
      [] column \in {"Int4", "Int8", "LongLong", "Integer"} -> WidthRange("i64")
      [] column = "Float4" \/ (db = "MySQL" /\ column = "Float") -> {0, 2}
      [] column \in {"Float8", "Double", "Float", "Numeric"} -> 0..2
      [] OTHER -> {0, 1}

ClassOf(t) == CASE t \in AnyIntegers -> "int" [] t \in {"f32", "f64"} -> "float" [] OTHER -> t
ColumnClass(db, column) ==
    CASE column \in {"Int2", "Int4", "Int8", "Short", "Long", "LongLong", "UnsignedLong", "Integer"} -> "int"
      [] column \in {"Bool", "Tiny"} -> "bool" [] column \in {"Float4", "Float8", "Float", "Double"} -> "float"
      [] column \in {"Text", "Varchar", "VarString"} -> "str" [] column \in {"Bytea", "Blob"} -> "bytes" [] OTHER -> "other"

\* The value a column keeps of v, if it takes it: a single-precision column rounds.
Keeps(db, column, v) ==
    IF v \in ColumnValues(db, column) THEN [ok |-> TRUE, v |-> v]
    ELSE IF ColumnClass(db, column) = "float" THEN [ok |-> TRUE, v |-> v - (v % 2)]
    ELSE [ok |-> FALSE, v |-> 0]

\* The type of a value read: SQLite has the storage class of the value, and
\* the declared type for NULL.
ValueType(db, column, null) ==
    IF db = "SQLite" /\ ~null /\ column \in {"Int4", "Bool"} THEN "Integer" ELSE column

-----------------------------------------------------------------------------
(* Rows (any.rs of the drivers, any/row.rs).                               *)

\* AnyTypeInfo::try_from() of each driver; "Unsupported" is the error.
PgAnyKind(type) ==
    CASE type = "Bool" -> "Bool" [] type = "Int2" -> "SmallInt" [] type = "Int4" -> "Integer" [] type = "Int8" -> "BigInt"
      [] type = "Float4" -> "Real" [] type = "Float8" -> "Double" [] type = "Bytea" -> "Blob" [] type \in {"Text", "Varchar"} -> "Text"
      [] type = "Void" -> "Null" [] OTHER -> "Unsupported"
MyAnyKind(type) ==
    CASE type = "Short" -> "SmallInt" [] type \in {"Long", "UnsignedLong"} -> "Integer" [] type = "LongLong" -> "BigInt"
      [] type = "Float" -> "Real" [] type = "Double" -> "Double" [] type = "Blob" -> "Blob" [] type = "VarString" -> "Text"
      [] OTHER -> "Unsupported"
LiteAnyKind(type) ==
    CASE type = "Int4" -> "Integer" [] type = "Integer" -> "BigInt" [] type = "Float" -> "Double"
      [] type = "Blob" -> "Blob" [] type = "Text" -> "Text" [] OTHER -> "Unsupported"
AnyKindOf(db, type) ==
    CASE db = "PostgreSQL" -> PgAnyKind(type) [] db = "MySQL" -> MyAnyKind(type) [] db = "SQLite" -> LiteAnyKind(type)

\* The decoder of the driver for the kind of the value, which checks the range.
NativeDecode(kind, v) ==
    IF kind \in {"SmallInt", "Integer", "BigInt"} /\ v \notin WidthRange(CHOOSE t \in AnyIntegers : KindOf(t) = kind) THEN AnyFails
    ELSE AnyValue(kind, v)

\* AnyRow::map_from(): the column must be supported, then the value; a value
\* that is NULL is not decoded, nor is one of the kind Null.
MapFrom(db, column, null, v) ==
    LET kind == AnyKindOf(db, ValueType(db, column, null)) IN
    IF AnyKindOf(db, column) = "Unsupported" \/ kind = "Unsupported" THEN AnyFails
    ELSE IF null \/ kind = "Null" THEN AnyNull(kind)
    ELSE NativeDecode(kind, v)

\* Mutant: an integer of another width is converted with `as`.
TryIntegerWrapping(t, value) ==
    LET m == 2 ^ (CASE t = "i16" -> 2 [] t = "i32" -> 3 [] OTHER -> 4)
    IN IF AnyIsInteger(value.kind) THEN AnyValue(KindOf(t), ((value.v + m \div 2) % m) - m \div 2) ELSE AnyFails

\* try_integer(): any integer kind, if the value is in the range of t.
TryInteger(t, value) ==
    IF AnyIsInteger(value.kind) /\ value.v \in WidthRange(t) THEN AnyValue(KindOf(t), value.v) ELSE AnyFails

\* Decode<Any>: try_integer() for the integers, widening for f64, the very
\* kind for the others.
DecodeAny(t, value) ==
    IF value.null THEN AnyFails
    ELSE IF t \in AnyIntegers THEN TryInteger(t, value)
    ELSE IF t = "f64" /\ value.kind = "Real" THEN AnyValue("Double", value.v)
    ELSE IF value.kind = KindOf(t) THEN value ELSE AnyFails

AnyCompatible(t, kind) == IF t \in AnyIntegers THEN AnyIsInteger(kind) ELSE kind = KindOf(t)

\* try_get::<Option<T>>(): NULL is None whatever its kind is.
AnyTryGet(t, value) ==
    IF ~value.ok THEN AnyFails
    ELSE IF value.null THEN AnyNull(value.kind)
    ELSE IF ~AnyCompatible(t, value.kind) THEN AnyFails
    ELSE DecodeAny(t, value)

-----------------------------------------------------------------------------
(* Actions.                                                                *)

NoSite == [type |-> "none", prepared |-> "none", bound |-> "none", null |-> FALSE]

AnyInit ==
    /\ cell = [kind |-> "none"]
    /\ site = NoSite

\* A value, or NULL, is bound as a t, kept in a column and read as a u.
BindAndRead(db, t, null, v, column, u) ==
    LET given == IF null THEN AnyEncodeNone(t) ELSE AnyEncode(t, v)
        argument == IF db = "SQLite" THEN MapArguments(given) ELSE ConvertTo(given)
        kept == IF argument.null THEN [ok |-> TRUE, v |-> 0] ELSE Keeps(db, column, argument.v)
    IN /\ kept.ok
       /\ cell' = [kind |-> "cell", db |-> db, column |-> column, as |-> u, null |-> argument.null, kept |-> kept.v,
                   read |-> AnyTryGet(u, MapFrom(db, column, argument.null, kept.v))]
       /\ UNCHANGED site

\* A function of PostgreSQL that returns void: its value is empty, not NULL.
ReadVoid(u) ==
    /\ cell' = [kind |-> "cell", db |-> "PostgreSQL", column |-> "Void", as |-> u, null |-> TRUE, kept |-> 0,
                read |-> AnyTryGet(u, MapFrom("PostgreSQL", "Void", FALSE, 0))]
    /\ UNCHANGED site

\* A call site that binds an Option<t> through a PostgreSQL connection:
\* get_or_prepare() finds the statement by its text, or prepares it with the
\* types of these arguments; the server reads the bytes as the prepared type.
ExecuteSite(t, null) ==
    LET argument == ConvertTo(IF null THEN AnyEncodeNone(t) ELSE AnyEncode(t, 0)) IN
    /\ site.type \in {"none", t}
    /\ site' = [type |-> t, prepared |-> IF site.prepared = "none" THEN argument.type ELSE site.prepared,
                bound |-> argument.type, null |-> argument.null]
    /\ UNCHANGED cell

\* The connection is closed, and its statements with it.
CloseSite ==
    /\ site # NoSite
    /\ site' = NoSite
    /\ UNCHANGED cell

\* Answers of a query: rows, the end of a statement, an error.
AnswersOf(n) == UNION {[1..k -> {"row", "end", "error"}] : k \in 0..n}
FirstOf(items, what) == CHOOSE i \in 1..Len(items) + 1 :
    /\ i <= Len(items) => items[i] \in what
    /\ \A j \in 1..(i - 1) : items[j] \notin what

\* fetch_optional(): the index of the row that is returned, 0 for None, -1 for
\* an error.  The PostgreSQL and SQLite drivers look at the first item.
FetchFirstItem(items) ==
    IF items = <<>> \/ items[1] = "end" THEN 0 ELSE IF items[1] = "row" THEN 1 ELSE -1

\* The MySQL driver looks until there is a row.
FetchUntilRow(items) ==
    LET i == FirstOf(items, {"row", "error"})
    IN IF i > Len(items) THEN 0 ELSE IF items[i] = "row" THEN i ELSE -1

FetchOptional(db, items) == IF db = "MySQL" THEN FetchUntilRow(items) ELSE FetchFirstItem(items)

FetchOne(db, items) ==
    /\ cell' = [kind |-> "fetch", db |-> db, items |-> items, got |-> FetchOptional(db, items)]
    /\ UNCHANGED site

\* One value or one query is looked at in a behaviour, or one call site.
AnyNext ==
    \/ cell.kind = "none" /\ site = NoSite /\
          \/ \E db \in Backends, t \in AnyTypes, null \in BOOLEAN : \E v \in IF null THEN {0} ELSE ValuesOf(t) :
                \E column \in {c \in ColumnsOf(db) : ColumnClass(db, c) \in {ClassOf(t), "other"}}, u \in AnyTypes :
                    BindAndRead(db, t, null, v, column, u)
          \/ \E u \in AnyTypes : ReadVoid(u)
          \/ \E db \in Backends, items \in AnswersOf(MaxItems) : FetchOne(db, items)
    \/ cell.kind = "none" /\
          \/ \E t \in AnyTypes, null \in BOOLEAN : ExecuteSite(t, null)
          \/ CloseSite

AnySpec == AnyInit /\ [][AnyNext]_any_vars

-----------------------------------------------------------------------------
(* Properties.                                                             *)

\* What a column holds is read as that very value, as NULL, or not at all:
\* no conversion between Rust types, kinds and drivers changes it
\* (try_integer() checks the range, `k if value.is_null()` comes first).
AnyReadsBack ==
    cell.kind = "cell" /\ cell.read.ok => cell.read.null = cell.null /\ (~cell.null => cell.read.v = cell.kept)

\* NULL in a supported column is None for whatever type it is asked, and so
\* is what a void function returns.
AnyNullIsNone ==
    cell.kind = "cell" /\ cell.null /\ AnyKindOf(cell.db, cell.column) # "Unsupported" => cell.read.ok /\ cell.read.null

\* A signed integer column can be read as an integer of any width that holds
\* the value, and as no other.
AnyIntegersConvert ==
    cell.kind = "cell" /\ ~cell.null /\ cell.as \in AnyIntegers
        /\ ColumnClass(cell.db, cell.column) = "int" /\ cell.column # "UnsignedLong"
        => (cell.read.ok <=> cell.kept \in WidthRange(cell.as))

\* The bytes bound to a cached statement are read as the type they were
\* written as, whether the first execution of the call site bound NULL or not;
\* f32 and f64 are the exception, see AnySiteAlwaysWorks.
AnySiteWorks == site.type \notin {"f32", "f64"} /\ ~site.null => site.bound = site.prepared

\* The same for every Option<T>: any/types/mod.rs says that it "is supported
\* where `T` implements `Type`".
AnySiteAlwaysWorks == ~site.null => site.bound = site.prepared

\* One statement that answers with rows gives its first row; the MySQL driver
\* finds the first row of several statements too.
FirstRowFetched ==
    cell.kind = "fetch" /\ (cell.db = "MySQL" \/ (\A i \in 1..(Len(cell.items) - 1) : cell.items[i] # "end"))
        => LET i == FirstOf(cell.items, {"row", "error"})
           IN cell.got = IF i > Len(cell.items) THEN 0 ELSE IF cell.items[i] = "row" THEN i ELSE -1

=============================================================================
