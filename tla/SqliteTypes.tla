----------------------------- MODULE SqliteTypes -----------------------------
(***************************************************************************)
(* What becomes of a Rust value that is bound to a SQLite column and read  *)
(* back: the declared type of the column (sqlx-sqlite/src/type_info.rs),   *)
(* the storage class SQLite gives the value, and the encoders and decoders *)
(* of types/int.rs, uint.rs, bool.rs, chrono.rs and time.rs.               *)
(*                                                                         *)
(* Integers are scaled: i8 to i64 have 2 to 5 bits.  A point in time is a  *)
(* count of ticks, FracTicks of them in a second, MinuteSeconds seconds in *)
(* a minute; a text is the set of its optional parts and the fields they   *)
(* hold.                                                                   *)
(***************************************************************************)
EXTENDS Integers, FiniteSets

CONSTANTS
    FracTicks,      \* ticks in a second
    MinuteSeconds,  \* seconds in a minute
    MaxTicks        \* bound: points in time lie in -MaxTicks..MaxTicks

ASSUME SqliteTypesAssumption ==
    FracTicks \in Nat \ {0} /\ MinuteSeconds \in Nat \ {0} /\ MaxTicks \in Nat

VARIABLE lite   \* the value that is looked at

Invalid == [ok |-> FALSE, value |-> 0]
Valid(v) == [ok |-> TRUE, value |-> v]

-----------------------------------------------------------------------------
(* Integers.                                                               *)

IntTypes == {"i8", "i16", "i32", "i64", "u8", "u16", "u32", "u64"}
BitsOf(t) == CASE t \in {"i8", "u8"} -> 2 [] t \in {"i16", "u16"} -> 3 [] t \in {"i32", "u32"} -> 4 [] OTHER -> 5
LiteRangeOf(t) ==
    IF t \in {"i8", "i16", "i32", "i64"} THEN -(2 ^ (BitsOf(t) - 1))..(2 ^ (BitsOf(t) - 1)) - 1
    ELSE 0..(2 ^ BitsOf(t)) - 1

\* `as` between signed integers: the low bits.
Cast(v, t) == LET m == 2 ^ BitsOf(t) IN ((v + m \div 2) % m) - m \div 2

\* Encode: Int(i32) for the narrow types, Int64 for u32 and i64; u64 has none.
EncodeInt(t, v) == IF t \in {"u32", "i64"} THEN Cast(v, "i64") ELSE Cast(v, "i32")

\* Decode: int64(), then try_into().
DecodeInt(t, stored) == IF stored \in LiteRangeOf(t) THEN Valid(stored) ELSE Invalid

\* bool is 0 or 1, and anything but 0 is true.
EncodeBool(b) == IF b THEN 1 ELSE 0
DecodeBool(stored) == stored # 0

-----------------------------------------------------------------------------
(* Declared types.                                                         *)

\* A declared type: a name that FromStr knows, or the words it contains.
TypeWords == {"int", "char", "clob", "text", "blob", "real", "floa", "doub"}
KnownNames == {"int4", "int8", "boolean", "date", "time", "datetime"}
WordsIn(name) == IF name \in {"int4", "int8"} THEN {"int"} ELSE {}

\* FromStr for DataType.
DataTypeOf(name, words) ==
    CASE name = "int4" -> "Int4" [] name = "int8" -> "Integer" [] name = "boolean" -> "Bool"
      [] name = "date" -> "Date" [] name = "time" -> "Time" [] name = "datetime" -> "Datetime"
      [] "int" \in words -> "Integer"
      [] words \cap {"char", "clob", "text"} # {} -> "Text"
      [] "blob" \in words -> "Blob"
      [] words \cap {"real", "floa", "doub"} # {} -> "Float"
      [] OTHER -> "unknown"

\* SQLite's affinity of a declared type.
Affinity(words) ==
    CASE "int" \in words -> "INTEGER"
      [] words \cap {"char", "clob", "text"} # {} -> "TEXT"
      [] "blob" \in words -> "BLOB"
      [] words \cap {"real", "floa", "doub"} # {} -> "REAL"
      [] OTHER -> "NUMERIC"

\* The class a bound value is stored with.  number: the text reads as a
\* number; whole: the float has no fraction.
StoredClass(affinity, bound, number, whole) ==
    CASE affinity = "TEXT" /\ bound \in {"Integer", "Float"} -> "Text"
      [] affinity = "REAL" /\ bound = "Integer" -> "Float"
      [] affinity \in {"INTEGER", "NUMERIC"} /\ bound = "Float" /\ whole -> "Integer"
      [] affinity \in {"INTEGER", "NUMERIC", "REAL"} /\ bound = "Text" /\ number -> IF affinity = "REAL" THEN "Float" ELSE "Integer"
      [] OTHER -> bound

\* impl_type_checking!: the Rust type the macros choose for a column, by what
\* it is bound as, and the classes it accepts (Type::compatible).
RustTypes == {"bool", "i32", "i64", "f64", "String", "Vec<u8>", "NaiveDate", "NaiveDateTime"}
TypeInfoOf(t) ==
    CASE t = "bool" -> "Bool" [] t = "i32" -> "Int4" [] t = "i64" -> "Integer" [] t = "f64" -> "Float"
      [] t = "String" -> "Text" [] t = "Vec<u8>" -> "Blob" [] t = "NaiveDate" -> "Date" [] t = "NaiveDateTime" -> "Datetime"
BoundAs(t) ==
    CASE t \in {"bool", "i32", "i64"} -> "Integer" [] t = "f64" -> "Float"
      [] t = "Vec<u8>" -> "Blob" [] OTHER -> "Text"
Accepts(t) ==
    CASE t = "bool" -> {"Bool", "Int4", "Integer"} [] t \in {"i32", "i64"} -> {"Int4", "Integer"}
      [] t = "f64" -> {"Float"} [] t = "String" -> {"Text"} [] t = "Vec<u8>" -> {"Blob", "Text"}
      [] t = "NaiveDate" -> {"Date", "Text"}
      [] t = "NaiveDateTime" -> {"Datetime", "Text", "Integer", "Int4", "Float"}

-----------------------------------------------------------------------------
(* Points in time as text.                                                 *)

\* sep: between date and time; secs, frac: written; zone: "none", "z" or
\* "offset"; local, offset: the fields, in ticks and minutes.
Text(sep, secs, frac, zone, local, offset) ==
    [sep |-> sep, secs |-> secs, frac |-> frac, zone |-> zone, local |-> local, offset |-> offset]

MinuteTicks == FracTicks * MinuteSeconds
Offsets == {-1, 0, 1}
HasFraction(local) == local % FracTicks # 0

\* The types: DateTime<Tz> and NaiveDateTime of chrono, OffsetDateTime and
\* PrimitiveDateTime of time.
Aware == {"DateTime", "OffsetDateTime"}
Naive == {"NaiveDateTime", "PrimitiveDateTime"}

\* Encode: RFC 3339, "%F %T%.f", and time's own formats.
LiteEncodeTime(t, local, offset) ==
    CASE t = "DateTime" -> Text("T", TRUE, HasFraction(local), "offset", local, offset)
      [] t = "NaiveDateTime" -> Text(" ", TRUE, HasFraction(local), "none", local, 0)
      [] t = "OffsetDateTime" -> Text("T", TRUE, HasFraction(local), IF offset = 0 THEN "z" ELSE "offset", local, offset)
      [] t = "PrimitiveDateTime" -> Text(" ", TRUE, TRUE, "none", local, 0)

\* A moment: the fields that were read and the offset they are at.
Moment(local, offset) == [local |-> local, offset |-> offset]
Instant(m) == m.local - m.offset * MinuteTicks

\* decode_datetime_from_text() of chrono: RFC 3339, then formats with each
\* separator, with or without seconds, and with no zone, "Z" or an offset; one
\* without an offset is taken as UTC.
ChronoFormats == {<<sep, secs, zone>> : sep \in {" ", "T"}, secs \in BOOLEAN, zone \in {"none", "z", "offset"}}

ChronoParse(x) ==
    IF <<x.sep, x.secs, x.zone>> \in ChronoFormats /\ (x.frac => x.secs)
    THEN Valid(Moment(x.local, IF x.zone = "offset" THEN x.offset ELSE 0))
    ELSE Invalid

\* time: PrimitiveDateTime takes no offset, but an optional "Z".
PrimitiveParse(x) ==
    IF x.zone # "offset" /\ (x.frac => x.secs) THEN Valid(Moment(x.local, 0)) ELSE Invalid

\* OffsetDateTime: RFC 3339, then formats with an offset, then as above.
OffsetParse(x) ==
    IF x.zone = "offset" /\ (x.frac => x.secs) THEN Valid(Moment(x.local, x.offset)) ELSE PrimitiveParse(x)

\* The naive types: naive_local() of chrono.
LiteDecodeTime(t, x) ==
    CASE t = "DateTime" -> ChronoParse(x)
      [] t = "NaiveDateTime" -> LET m == ChronoParse(x) IN IF m.ok THEN Valid(Moment(m.value.local, 0)) ELSE Invalid
      [] t = "OffsetDateTime" -> OffsetParse(x)
      [] t = "PrimitiveDateTime" -> PrimitiveParse(x)

\* decode_datetime_from_int(): seconds since the epoch.
DecodeSeconds(seconds) == Moment(seconds * FracTicks, 0)

\* decode_datetime_from_float(): whole seconds towards zero, and the fraction
\* without its sign.  ticks: (value - epoch_in_julian_days) * seconds_in_day.
Abs(n) == IF n < 0 THEN -n ELSE n
Trunc(n) == IF n < 0 THEN -(Abs(n) \div FracTicks) ELSE n \div FracTicks
DecodeJulian(ticks) == Moment(Trunc(ticks) * FracTicks + (Abs(ticks) % FracTicks), 0)

-----------------------------------------------------------------------------
(* Every step looks at a value of one of the kinds.                        *)

LiteInit == lite = [kind |-> "none"]

BindInteger(t, v, u) == lite' = [kind |-> "int", type |-> t, as |-> u, value |-> v, stored |-> EncodeInt(t, v), read |-> DecodeInt(u, EncodeInt(t, v))]
BindBool(b) == lite' = [kind |-> "bool", value |-> b, read |-> DecodeBool(EncodeBool(b))]

\* A column and a value of the type the macros choose for it.
BindColumn(name, words, number, whole, t) ==
    /\ DataTypeOf(name, words) = TypeInfoOf(t)
    /\ number => t = "String"
    /\ lite' = [kind |-> "column", type |-> t, class |-> StoredClass(Affinity(words \cup WordsIn(name)), BoundAs(t), number, whole)]

BindTime(t, local, offset, u) ==
    /\ t \in Naive => offset = 0
    /\ lite' = [kind |-> "time", type |-> t, as |-> u, at |-> Moment(local, offset), read |-> LiteDecodeTime(u, LiteEncodeTime(t, local, offset))]

\* A text that SQLite's own date functions or another program wrote.
ReadTime(x, u) ==
    /\ x.frac => x.secs
    /\ ~x.secs => x.local % MinuteTicks = 0
    /\ HasFraction(x.local) => x.frac
    /\ x.zone # "offset" => x.offset = 0
    /\ lite' = [kind |-> "text", as |-> u, text |-> x, read |-> LiteDecodeTime(u, x)]

ReadNumber(ticks) ==
    lite' = [kind |-> "number", ticks |-> ticks, julian |-> DecodeJulian(ticks), seconds |-> DecodeSeconds(Trunc(ticks))]

Ticks == -MaxTicks..MaxTicks

LiteNext ==
    /\ lite.kind = "none"
    /\ \/ \E t \in IntTypes \ {"u64"}, u \in IntTypes : \E v \in LiteRangeOf(t) : BindInteger(t, v, u)
       \/ \E b \in BOOLEAN : BindBool(b)
       \/ \E words \in SUBSET TypeWords, number \in BOOLEAN, whole \in BOOLEAN, t \in RustTypes : BindColumn("", words, number, whole, t)
       \/ \E name \in KnownNames, number \in BOOLEAN, whole \in BOOLEAN, t \in RustTypes : BindColumn(name, {}, number, whole, t)
       \/ \E t, u \in Aware \cup Naive, local \in Ticks, offset \in Offsets : BindTime(t, local, offset, u)
       \/ \E sep \in {" ", "T"}, secs, frac \in BOOLEAN, zone \in {"none", "z", "offset"}, local \in Ticks, offset \in Offsets, u \in Aware \cup Naive :
            ReadTime(Text(sep, secs, frac, zone, local, offset), u)
       \/ \E ticks \in Ticks : ReadNumber(ticks)

LiteTypesSpec == LiteInit /\ [][LiteNext]_lite

-----------------------------------------------------------------------------
(* Properties.                                                             *)

\* An integer that is bound as one type and read as another is the same
\* integer or an error, and never an error for the type it was bound as
\* (types/int.rs, uint.rs).
LiteIntegerKept ==
    /\ lite.kind = "int" /\ lite.read.ok => lite.read.value = lite.value
    /\ lite.kind = "int" /\ lite.value \in LiteRangeOf(lite.as) => lite.read.ok
    /\ lite.kind = "bool" => lite.read = lite.value

\* A value of the type the macros choose for a column can be read back from it:
\* the order of FromStr for DataType is that of SQLite's affinities.
DeclaredTypeHolds == lite.kind = "column" => lite.class \in Accepts(lite.type)

\* A point in time written by any of the four types is the same instant for
\* the types that know their zone, and the same fields, or an error, for
\* those that do not (types/chrono.rs, types/time.rs).
InstantReadsBack ==
    lite.kind = "time" =>
        /\ lite.as \in Aware => lite.read.ok /\ Instant(lite.read.value) = Instant(lite.at)
        /\ lite.as \in Naive /\ lite.read.ok => lite.read.value.local = lite.at.local
        /\ lite.as \in Naive /\ lite.type \in Naive => lite.read.ok

\* Every text that SQLite documents is read, as the instant it names
\* (decode_datetime_from_text).
DocumentedTextsRead ==
    lite.kind = "text" /\ lite.as \in Aware =>
        lite.read.ok /\ Instant(lite.read.value) = Instant(Moment(lite.text.local, lite.text.offset))

\* A Julian day from 1970 on is the instant it names, and agrees with the
\* seconds since the epoch (decode_datetime_from_float, _from_int).
JulianDayExact ==
    lite.kind = "number" /\ lite.ticks >= 0 =>
        /\ Instant(lite.julian) = lite.ticks
        /\ Instant(lite.julian) - Instant(lite.seconds) \in 0..FracTicks - 1

=============================================================================
