----------------------------- MODULE PgTypeInfo -----------------------------
(***************************************************************************)
(* PgTypeInfo of the PostgreSQL driver (type_info.rs): the tables of the   *)
(* built-in types, the ways a type can be declared before a connection has *)
(* resolved it (by name, by OID, as an array of a named type), and the     *)
(* comparison `==' that the whole driver uses as "is compatible with".     *)
(*                                                                         *)
(* A name is a record: `_foo' has the prefix "_" and the base "foo".  The  *)
(* comparison of the names character by character, name_eq(), is modelled  *)
(* on words over a small alphabet of its own (second part).                *)
(***************************************************************************)
EXTENDS Naturals, Sequences, FiniteSets, SequencesExt

VARIABLE compared     \* the comparison at hand

\* PgType::try_oid() of the built-in types.
ToOid == {
    <<"Bool", 16>>, <<"Bytea", 17>>, <<"Char", 18>>, <<"Name", 19>>, <<"Int8", 20>>,
    <<"Int2", 21>>, <<"Int4", 23>>, <<"Text", 25>>, <<"Oid", 26>>, <<"Json", 114>>,
    <<"JsonArray", 199>>, <<"Point", 600>>, <<"Lseg", 601>>, <<"Path", 602>>, <<"Box", 603>>,
    <<"Polygon", 604>>, <<"Line", 628>>, <<"LineArray", 629>>, <<"Cidr", 650>>,
    <<"CidrArray", 651>>, <<"Float4", 700>>, <<"Float8", 701>>, <<"Unknown", 705>>,
    <<"Circle", 718>>, <<"CircleArray", 719>>, <<"Macaddr8", 774>>, <<"Macaddr8Array", 775>>,
    <<"Money", 790>>, <<"MoneyArray", 791>>, <<"Macaddr", 829>>, <<"Inet", 869>>,
    <<"BoolArray", 1000>>, <<"ByteaArray", 1001>>, <<"CharArray", 1002>>, <<"NameArray", 1003>>,
    <<"Int2Array", 1005>>, <<"Int4Array", 1007>>, <<"TextArray", 1009>>, <<"BpcharArray", 1014>>,
    <<"VarcharArray", 1015>>, <<"Int8Array", 1016>>, <<"PointArray", 1017>>,
    <<"LsegArray", 1018>>, <<"PathArray", 1019>>, <<"BoxArray", 1020>>, <<"Float4Array", 1021>>,
    <<"Float8Array", 1022>>, <<"PolygonArray", 1027>>, <<"OidArray", 1028>>,
    <<"MacaddrArray", 1040>>, <<"InetArray", 1041>>, <<"Bpchar", 1042>>, <<"Varchar", 1043>>,
    <<"Date", 1082>>, <<"Time", 1083>>, <<"Timestamp", 1114>>, <<"TimestampArray", 1115>>,
    <<"DateArray", 1182>>, <<"TimeArray", 1183>>, <<"Timestamptz", 1184>>,
    <<"TimestamptzArray", 1185>>, <<"Interval", 1186>>, <<"IntervalArray", 1187>>,
    <<"NumericArray", 1231>>, <<"Timetz", 1266>>, <<"TimetzArray", 1270>>, <<"Bit", 1560>>,
    <<"BitArray", 1561>>, <<"Varbit", 1562>>, <<"VarbitArray", 1563>>, <<"Numeric", 1700>>,
    <<"Void", 2278>>, <<"Record", 2249>>, <<"RecordArray", 2287>>, <<"Uuid", 2950>>,
    <<"UuidArray", 2951>>, <<"Jsonb", 3802>>, <<"JsonbArray", 3807>>, <<"Int4Range", 3904>>,
    <<"Int4RangeArray", 3905>>, <<"NumRange", 3906>>, <<"NumRangeArray", 3907>>,
    <<"TsRange", 3908>>, <<"TsRangeArray", 3909>>, <<"TstzRange", 3910>>,
    <<"TstzRangeArray", 3911>>, <<"DateRange", 3912>>, <<"DateRangeArray", 3913>>,
    <<"Int8Range", 3926>>, <<"Int8RangeArray", 3927>>, <<"Jsonpath", 4072>>,
    <<"JsonpathArray", 4073>>}

\* PgType::try_from_oid().
FromOid == {
    <<16, "Bool">>, <<17, "Bytea">>, <<18, "Char">>, <<19, "Name">>, <<20, "Int8">>,
    <<21, "Int2">>, <<23, "Int4">>, <<25, "Text">>, <<26, "Oid">>, <<114, "Json">>,
    <<199, "JsonArray">>, <<600, "Point">>, <<601, "Lseg">>, <<602, "Path">>, <<603, "Box">>,
    <<604, "Polygon">>, <<628, "Line">>, <<629, "LineArray">>, <<650, "Cidr">>,
    <<651, "CidrArray">>, <<700, "Float4">>, <<701, "Float8">>, <<705, "Unknown">>,
    <<718, "Circle">>, <<719, "CircleArray">>, <<774, "Macaddr8">>, <<775, "Macaddr8Array">>,
    <<790, "Money">>, <<791, "MoneyArray">>, <<829, "Macaddr">>, <<869, "Inet">>,
    <<1000, "BoolArray">>, <<1001, "ByteaArray">>, <<1002, "CharArray">>, <<1003, "NameArray">>,
    <<1005, "Int2Array">>, <<1007, "Int4Array">>, <<1009, "TextArray">>, <<1014, "BpcharArray">>,
    <<1015, "VarcharArray">>, <<1016, "Int8Array">>, <<1017, "PointArray">>,
    <<1018, "LsegArray">>, <<1019, "PathArray">>, <<1020, "BoxArray">>, <<1021, "Float4Array">>,
    <<1022, "Float8Array">>, <<1027, "PolygonArray">>, <<1028, "OidArray">>,
    <<1040, "MacaddrArray">>, <<1041, "InetArray">>, <<1042, "Bpchar">>, <<1043, "Varchar">>,
    <<1082, "Date">>, <<1083, "Time">>, <<1114, "Timestamp">>, <<1115, "TimestampArray">>,
    <<1182, "DateArray">>, <<1183, "TimeArray">>, <<1184, "Timestamptz">>,
    <<1185, "TimestamptzArray">>, <<1186, "Interval">>, <<1187, "IntervalArray">>,
    <<1231, "NumericArray">>, <<1266, "Timetz">>, <<1270, "TimetzArray">>, <<1560, "Bit">>,
    <<1561, "BitArray">>, <<1562, "Varbit">>, <<1563, "VarbitArray">>, <<1700, "Numeric">>,
    <<2278, "Void">>, <<2249, "Record">>, <<2287, "RecordArray">>, <<2950, "Uuid">>,
    <<2951, "UuidArray">>, <<3802, "Jsonb">>, <<3807, "JsonbArray">>, <<3904, "Int4Range">>,
    <<3905, "Int4RangeArray">>, <<3906, "NumRange">>, <<3907, "NumRangeArray">>,
    <<3908, "TsRange">>, <<3909, "TsRangeArray">>, <<3910, "TstzRange">>,
    <<3911, "TstzRangeArray">>, <<3912, "DateRange">>, <<3913, "DateRangeArray">>,
    <<3926, "Int8Range">>, <<3927, "Int8RangeArray">>, <<4072, "Jsonpath">>,
    <<4073, "JsonpathArray">>}

\* PgType::name() of the built-in types: prefix and rest.
TypeNames == {
    <<"Bool", "", "bool">>, <<"Bytea", "", "bytea">>, <<"Char", "", "char">>,
    <<"Name", "", "name">>, <<"Int8", "", "int8">>, <<"Int2", "", "int2">>,
    <<"Int4", "", "int4">>, <<"Text", "", "text">>, <<"Oid", "", "oid">>, <<"Json", "", "json">>,
    <<"JsonArray", "_", "json">>, <<"Point", "", "point">>, <<"Lseg", "", "lseg">>,
    <<"Path", "", "path">>, <<"Box", "", "box">>, <<"Polygon", "", "polygon">>,
    <<"Line", "", "line">>, <<"LineArray", "_", "line">>, <<"Cidr", "", "cidr">>,
    <<"CidrArray", "_", "cidr">>, <<"Float4", "", "float4">>, <<"Float8", "", "float8">>,
    <<"Unknown", "", "unknown">>, <<"Circle", "", "circle">>, <<"CircleArray", "_", "circle">>,
    <<"Macaddr8", "", "macaddr8">>, <<"Macaddr8Array", "_", "macaddr8">>,
    <<"Macaddr", "", "macaddr">>, <<"Inet", "", "inet">>, <<"BoolArray", "_", "bool">>,
    <<"ByteaArray", "_", "bytea">>, <<"CharArray", "_", "char">>, <<"NameArray", "_", "name">>,
    <<"Int2Array", "_", "int2">>, <<"Int4Array", "_", "int4">>, <<"TextArray", "_", "text">>,
    <<"BpcharArray", "_", "bpchar">>, <<"VarcharArray", "_", "varchar">>,
    <<"Int8Array", "_", "int8">>, <<"PointArray", "_", "point">>, <<"LsegArray", "_", "lseg">>,
    <<"PathArray", "_", "path">>, <<"BoxArray", "_", "box">>, <<"Float4Array", "_", "float4">>,
    <<"Float8Array", "_", "float8">>, <<"PolygonArray", "_", "polygon">>,
    <<"OidArray", "_", "oid">>, <<"MacaddrArray", "_", "macaddr">>, <<"InetArray", "_", "inet">>,
    <<"Bpchar", "", "bpchar">>, <<"Varchar", "", "varchar">>, <<"Date", "", "date">>,
    <<"Time", "", "time">>, <<"Timestamp", "", "timestamp">>,
    <<"TimestampArray", "_", "timestamp">>, <<"DateArray", "_", "date">>,
    <<"TimeArray", "_", "time">>, <<"Timestamptz", "", "timestamptz">>,
    <<"TimestamptzArray", "_", "timestamptz">>, <<"Interval", "", "interval">>,
    <<"IntervalArray", "_", "interval">>, <<"NumericArray", "_", "numeric">>,
    <<"Timetz", "", "timetz">>, <<"TimetzArray", "_", "timetz">>, <<"Bit", "", "bit">>,
    <<"BitArray", "_", "bit">>, <<"Varbit", "", "varbit">>, <<"VarbitArray", "_", "varbit">>,
    <<"Numeric", "", "numeric">>, <<"Record", "", "record">>, <<"RecordArray", "_", "record">>,
    <<"Uuid", "", "uuid">>, <<"UuidArray", "_", "uuid">>, <<"Jsonb", "", "jsonb">>,
    <<"JsonbArray", "_", "jsonb">>, <<"Int4Range", "", "int4range">>,
    <<"Int4RangeArray", "_", "int4range">>, <<"NumRange", "", "numrange">>,
    <<"NumRangeArray", "_", "numrange">>, <<"TsRange", "", "tsrange">>,
    <<"TsRangeArray", "_", "tsrange">>, <<"TstzRange", "", "tstzrange">>,
    <<"TstzRangeArray", "_", "tstzrange">>, <<"DateRange", "", "daterange">>,
    <<"DateRangeArray", "_", "daterange">>, <<"Int8Range", "", "int8range">>,
    <<"Int8RangeArray", "_", "int8range">>, <<"Jsonpath", "", "jsonpath">>,
    <<"JsonpathArray", "_", "jsonpath">>, <<"Money", "", "money">>,
    <<"MoneyArray", "_", "money">>, <<"Void", "", "void">>}

\* PgType::kind(): the built-in types of kind Array, with their element type.
ArrayKinds == {
    <<"JsonArray", "Json">>, <<"LineArray", "Line">>, <<"CidrArray", "Cidr">>,
    <<"CircleArray", "Circle">>, <<"Macaddr8Array", "Macaddr8">>, <<"BoolArray", "Bool">>,
    <<"ByteaArray", "Bytea">>, <<"CharArray", "Char">>, <<"NameArray", "Name">>,
    <<"Int2Array", "Int2">>, <<"Int4Array", "Int4">>, <<"TextArray", "Text">>,
    <<"BpcharArray", "Bpchar">>, <<"VarcharArray", "Varchar">>, <<"Int8Array", "Int8">>,
    <<"PointArray", "Point">>, <<"LsegArray", "Lseg">>, <<"PathArray", "Path">>,
    <<"BoxArray", "Box">>, <<"Float4Array", "Float4">>, <<"Float8Array", "Float8">>,
    <<"PolygonArray", "Polygon">>, <<"OidArray", "Oid">>, <<"MacaddrArray", "Macaddr">>,
    <<"InetArray", "Inet">>, <<"TimestampArray", "Timestamp">>, <<"DateArray", "Date">>,
    <<"TimeArray", "Time">>, <<"TimestamptzArray", "Timestamptz">>,
    <<"IntervalArray", "Interval">>, <<"NumericArray", "Numeric">>, <<"TimetzArray", "Timetz">>,
    <<"BitArray", "Bit">>, <<"VarbitArray", "Varbit">>, <<"RecordArray", "Record">>,
    <<"UuidArray", "Uuid">>, <<"JsonbArray", "Jsonb">>, <<"Int4RangeArray", "Int4Range">>,
    <<"NumRangeArray", "NumRange">>, <<"TsRangeArray", "TsRange">>,
    <<"TstzRangeArray", "TstzRange">>, <<"DateRangeArray", "DateRange">>,
    <<"Int8RangeArray", "Int8Range">>, <<"JsonpathArray", "Jsonpath">>, <<"MoneyArray", "Money">>}

\* PgType::try_array_element(): the built-in types with an element type.
ArrayElements == {
    <<"BoolArray", "Bool">>, <<"ByteaArray", "Bytea">>, <<"CharArray", "Char">>,
    <<"NameArray", "Name">>, <<"Int8Array", "Int8">>, <<"Int2Array", "Int2">>,
    <<"Int4Array", "Int4">>, <<"TextArray", "Text">>, <<"OidArray", "Oid">>,
    <<"JsonArray", "Json">>, <<"PointArray", "Point">>, <<"LsegArray", "Lseg">>,
    <<"PathArray", "Path">>, <<"BoxArray", "Box">>, <<"PolygonArray", "Polygon">>,
    <<"LineArray", "Line">>, <<"CidrArray", "Cidr">>, <<"Float4Array", "Float4">>,
    <<"Float8Array", "Float8">>, <<"CircleArray", "Circle">>, <<"Macaddr8Array", "Macaddr8">>,
    <<"MoneyArray", "Money">>, <<"MacaddrArray", "Macaddr">>, <<"InetArray", "Inet">>,
    <<"BpcharArray", "Bpchar">>, <<"VarcharArray", "Varchar">>, <<"DateArray", "Date">>,
    <<"TimeArray", "Time">>, <<"TimestampArray", "Timestamp">>,
    <<"TimestamptzArray", "Timestamptz">>, <<"IntervalArray", "Interval">>,
    <<"TimetzArray", "Timetz">>, <<"BitArray", "Bit">>, <<"VarbitArray", "Varbit">>,
    <<"NumericArray", "Numeric">>, <<"RecordArray", "Record">>, <<"UuidArray", "Uuid">>,
    <<"JsonbArray", "Jsonb">>, <<"Int4RangeArray", "Int4Range">>, <<"NumRangeArray", "NumRange">>,
    <<"TsRangeArray", "TsRange">>, <<"TstzRangeArray", "TstzRange">>,
    <<"DateRangeArray", "DateRange">>, <<"Int8RangeArray", "Int8Range">>,
    <<"JsonpathArray", "Jsonpath">>}

-----------------------------------------------------------------------------
(* PgType and its comparison                                               *)

None == "none"
Image(table, k) == IF \E p \in table : p[1] = k THEN (CHOOSE p \in table : p[1] = k)[2] ELSE None
Builtins == {p[1] : p \in ToOid}

N(prefix, base) == [prefix |-> prefix, base |-> base]

\* The variants of PgType: a built-in type, Custom, DeclareWithName,
\* DeclareWithOid and DeclareArrayOf.
Builtin(ty)              == [v |-> "builtin", ty |-> ty]
Custom(oid, name, elem)  == [v |-> "custom", oid |-> oid, name |-> name, elem |-> elem]
WithName(name)           == [v |-> "name", name |-> name]
WithOid(oid)             == [v |-> "oid", oid |-> oid]
ArrayOf(name)            == [v |-> "array_of", elem_name |-> name]

TryOid(a) == CASE a.v = "builtin" -> Image(ToOid, a.ty)
               [] a.v \in {"custom", "oid"} -> a.oid
               [] OTHER -> 0

\* PgType::name().  The name of DeclareArrayOf is `elem_name[]'.
NameOf(a) == CASE a.v = "builtin" -> LET p == CHOOSE p \in TypeNames : p[1] = a.ty IN N(p[2], p[3])
               [] a.v \in {"custom", "name"} -> a.name
               [] a.v = "oid" -> N("", "?")
               [] a.v = "array_of" -> N("[]", a.elem_name.base)

\* PgType::try_array_element(): the element type, or a DeclareWithOid of 0
\* where the code returns None.
NotArray == WithOid(0)
TryArrayElement(a) ==
    CASE a.v = "builtin" -> IF Image(ArrayElements, a.ty) = None THEN NotArray
                            ELSE Builtin(Image(ArrayElements, a.ty))
      [] a.v = "custom"  -> a.elem
      [] a.v = "oid"     -> NotArray
      [] a.v = "name"    -> IF a.name.prefix = "_" THEN WithName(N("", a.name.base)) ELSE NotArray
      [] a.v = "array_of" -> WithName(a.elem_name)

\* Names of which the second is the first with one character more at its end.
OneMore == {<<"json", "jsonb">>, <<"macaddr", "macaddr8">>, <<"foo", "food">>}
NearBase(b, c) == <<b, c>> \in OneMore \/ <<c, b>> \in OneMore

\* name_eq() on names of this part: `"_foo"', quoted, is the name `_foo', and a character too
\* many at the end of either name goes unnoticed (see NameEq).
SameName(n, k) ==
    /\ n.base = k.base \/ NearBase(n.base, k.base)
    /\ n.prefix = k.prefix \/ {n.prefix, k.prefix} = {"_", "quoted _"}

\* The comparison of two types that are no arrays.
ElemEq(a, b, soft) ==
    IF TryOid(a) # 0 /\ TryOid(b) # 0 THEN TryOid(a) = TryOid(b)
    ELSE (soft /\ "oid" \in {a.v, b.v}) \/ SameName(NameOf(a), NameOf(b))

\* PgType::eq_impl(): by OID, then by element type, then by name.  The
\* elements of arrays are no arrays, so one level is all there is.
EqImpl(a, b, soft) ==
    LET ea == TryArrayElement(a)
        eb == TryArrayElement(b)
    IN  IF TryOid(a) # 0 /\ TryOid(b) # 0 THEN TryOid(a) = TryOid(b)
        ELSE \/ soft /\ "oid" \in {a.v, b.v}
             \/ IF ea # NotArray /\ eb # NotArray THEN ElemEq(ea, eb, TRUE)
                ELSE SameName(NameOf(a), NameOf(b))

-----------------------------------------------------------------------------
(* name_eq()                                                               *)

Quote == "\""
Lower(c) == CASE c = "A" -> "a" [] c = "B" -> "b" [] OTHER -> c

\* identifier_chars(): the characters of an identifier and whether their
\* case matters; the scan remembers whether the last one was a quote.
IdentifierChars(ident) ==
    LET Scan(s, c) ==
            IF c = Quote /\ ~s.last THEN [s EXCEPT !.last = TRUE]
            ELSE LET cs == IF c # Quote /\ s.last THEN ~s.case_sensitive ELSE s.case_sensitive
                 IN  [out |-> Append(s.out, <<c, cs>>), last |-> FALSE, case_sensitive |-> cs]
    IN  FoldLeft(Scan, [out |-> <<>>, last |-> FALSE, case_sensitive |-> FALSE], ident).out

CharEq(x, y) == IF x[2] \/ y[2] THEN x[1] = y[1] ELSE Lower(x[1]) = Lower(y[1])

IsUnicode(name) == IsPrefix(<<"U", "&">>, name)

\* A name that starts with U& is compared as it stands.  Otherwise the loop takes a character
\* of each word in every round, in the last one too, where one of the words may have a
\* character and the other none: that character is gone when the rests are tested to be empty.
NameEq(name1, name2) ==
    LET c1 == IdentifierChars(name1)
        c2 == IdentifierChars(name2)
        n  == IF Len(c1) < Len(c2) THEN Len(c1) ELSE Len(c2)
    IN  IF IsUnicode(name1) THEN name1 = name2
        ELSE /\ \A i \in 1..n : CharEq(c1[i], c2[i])
             /\ Len(c1) <= n + 1 /\ Len(c2) <= n + 1

-----------------------------------------------------------------------------
(* What is compared                                                        *)

\* The server's catalog of the model: some built-in types, a type foo and
\* its array type _foo, a type food, and a type that is called _bar and is no array.
FooType == Custom(16401, N("", "foo"), NotArray)
FooArray == Custom(16402, N("_", "foo"), FooType)
BarType == Custom(16403, N("_", "bar"), NotArray)
FoodType == Custom(16404, N("", "food"), NotArray)
Resolved == {FooType, FooArray, BarType, FoodType}
            \cup {Builtin(ty) : ty \in {"Int4", "Int4Array", "Text", "Int4Range", "Int4RangeArray",
                                        "Json", "JsonArray", "Jsonb", "JsonbArray", "Macaddr", "Macaddr8"}}

\* A program's declaration of each of them, and the type it stands for.
Declared == {<<a, a>> : a \in Resolved}
    \cup {<<WithOid(TryOid(a)), a>> : a \in Resolved}
    \cup {<<WithName(NameOf(a)), a>> : a \in Resolved \ {BarType}}
    \cup {<<WithName(N("quoted _", "bar")), BarType>>}
    \cup {<<ArrayOf(NameOf(TryArrayElement(a))), a>> : a \in {x \in Resolved : TryArrayElement(x) # NotArray}}

\* Type names: words without quotes, quoted words, and quoted words with U&.
Letters == {"a", "A", "b"}
Words(n) == UNION {[1..k -> Letters] : k \in 1..n}
InQuotes(w) == <<Quote>> \o w \o <<Quote>>
Identifiers == Words(3) \cup {InQuotes(w) : w \in Words(2)} \cup {<<"U", "&">> \o InQuotes(w) : w \in Words(2)}

TypesInit == compared = [what |-> "nothing"]

LookUp(oid) ==
    /\ compared.what = "nothing"
    /\ compared' = [what |-> "oid", oid |-> oid, ty |-> Image(FromOid, oid)]

CompareTypes(p, q) ==
    /\ compared.what = "nothing"
    /\ compared' = [what |-> "types", a |-> p, b |-> q,
                    compatible |-> EqImpl(p[1], q[1], TRUE), type_eq |-> EqImpl(p[1], q[1], FALSE)]

CompareNames(n, k) ==
    /\ compared.what = "nothing"
    /\ compared' = [what |-> "names", n |-> n, k |-> k, same |-> NameEq(n, k)]

TypesNext == \/ \E p \in FromOid : LookUp(p[1])
             \/ \E p, q \in Declared : CompareTypes(p, q)
             \/ \E n, k \in Identifiers : CompareNames(n, k)

TypesSpec == TypesInit /\ [][TypesNext]_compared

-----------------------------------------------------------------------------
(* Properties                                                              *)

\* The tables agree with each other, whichever built-in type the server
\* names by its OID: a type has one OID and one name, kind() and
\* try_array_element() give the same element, and the name of an array type
\* is the underscore and the name of its element.
TablesAgree ==
    compared.what = "oid" =>
        LET ty == compared.ty
            elem == Image(ArrayElements, ty)
        IN  /\ Image(ToOid, ty) = compared.oid
            /\ \A p \in ToOid : p[2] = compared.oid => p[1] = ty
            /\ \A u \in Builtins \ {ty} : NameOf(Builtin(u)) # NameOf(Builtin(ty))
            /\ Image(ArrayKinds, ty) = elem
            /\ elem # None => NameOf(Builtin(ty)) = N("_", NameOf(Builtin(elem)).base)
            /\ elem = None => NameOf(Builtin(ty)).prefix = ""

\* Two declarations of one type are compatible, however each was written.
SameTypeCompatible ==
    compared.what = "types" => (compared.a[2] = compared.b[2] => compared.compatible)

\* type_eq() confuses two types only if the name of one is the other's with one character more
\* and a declaration has no OID: json and jsonb, macaddr and macaddr8.  `==' does so too, and
\* where one side is known by its OID alone and the other by its name alone.
DifferentTypesDiffer ==
    compared.what = "types" /\ compared.a[2] # compared.b[2] =>
        LET near == /\ NearBase(NameOf(compared.a[2]).base, NameOf(compared.b[2]).base)
                    /\ \E a \in {compared.a[1], compared.b[1]} : a.v \in {"name", "array_of"}
        IN  /\ compared.type_eq => near
            /\ compared.compatible => near \/ \E a, b \in {compared.a[1], compared.b[1]} :
                                                a.v = "oid" /\ b.v \in {"name", "array_of"}

\* How a name is written, and the identifier PostgreSQL reads: case is folded outside of quotes.
Writing(w) == IF IsUnicode(w) THEN "unicode" ELSE IF w[1] = Quote THEN "quoted" ELSE "plain"
Identifier(w) ==
    CASE Writing(w) = "unicode" -> SubSeq(w, 4, Len(w) - 1)
      [] Writing(w) = "quoted"  -> SubSeq(w, 2, Len(w) - 1)
      [] OTHER                  -> [i \in DOMAIN w |-> Lower(w[i])]

Extends(x, y) == Len(x) = Len(y) + 1 /\ IsPrefix(y, x)

\* Two names written alike are the same name to name_eq() exactly if they are one identifier,
\* or one of them is the other and one character more; with U& the latter does not count.
\* Written differently, "A" passes for A, and U&"a" does not for "a".
SpellingsAgree ==
    compared.what = "names" /\ Writing(compared.n) = Writing(compared.k) =>
        LET x == Identifier(compared.n)
            y == Identifier(compared.k)
        IN  compared.same <=> \/ x = y
                              \/ Writing(compared.n) # "unicode" /\ (Extends(x, y) \/ Extends(y, x))

=============================================================================
