----------------------------- MODULE MySqlRows -----------------------------
(***************************************************************************)
(* The values of MySQL's protocol: bind arguments with their NULL bitmap   *)
(* (arguments.rs, protocol/statement/execute.rs), length-encoded integers  *)
(* (io/buf.rs, io/buf_mut.rs), rows of the binary and of the text protocol *)
(* (protocol/statement/row.rs, protocol/text/row.rs) and integers read out *)
(* of a row (types/int.rs, types/uint.rs).  A byte has Width bits; the     *)
(* five values that the protocol sets aside (0xfb ... 0xff) are the        *)
(* largest ones, as they are with eight bits.                              *)
(***************************************************************************)
EXTENDS Integers, Sequences, SequencesExt

CONSTANTS
    Width,          \* bits of a byte: 8
    MyArguments,    \* the values a program binds
    MyRows,         \* the rows a server returns: sequences of cells
    MyIntegers,     \* the integer cells that programs read
    MaxMyArguments

ASSUME RowsAssumption == Width \in Nat /\ 2 ^ Width > 5 /\ MaxMyArguments \in Nat

VARIABLE packet

Base == 2 ^ Width
NullByte == Base - 5       \* 0xfb
TwoBytes == Base - 4       \* 0xfc
ThreeBytes == Base - 3     \* 0xfd
EightBytes == Base - 2     \* 0xfe

\* A value: `type' is a column type, `data' what it holds, a number for an
\* integer and bytes for the others.
Cell(type, unsigned, null, number, bytes) ==
    [type |-> type, unsigned |-> unsigned, null |-> null, number |-> number, bytes |-> bytes]

RowsInit == packet = [kind |-> "none", given |-> <<>>, values |-> <<>>, types |-> <<>>, bitmap |-> <<>>, read |-> <<>>]

-----------------------------------------------------------------------------
(* Integers                                                                *)

Size(type) == CASE type = "tiny" -> 1 [] type = "short" -> 2 [] type \in {"long", "int24"} -> 4 [] type = "longlong" -> 8
IsInteger(type) == type \in {"tiny", "short", "long", "int24", "longlong"}

LittleEndian(n, size) == [i \in 1..size |-> ((n % (Base ^ size)) \div (Base ^ (i - 1))) % Base]
ReadUint(bytes) == FoldRight(LAMBDA b, acc : acc * Base + b, bytes, 0)

\* LittleEndian::read_int: the top bit of the bytes there are is the sign.
ReadInt(bytes) ==
    LET n == ReadUint(bytes) IN IF bytes # <<>> /\ Last(bytes) >= Base \div 2 THEN n - Base ^ Len(bytes) ELSE n

\* A BIT is big-endian in both formats.
ReadBit(bytes) == FoldLeft(LAMBDA acc, b : acc * Base + b, 0, bytes)

-----------------------------------------------------------------------------
(* Length-encoded integers                                                 *)

\* Mutant: 0xfb is a length of one byte.
PutUintLenencOne(n) ==
    IF n <= NullByte THEN <<n>>
    ELSE IF n < Base ^ 2 THEN <<TwoBytes>> \o LittleEndian(n, 2)
    ELSE IF n < Base ^ 3 THEN <<ThreeBytes>> \o LittleEndian(n, 3)
    ELSE <<EightBytes>> \o LittleEndian(n, 8)

PutUintLenenc(n) ==
    IF n < NullByte THEN <<n>>
    ELSE IF n < Base ^ 2 THEN <<TwoBytes>> \o LittleEndian(n, 2)
    ELSE IF n < Base ^ 3 THEN <<ThreeBytes>> \o LittleEndian(n, 3)
    ELSE <<EightBytes>> \o LittleEndian(n, 8)
PutBytesLenenc(bytes) == PutUintLenenc(Len(bytes)) \o bytes

\* get_uint_lenenc: the number and how many bytes it took.
LenencSize(c) == CASE c[1] = TwoBytes -> 3 [] c[1] = ThreeBytes -> 4 [] c[1] = EightBytes -> 9 [] OTHER -> 1
GetUintLenenc(c) == IF LenencSize(c) = 1 THEN c[1] ELSE ReadUint(SubSeq(c, 2, LenencSize(c)))

-----------------------------------------------------------------------------
(* Bind arguments                                                          *)

Bits(byte) == [i \in 0..(Width - 1) |-> (byte \div (2 ^ i)) % 2 = 1]

\* NullBitMap::push.
PushNull(bitmap, length, null) ==
    LET grown == IF length % Width = 0 THEN Append(bitmap, 0) ELSE bitmap
    IN  [grown EXCEPT ![length \div Width + 1] = IF null THEN @ + 2 ^ (length % Width) ELSE @]

\* Encode::encode: what a value writes; a value of type "error" fails after
\* it has written.
Encoded(v) ==
    IF v.null THEN <<>> ELSE IF IsInteger(v.type) THEN LittleEndian(v.number, Size(v.type)) ELSE PutBytesLenenc(v.bytes)

\* MySqlArguments::add: what a failed value has written is truncated.
AddValue(v) ==
    /\ packet.kind \in {"none", "arguments"}
    /\ Len(packet.given) < MaxMyArguments
    /\ packet' = IF v.type = "error"
                 THEN [packet EXCEPT !.values = SubSeq(@ \o v.bytes, 1, Len(@))]
                 ELSE [packet EXCEPT !.kind = "arguments", !.given = Append(@, v), !.values = @ \o Encoded(v),
                                     !.types = Append(@, v.type), !.bitmap = PushNull(@, Len(packet.types), v.null)]

\* COM_STMT_EXECUTE: the bitmap, the types and the values; without
\* arguments none of them.
ExecutePacket == IF packet.types = <<>> THEN <<>> ELSE packet.bitmap \o packet.values

\* What the server reads of one value of the given type; `signed' tells the
\* flag 0x80 of its type.
TakeValue(c, type, unsigned) ==
    IF c = <<>> THEN [size |-> 0, v |-> Cell("garbage", FALSE, FALSE, 0, <<>>)]
    ELSE LET size == IF IsInteger(type) THEN Size(type) ELSE LenencSize(c) + GetUintLenenc(c)
             bytes == SubSeq(c, 1, IF size <= Len(c) THEN size ELSE Len(c))
         IN  [size |-> Len(bytes),
              v |-> IF IsInteger(type)
                    THEN Cell(type, unsigned, FALSE, IF unsigned THEN ReadUint(bytes) ELSE ReadInt(bytes), <<>>)
                    ELSE Cell(type, unsigned, FALSE, 0, SubSeq(bytes, LenencSize(c) + 1, Len(bytes)))]

ServerRead ==
    LET n == Len(packet.types)
        bitmap == SubSeq(ExecutePacket, 1, (n + Width - 1) \div Width)
        values == SubSeq(ExecutePacket, Len(bitmap) + 1, Len(ExecutePacket))
    IN  FoldLeft(LAMBDA r, i :
                    LET v == packet.given[i]
                        t == TakeValue(r.rest, v.type, v.unsigned)
                    IN  IF Bits(bitmap[(i - 1) \div Width + 1])[(i - 1) % Width]
                        THEN [r EXCEPT !.vs = Append(@, Cell(v.type, v.unsigned, TRUE, 0, <<>>))]
                        ELSE [vs |-> Append(r.vs, t.v), rest |-> SubSeq(r.rest, t.size + 1, Len(r.rest))],
                 [vs |-> <<>>, rest |-> values], [i \in 1..n |-> i])

-----------------------------------------------------------------------------
(* Rows                                                                    *)

\* The server's binary row: two bits of the bitmap are reserved.
SendBinary(row) ==
    LET n == Len(row)
        bit(k) == k >= 2 /\ k - 1 <= n /\ row[k - 1].null
        bitmap == [b \in 1..((n + 1 + Width) \div Width) |->
                      FoldLeft(LAMBDA acc, i : acc + (IF bit((b - 1) * Width + i) THEN 2 ^ i ELSE 0), 0, [i \in 1..Width |-> i - 1])]
    IN  bitmap \o FlattenSeq([i \in 1..n |->
            IF row[i].null THEN <<>>
            ELSE IF row[i].type = "date" THEN <<Len(row[i].bytes)>> \o row[i].bytes
            ELSE Encoded(row[i])])
\* The server's text row; the text of a number stands for itself.
SendText(row) ==
    FlattenSeq([i \in DOMAIN row |-> IF row[i].null THEN <<NullByte>> ELSE PutBytesLenenc(row[i].bytes)])

\* NOTE: the column index starts at the third bit.
BinaryNull(bitmap, i) == Bits(bitmap[(i + 1) \div Width + 1])[(i + 1) % Width]

\* BinaryRow::decode_with: where each value begins and ends.
ReadBinary(c, columns) ==
    LET len == (Len(columns) + 1 + Width) \div Width
        bitmap == SubSeq(c, 1, len)
        size(at, type) ==
            CASE IsInteger(type) -> Size(type)
              [] type = "date" -> c[at] + 1
              [] OTHER -> GetUintLenenc(SubSeq(c, at, Len(c)))
        skip(at, type) == IF IsInteger(type) \/ type = "date" THEN 0 ELSE LenencSize(SubSeq(c, at, Len(c)))
    IN  FoldLeft(LAMBDA r, i :
                    IF BinaryNull(bitmap, i) THEN [r EXCEPT !.vs = Append(@, <<>>), !.nulls = Append(@, TRUE)]
                    ELSE IF r.at > Len(c) THEN [r EXCEPT !.vs = Append(@, <<>>), !.nulls = Append(@, FALSE)]
                    ELSE LET from == r.at + skip(r.at, columns[i])
                             till == from + size(r.at, columns[i]) - 1
                         IN  [vs |-> Append(r.vs, SubSeq(c, from, till)), nulls |-> Append(r.nulls, FALSE), at |-> till + 1],
                 [vs |-> <<>>, nulls |-> <<>>, at |-> len + 1], [i \in DOMAIN columns |-> i])

\* TextRow::decode_with.
ReadText(c, columns) ==
    FoldLeft(LAMBDA r, i :
                IF r.at > Len(c) THEN [r EXCEPT !.vs = Append(@, <<>>), !.nulls = Append(@, FALSE)]
                ELSE IF c[r.at] = NullByte THEN [vs |-> Append(r.vs, <<>>), nulls |-> Append(r.nulls, TRUE), at |-> r.at + 1]
                ELSE LET rest == SubSeq(c, r.at, Len(c))
                         from == r.at + LenencSize(rest)
                         till == from + GetUintLenenc(rest) - 1
                     IN  [vs |-> Append(r.vs, SubSeq(c, from, till)), nulls |-> Append(r.nulls, FALSE), at |-> till + 1],
             [vs |-> <<>>, nulls |-> <<>>, at |-> 1], [i \in DOMAIN columns |-> i])

\* The number in a column of a row.
Decoded(cell, bytes) ==
    CASE IsInteger(cell.type) /\ cell.unsigned -> ReadUint(bytes)
      [] IsInteger(cell.type) /\ ~cell.unsigned -> ReadInt(bytes)
      [] cell.type = "bit" -> ReadBit(bytes)
      [] OTHER -> 0

ReceiveBinary(row) ==
    /\ packet.kind = "none"
    /\ LET r == ReadBinary(SendBinary(row), [i \in DOMAIN row |-> row[i].type])
       IN  packet' = [packet EXCEPT !.kind = "binary", !.given = row,
                          !.read = [i \in DOMAIN row |->
                              [null |-> r.nulls[i], bytes |-> r.vs[i],
                               number |-> IF r.nulls[i] THEN 0 ELSE Decoded(row[i], r.vs[i])]]]
ReceiveText(row) ==
    /\ packet.kind = "none"
    /\ LET r == ReadText(SendText(row), [i \in DOMAIN row |-> row[i].type])
       IN  packet' = [packet EXCEPT !.kind = "text", !.given = row,
                          !.read = [i \in DOMAIN row |-> [null |-> r.nulls[i], bytes |-> r.vs[i], number |-> 0]]]

-----------------------------------------------------------------------------
(* Integers of a Rust type out of a column                                 *)

RustInts == {"i8", "i16", "i32", "i64", "u8", "u16", "u32", "u64"}
Signed(rust) == rust \in {"i8", "i16", "i32", "i64"}
RustSize(rust) == CASE rust \in {"i8", "u8"} -> 1 [] rust \in {"i16", "u16"} -> 2 [] rust \in {"i32", "u32"} -> 4 [] OTHER -> 8
Fits(n, rust) ==
    LET size == Base ^ RustSize(rust)
    IN  IF Signed(rust) THEN n \in -(size \div 2)..(size \div 2 - 1) ELSE n \in 0..(size - 1)

IntCompatible(cell) == IsInteger(cell.type) /\ ~cell.unsigned
UintCompatible(cell) == (IsInteger(cell.type) \/ cell.type \in {"year", "bit"}) /\ cell.unsigned
Compatible(rust, cell) == IF Signed(rust) THEN IntCompatible(cell) ELSE UintCompatible(cell)

\* The bytes of a value: BIT is raw in both formats, other texts are parsed.
Raw(cell) == IF cell.type = "bit" THEN cell.bytes ELSE LittleEndian(cell.number, IF cell.type = "year" THEN 2 ELSE Size(cell.type))
IntDecode(cell, format) == IF format = "text" THEN cell.number ELSE ReadInt(Raw(cell))
UintDecode(cell, format) ==
    IF cell.type = "bit" THEN ReadBit(Raw(cell)) ELSE IF format = "text" THEN cell.number ELSE ReadUint(Raw(cell))

\* Row::try_get::<rust>: the check of the type, the number, and try_into().
TryGet(rust, cell, format) ==
    /\ packet.kind = "none"
    /\ Compatible(rust, cell)
    /\ LET n == IF Signed(rust) THEN IntDecode(cell, format) ELSE UintDecode(cell, format)
       IN  packet' = [packet EXCEPT !.kind = "integer", !.given = <<cell>>, !.types = <<rust>>,
                                    !.read = IF Fits(n, rust) THEN <<n>> ELSE <<>>]

RowsNext ==
    \/ \E v \in MyArguments : AddValue(v)
    \/ \E row \in MyRows : ReceiveBinary(row) \/ ReceiveText(row)
    \/ \E rust \in RustInts, cell \in MyIntegers, format \in {"text", "binary"} : TryGet(rust, cell, format)
RowsSpec == RowsInit /\ [][RowsNext]_packet

-----------------------------------------------------------------------------
\* The server reads the arguments that were added, NULLs where they were
\* given, and nothing of one that failed to encode.  (arguments.rs:17-35,
\* 66-77, execute.rs:17-40)
MyBoundAsGiven == packet.kind = "arguments" => ServerRead.vs = packet.given /\ ServerRead.rest = <<>>

\* A binary row gives every column its own bytes and its own NULL bit, and an
\* integer the value the server has.  (statement/row.rs:18-107)
BinaryRowReadsBack ==
    packet.kind = "binary" =>
        \A i \in DOMAIN packet.given :
            LET cell == packet.given[i] read == packet.read[i] IN
            /\ read.null = cell.null
            /\ ~cell.null => IF IsInteger(cell.type) \/ cell.type = "bit" THEN read.number = cell.number
                             ELSE read.bytes = IF cell.type = "date" THEN <<Len(cell.bytes)>> \o cell.bytes ELSE cell.bytes

\* A text row gives every column its own text.  (text/row.rs:13-39)
TextRowReadsBack ==
    packet.kind = "text" =>
        \A i \in DOMAIN packet.given :
            /\ packet.read[i].null = packet.given[i].null
            /\ ~packet.given[i].null => packet.read[i].bytes = packet.given[i].bytes

\* An integer read as any Rust type that is compatible with its column is the
\* server's number, or an error when the Rust type cannot hold it; it never
\* wraps and never changes its sign.  (types/int.rs:10-19, types/uint.rs:17-28)
NumberKept ==
    packet.kind = "integer" =>
        LET n == packet.given[1].number IN packet.read = IF Fits(n, packet.types[1]) THEN <<n>> ELSE <<>>

=============================================================================
