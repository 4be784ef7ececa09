---------------------------- MODULE PgArguments ----------------------------
(***************************************************************************)
(* PgArguments and PgArgumentBuffer (arguments.rs): bind values encoded    *)
(* one after the other into one buffer, with the OIDs of types that are    *)
(* known by name only left as holes, and the first cell of a JSON value    *)
(* left to a patch that knows the parameter's type; both are filled when   *)
(* the query runs.  The encoders and the decoders of arrays, records,      *)
(* ranges, hstore and JSON are the ones of types/.  A cell of the buffer   *)
(* stands for four bytes; MaxLen stands for i32::MAX.                      *)
(***************************************************************************)
EXTENDS Integers, Sequences, SequencesExt, FiniteSets

CONSTANTS
    Bindables,    \* the values a program binds
    TypeOids,     \* the server's catalog: name -> OID
    MaxArguments,
    MaxLen        \* the largest length a prefix can hold

ASSUME ArgumentsAssumption == MaxArguments \in Nat /\ MaxLen \in Nat

VARIABLE arguments

\* A type: `decl' is "oid" for one with a known OID, "name" for
\* PgType::DeclareWithName and "array" for DeclareArrayOf; `of' are the
\* types of its parts.
PgType(decl, name, shape, of) == [decl |-> decl, name |-> name, shape |-> shape, of |-> of]
\* A value: `data' are the cells of a plain one, `parts' its elements,
\* fields, bounds, or keys and values.
Value(kind, type, data, parts) == [kind |-> kind, type |-> type, data |-> data, parts |-> parts]
NullOf(type) == Value("null", type, <<>>, <<>>)
Garbage(type) == Value("garbage", type, <<>>, <<>>)

EmptyBuffer == [cells |-> <<>>, count |-> 0, patches |-> <<>>, holes |-> <<>>]
ArgumentsInit ==
    arguments = [buffer |-> EmptyBuffer, types |-> <<>>, given |-> <<>>, patched |-> FALSE, query |-> <<>>]

-----------------------------------------------------------------------------
(* Encoding                                                                *)

Extended(b, cells) == [b EXCEPT !.cells = @ \o cells]
Done(b) == [ok |-> TRUE, b |-> b]
Failed(b) == [ok |-> FALSE, b |-> b]

\* The OID of an element or a field: written when it is known, else a hole.
PutType(b, t) ==
    IF t.decl = "oid" THEN Extended(b, <<TypeOids[t.name]>>)
    ELSE Extended([b EXCEPT !.holes = Append(@, [at |-> Len(b.cells) + 1, type |-> t])], <<0>>)

JsonbVersion == 1
JsonSpace == 32
\* Bound, and RangeFlags' bits.
Included == 1
Excluded == 2
Unbounded == 3
Inclusive == 2
UpperInclusive == 4
LowerInfinite == 8
UpperInfinite == 16

\* The flags of a range; its data are the kinds of its two bounds.
RangeFlags(v) ==
    (CASE v.data[1] = Included -> Inclusive [] v.data[1] = Unbounded -> LowerInfinite [] OTHER -> 0)
    + (CASE v.data[2] = Included -> UpperInclusive [] v.data[2] = Unbounded -> UpperInfinite [] OTHER -> 0)

RECURSIVE BufferEncode(_, _)

EncodeAll(b, parts, Prepare(_, _)) ==
    FoldLeft(LAMBDA r, part : IF r.ok THEN BufferEncode(Prepare(r.b, part), part) ELSE r, Done(b), parts)

EncodeJson(b, v) ==
    Done(Extended([b EXCEPT !.patches = Append(@, [at |-> Len(b.cells) + 1, arg |-> b.count + 1])], <<JsonbVersion>> \o v.data))
EncodeArray(b, v) ==
    EncodeAll(Extended(PutType(Extended(b, <<1, 0>>), v.type.of[1]), <<Len(v.parts), 1>>), v.parts, LAMBDA x, part : x)
\* PgRecordEncoder: the number of fields is written last.
EncodeRecord(b, v) ==
    LET off == Len(b.cells) + 1
        r == EncodeAll(Extended(b, <<0>>), v.parts, LAMBDA x, part : PutType(x, part.type))
    IN  IF r.ok THEN Done([r.b EXCEPT !.cells[off] = Len(v.parts)]) ELSE r
EncodeRange(b, v) == EncodeAll(Extended(b, <<RangeFlags(v)>>), v.parts, LAMBDA x, part : x)
EncodeHstore(b, v) == EncodeAll(Extended(b, <<Len(v.parts) \div 2>>), v.parts, LAMBDA x, part : x)

\* Encode::encode_by_ref of each type.  A value of kind "error" fails after
\* it has written its cells.
EncodeValue(b, v) ==
    CASE v.kind = "null" -> Done(b)
      [] v.kind = "plain" -> Done(Extended(b, v.data))
      [] v.kind = "error" -> Failed(Extended(b, v.data))
      [] v.kind = "json" -> EncodeJson(b, v)
      [] v.kind = "array" -> EncodeArray(b, v)
      [] v.kind = "record" -> EncodeRecord(b, v)
      [] v.kind = "range" -> EncodeRange(b, v)
      [] v.kind = "hstore" -> EncodeHstore(b, v)

\* PgArgumentBuffer::encode: the value behind its length, -1 for NULL.
BufferEncode(b, v) ==
    LET offset == Len(b.cells) + 1
        r == EncodeValue(Extended(b, <<0>>), v)
        len == Len(r.b.cells) - offset
    IN  IF ~r.ok \/ len > MaxLen THEN Failed(r.b)
        ELSE Done([r.b EXCEPT !.cells[offset] = IF v.kind = "null" THEN -1 ELSE len])

\* Mutant: the snapshot forgets the holes.
ResetKeepsHoles(b, snapshot) ==
    [b EXCEPT !.cells = SubSeq(@, 1, Len(snapshot.cells)), !.patches = SubSeq(@, 1, Len(snapshot.patches))]

\* PgArgumentBuffer::reset_to_snapshot.
ResetToSnapshot(b, snapshot) ==
    [cells |-> SubSeq(b.cells, 1, Len(snapshot.cells)), count |-> snapshot.count,
     patches |-> SubSeq(b.patches, 1, Len(snapshot.patches)), holes |-> SubSeq(b.holes, 1, Len(snapshot.holes))]

\* PgArguments::add.
AddArgument(v) ==
    LET snapshot == arguments.buffer
        r == BufferEncode(snapshot, v)
    IN  /\ ~arguments.patched
        /\ Len(arguments.given) < MaxArguments
        /\ arguments' =
              IF r.ok
              THEN [arguments EXCEPT !.buffer = [r.b EXCEPT !.count = @ + 1], !.types = Append(@, v.type), !.given = Append(@, v)]
              ELSE [arguments EXCEPT !.buffer = ResetToSnapshot(r.b, snapshot)]

\* PgArguments::apply_patches: a JSON parameter takes no version byte; a
\* hole takes the OID of its type.
ApplyPatches(b, parameters) ==
    LET patched == FoldLeft(LAMBDA cells, p : IF parameters[p.arg] = "json" THEN [cells EXCEPT ![p.at] = JsonSpace] ELSE cells,
                            b.cells, b.patches)
    IN  FoldLeft(LAMBDA cells, h : [cells EXCEPT ![h.at] = TypeOids[h.type.name]], patched, b.holes)

\* The server resolves every JSON parameter to JSON or to JSONB.
RunQuery ==
    /\ ~arguments.patched
    /\ \E resolved \in [1..Len(arguments.given) -> {"json", "jsonb"}] :
          arguments' = [arguments EXCEPT !.patched = TRUE, !.query = resolved,
                                         !.buffer.cells = ApplyPatches(arguments.buffer, resolved)]

ArgumentsNext == (\E v \in Bindables : AddArgument(v)) \/ RunQuery
ArgumentsSpec == ArgumentsInit /\ [][ArgumentsNext]_arguments

-----------------------------------------------------------------------------
(* Decoding: the formats are the server's as well.                         *)

RECURSIVE Decode(_, _, _)

\* PgValueRef::get: a length and so many cells, or NULL.
Get(c, ty, D(_, _, _)) ==
    IF c = <<>> THEN [v |-> Garbage(ty), rest |-> <<>>]
    ELSE IF c[1] = -1 THEN [v |-> NullOf(ty), rest |-> Tail(c)]
    ELSE IF c[1] + 1 > Len(c) \/ c[1] < 0 THEN [v |-> Garbage(ty), rest |-> <<>>]
    ELSE [v |-> D(SubSeq(c, 2, c[1] + 1), ty, "jsonb"), rest |-> SubSeq(c, c[1] + 2, Len(c))]

\* The values of the given types in cells c, each behind `skip' cells.
GetAll(c, types, Skip(_, _)) ==
    FoldLeft(LAMBDA r, ty : LET g == Get(Skip(r.rest, ty), ty, Decode) IN [vs |-> Append(r.vs, g.v), rest |-> g.rest],
             [vs |-> <<>>, rest |-> c], types)

JsonOf(c, ty, resolved) ==
    IF c # <<>> /\ c[1] = (IF resolved = "json" THEN JsonSpace ELSE JsonbVersion) THEN Value("json", ty, Tail(c), <<>>) ELSE Garbage(ty)
\* An array and a record check the OID in front of their parts; an array
\* has one dimension and begins at one.
ArrayArgument(c, ty) ==
    IF Len(c) >= 5 /\ c[1] = 1 /\ c[3] = TypeOids[ty.of[1].name] /\ c[4] \in 0..MaxLen /\ c[5] = 1
    THEN Value("array", ty, <<>>, GetAll(SubSeq(c, 6, Len(c)), [i \in 1..c[4] |-> ty.of[1]], LAMBDA x, t : x).vs)
    ELSE Garbage(ty)
RecordOf(c, ty) ==
    IF c # <<>> /\ c[1] = Len(ty.of)
    THEN Value("record", ty, <<>>,
               GetAll(Tail(c), ty.of, LAMBDA x, t : IF x # <<>> /\ x[1] = TypeOids[t.name] THEN Tail(x) ELSE <<>>).vs)
    ELSE Garbage(ty)
RangeOf(c, ty) ==
    LET bit(n) == (c[1] \div n) % 2 = 1
        ends == << IF bit(LowerInfinite) THEN Unbounded ELSE IF bit(Inclusive) THEN Included ELSE Excluded,
                   IF bit(UpperInfinite) THEN Unbounded ELSE IF bit(UpperInclusive) THEN Included ELSE Excluded >>
        bounds == SelectSeq(ends, LAMBDA e : e # Unbounded)
    IN  IF c = <<>> THEN Garbage(ty)
        ELSE Value("range", ty, ends, GetAll(Tail(c), [i \in DOMAIN bounds |-> ty.of[1]], LAMBDA x, t : x).vs)
HstoreOf(c, ty) ==
    IF c # <<>> /\ c[1] \in 0..MaxLen
    THEN Value("hstore", ty, <<>>, GetAll(Tail(c), [i \in 1..(2 * c[1]) |-> ty.of[1]], LAMBDA x, t : x).vs)
    ELSE Garbage(ty)

\* Decode::decode of each type.
Decode(c, ty, resolved) ==
    CASE ty.shape = "plain" -> Value("plain", ty, c, <<>>)
      [] ty.shape = "json" -> JsonOf(c, ty, resolved)
      [] ty.shape = "array" -> ArrayArgument(c, ty)
      [] ty.shape = "record" -> RecordOf(c, ty)
      [] ty.shape = "range" -> RangeOf(c, ty)
      [] ty.shape = "hstore" -> HstoreOf(c, ty)

\* What the server reads: the parameters, one after the other.
ReadParameters ==
    FoldLeft(LAMBDA r, i :
                LET ty == arguments.types[i]
                    Resolved(c, t, unused) == Decode(c, t, arguments.query[i])
                    g == Get(r.rest, ty, Resolved)
                IN  [vs |-> Append(r.vs, g.v), rest |-> g.rest],
             [vs |-> <<>>, rest |-> arguments.buffer.cells], [i \in 1..arguments.buffer.count |-> i])

-----------------------------------------------------------------------------
\* The server reads exactly the values that were bound, in their order,
\* whatever failed to encode in between: no half-encoded value, no hole and
\* no patch of a refused value is left behind, and every hole and patch is
\* filled at its own place.  (arguments.rs:82-104)
BoundAsGiven ==
    arguments.patched => /\ ReadParameters.vs = arguments.given
                         /\ ReadParameters.rest = <<>>
                         /\ Len(arguments.types) = arguments.buffer.count

=============================================================================
