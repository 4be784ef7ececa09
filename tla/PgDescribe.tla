------------------------------ MODULE PgDescribe ------------------------------
(***************************************************************************)
(* Type resolution of a PostgreSQL connection                              *)
(* (sqlx-postgres/src/connection/describe.rs): the types of columns and    *)
(* parameters are read from pg_catalog with one query per level of the     *)
(* type, and kept in three maps that nothing ever invalidates.  Other      *)
(* sessions change the catalog meanwhile; a call may be dropped at any     *)
(* query.                                                                  *)
(***************************************************************************)
EXTENDS Naturals, Sequences

CONSTANTS
    MaxDdl,       \* bound: changes of the catalog by other sessions
    MaxResolves   \* bound: calls

VARIABLES
    catalog,                  \* pg_type, with what pg_enum, pg_range and pg_attribute add
    cache_type_info,          \* oid -> PgCustomType
    cache_type_oid,           \* name -> oid
    cache_elem_type_to_array, \* oid of an element type -> oid of its array type
    stack,                    \* the nested maybe_fetch_type_info_by_oid() calls
    answers,                  \* the type or oid the last call returned
    ddl, resolves             \* counters

describe_vars == <<catalog, cache_type_info, cache_type_oid, cache_elem_type_to_array,
                   stack, answers, ddl, resolves>>

\* Types of the catalog: kind, the types it is made of, and its array type.
\* Oids below 10 are built in (PgTypeInfo::try_from_oid).
TypeRow(name, kind, refs, array) == [name |-> name, kind |-> kind, refs |-> refs, array |-> array]
InitialCatalog ==
    [o \in {1, 11, 12, 13, 14, 15} |->
        CASE o = 1  -> TypeRow("int4", "Simple", <<>>, 0)
          [] o = 11 -> TypeRow("mood", "Enum", <<>>, 12)
          [] o = 12 -> TypeRow("mood[]", "Array", <<11>>, 0)
          [] o = 13 -> TypeRow("moods", "Domain", <<12>>, 0)
          [] o = 14 -> TypeRow("item", "Composite", <<1, 13, 11>>, 0)
          [] o = 15 -> TypeRow("span", "Range", <<13>>, 0)]

BuiltIn(o) == o < 10
Names == {"mood", "mood[]", "item"}
NoEntries == [o \in {} |-> 0]
Put(f, k, v) == [x \in DOMAIN f \cup {k} |-> IF x = k THEN v ELSE f[x]]
OidOf(name) == CHOOSE o \in DOMAIN catalog : catalog[o].name = name
Named(name) == \E o \in DOMAIN catalog : catalog[o].name = name

DescribeInit ==
    /\ catalog = InitialCatalog
    /\ cache_type_info = NoEntries /\ cache_type_oid = NoEntries /\ cache_elem_type_to_array = NoEntries
    /\ stack = <<>> /\ answers = <<>> /\ ddl = 0 /\ resolves = 0

Caches == <<cache_type_info, cache_type_oid, cache_elem_type_to_array>>
Top == stack[Len(stack)]
Below == SubSeq(stack, 1, Len(stack) - 1)

\* PgCustomType, or a built-in type.
Info(o, row, parts) == [oid |-> o, name |-> row.name, kind |-> row.kind, parts |-> parts]

\* The value of a nested call goes to the frame that asked for it.
Handed(frames, info) ==
    [frames EXCEPT ![Len(frames)].parts = Append(@, info)]

-----------------------------------------------------------------------------
\* handle_row_description() and handle_parameter_description() ask for a type;
\* without should_fetch an unknown type is DeclareWithOid.
AskType(o, should_fetch) ==
    /\ stack = <<>> /\ resolves < MaxResolves /\ resolves' = resolves + 1
    /\ IF should_fetch
       THEN stack' = <<[oid |-> o, at |-> "look", row |-> InitialCatalog[1], parts |-> <<>>]>> /\ answers' = <<>>
       ELSE /\ answers' = IF o \in DOMAIN cache_type_info THEN <<cache_type_info[o]>> ELSE <<>>
            /\ UNCHANGED stack
    /\ UNCHANGED <<catalog, ddl>> /\ UNCHANGED Caches

\* A call ends: its caller is the frame below, or the user.
ReturnInfo(info) ==
    IF Below = <<>>
    THEN stack' = <<>> /\ answers' = <<info>>
    ELSE stack' = Handed(Below, info) /\ UNCHANGED answers

\* maybe_fetch_type_info_by_oid(): built-in types and cached ones first.
LookUp ==
    /\ stack # <<>> /\ Top.at = "look"
    /\ \/ BuiltIn(Top.oid) /\ ReturnInfo(Info(Top.oid, InitialCatalog[1], <<>>))
       \/ /\ ~BuiltIn(Top.oid) /\ Top.oid \in DOMAIN cache_type_info
          /\ ReturnInfo(cache_type_info[Top.oid])
       \/ /\ ~BuiltIn(Top.oid) /\ Top.oid \notin DOMAIN cache_type_info
          /\ stack' = [stack EXCEPT ![Len(stack)].at = "fetch"]
          /\ UNCHANGED answers
    /\ UNCHANGED <<catalog, ddl, resolves>> /\ UNCHANGED Caches

\* The query of fetch_type_by_oid(), with that of its kind; no row is an error
\* of the whole call.
FetchType ==
    /\ stack # <<>> /\ Top.at = "fetch"
    /\ stack' = IF Top.oid \in DOMAIN catalog
                THEN [stack EXCEPT ![Len(stack)].at = "parts", ![Len(stack)].row = catalog[Top.oid]]
                ELSE <<>>
    /\ UNCHANGED <<catalog, answers, ddl, resolves>> /\ UNCHANGED Caches

\* The types a type is made of are fetched in order.
FetchPart ==
    /\ stack # <<>> /\ Top.at = "parts" /\ Len(Top.parts) < Len(Top.row.refs)
    /\ stack' = Append(stack, [oid |-> Top.row.refs[Len(Top.parts) + 1], at |-> "look",
                               row |-> InitialCatalog[1], parts |-> <<>>])
    /\ UNCHANGED <<catalog, answers, ddl, resolves>> /\ UNCHANGED Caches

\* Mutant: the name is not entered.
StoreTypeUnnamed ==
    /\ stack # <<>> /\ Top.at = "parts" /\ Len(Top.parts) = Len(Top.row.refs)
    /\ LET info == Info(Top.oid, Top.row, Top.parts) IN
       /\ cache_type_info' = Put(cache_type_info, Top.oid, info)
       /\ ReturnInfo(info)
    /\ UNCHANGED <<catalog, cache_type_oid, cache_elem_type_to_array, ddl, resolves>>

\* Both maps are filled when the type is complete.
StoreType ==
    /\ stack # <<>> /\ Top.at = "parts" /\ Len(Top.parts) = Len(Top.row.refs)
    /\ LET info == Info(Top.oid, Top.row, Top.parts) IN
       /\ cache_type_info' = Put(cache_type_info, Top.oid, info)
       /\ cache_type_oid' = Put(cache_type_oid, info.name, Top.oid)
       /\ ReturnInfo(info)
    /\ UNCHANGED <<catalog, cache_elem_type_to_array, ddl, resolves>>

\* fetch_type_id_by_name().
AskName(name) ==
    /\ stack = <<>> /\ resolves < MaxResolves /\ resolves' = resolves + 1
    /\ \/ name \in DOMAIN cache_type_oid /\ answers' = <<cache_type_oid[name]>> /\ UNCHANGED cache_type_oid
       \/ /\ name \notin DOMAIN cache_type_oid /\ Named(name)
          /\ answers' = <<OidOf(name)>>
          /\ cache_type_oid' = Put(cache_type_oid, name, OidOf(name))
       \/ /\ name \notin DOMAIN cache_type_oid /\ ~Named(name)
          /\ answers' = <<>> /\ UNCHANGED cache_type_oid
    /\ UNCHANGED <<catalog, cache_type_info, cache_elem_type_to_array, stack, ddl>>

\* fetch_array_type_id(), by the name of the element type.
AskArray(name) ==
    LET known == /\ name \in DOMAIN cache_type_oid
                 /\ cache_type_oid[name] \in DOMAIN cache_elem_type_to_array
    IN
    /\ stack = <<>> /\ resolves < MaxResolves /\ resolves' = resolves + 1
    /\ \/ /\ known
          /\ answers' = <<cache_elem_type_to_array[cache_type_oid[name]]>>
          /\ UNCHANGED Caches
       \/ /\ ~known /\ Named(name)
          /\ answers' = <<catalog[OidOf(name)].array>>
          /\ cache_type_oid' = Put(cache_type_oid, name, OidOf(name))
          /\ cache_elem_type_to_array' =
                Put(cache_elem_type_to_array, OidOf(name), catalog[OidOf(name)].array)
          /\ UNCHANGED cache_type_info
       \/ ~known /\ ~Named(name) /\ answers' = <<>> /\ UNCHANGED Caches
    /\ UNCHANGED <<catalog, stack, ddl>>

\* The future is dropped at one of its queries.
CancelResolve ==
    /\ stack # <<>> /\ stack' = <<>>
    /\ UNCHANGED <<catalog, answers, ddl, resolves>> /\ UNCHANGED Caches

\* Another session recreates the enum under a new oid, or alters the composite.
Recreate ==
    /\ ddl < MaxDdl /\ ddl' = ddl + 1
    /\ \/ catalog' = [o \in (DOMAIN catalog \ {11, 12, 13, 14, 15}) \cup {21, 22} |->
                        IF o = 21 THEN TypeRow("mood", "Enum", <<>>, 22) ELSE
                        IF o = 22 THEN TypeRow("mood[]", "Array", <<21>>, 0) ELSE catalog[o]]
       \/ 14 \in DOMAIN catalog /\ catalog' = [catalog EXCEPT ![14].refs = <<1, 13>>]
    /\ UNCHANGED <<stack, answers, resolves>> /\ UNCHANGED Caches

DescribeNext ==
    \/ \E o \in {1, 11, 12, 13, 14, 15, 22}, f \in BOOLEAN : AskType(o, f)
    \/ \E n \in Names : AskName(n) \/ AskArray(n)
    \/ LookUp \/ FetchType \/ FetchPart \/ StoreType \/ CancelResolve \/ Recreate

DescribeSpec == DescribeInit /\ [][DescribeNext]_describe_vars

-----------------------------------------------------------------------------
\* The type an oid stands for in a catalog: the reference the caches are
\* compared with.
Expand[o \in {1, 11, 12, 13, 14, 15}] ==
    Info(o, InitialCatalog[o],
         IF BuiltIn(o) THEN <<>>
         ELSE [i \in DOMAIN InitialCatalog[o].refs |-> Expand[InitialCatalog[o].refs[i]]])

\* As long as nobody changes the catalog, what the caches say is what the
\* catalog says, down to the innermost type, whichever calls were dropped
\* half-way and in whatever order types were met.
CachesFaithful ==
    ddl = 0 =>
        /\ \A o \in DOMAIN cache_type_info : cache_type_info[o] = Expand[o]
        /\ \A n \in DOMAIN cache_type_oid : catalog[cache_type_oid[n]].name = n
        /\ \A o \in DOMAIN cache_elem_type_to_array : cache_elem_type_to_array[o] = catalog[o].array

\* "cache the type name <-> oid relationship in a paired hashmap": every type
\* in cache_type_info is found by its name, unless the name has been given to
\* a newer type since.
CachesPaired ==
    \A o \in DOMAIN cache_type_info :
        LET n == cache_type_info[o].name IN
        n \in DOMAIN cache_type_oid /\ (cache_type_oid[n] = o \/ ddl > 0)
=============================================================================
