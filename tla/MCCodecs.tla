-------------------------- MODULE MCCodecs --------------------------
(***************************************************************************)
(* Types, values, options, queries and their offline data, on small        *)
(* instances: a behaviour is about one of the components, the others rest. *)
(***************************************************************************)
EXTENDS PgTypeInfo, PgNumeric, PgArguments, PgTextFormat, MySqlRows, MySqlTimes, PgOptions, MySqlOptions, SqliteOptions, SqliteTypes, AnyDriver, QueryBuilder, OfflineCache

VARIABLE scene    \* which component this behaviour is about

\* Numbers of up to five digits, with the point anywhere around them.
TheBigDecimals == {<<0>>} \cup UNION {[1..k -> {0, 7}] : k \in 1..5}
TheExponents == -5..6

\* Values of every kind, with types known by OID and by name.
Int4 == PgType("oid", "int4", "plain", <<>>)
Mood == PgType("name", "mood", "plain", <<>>)
Jsonb == PgType("oid", "jsonb", "json", <<>>)
TextType == PgType("oid", "text", "plain", <<>>)
Moods == PgType("array", "mood[]", "array", <<Mood>>)
Ints == PgType("oid", "int4[]", "array", <<Int4>>)
Pair == PgType("name", "pair", "record", <<Mood, Ints, Int4>>)
Pairs == PgType("array", "pair[]", "array", <<Pair>>)
IntRange == PgType("oid", "int4range", "range", <<Int4>>)
Hstore == PgType("name", "hstore", "hstore", <<TextType>>)
Num(n) == Value("plain", Int4, <<n>>, <<>>)
Happy == Value("plain", Mood, <<100, 101>>, <<>>)
TheBindables == {
    Num(7), NullOf(Int4), Happy, Value("plain", TextType, <<>>, <<>>),
    Value("json", Jsonb, <<200>>, <<>>),
    Value("array", Ints, <<>>, <<Num(1), NullOf(Int4), Num(3)>>),
    Value("array", Moods, <<>>, <<Happy, NullOf(Mood)>>),
    Value("record", Pair, <<>>, <<Happy, Value("array", Ints, <<>>, <<>>), Num(5)>>),
    Value("array", Pairs, <<>>, <<Value("record", Pair, <<>>, <<NullOf(Mood), NullOf(Ints), Num(5)>>)>>),
    Value("range", IntRange, <<Included, Excluded>>, <<Num(1), Num(4)>>),
    Value("range", IntRange, <<Unbounded, Included>>, <<Num(4)>>),
    Value("hstore", Hstore, <<>>, <<Value("plain", TextType, <<300>>, <<>>), NullOf(TextType)>>),
    \* refused half-way: with a hole, with a patch, and for its size
    Value("array", Moods, <<>>, <<Happy, Value("error", Mood, <<9>>, <<>>)>>),
    Value("array", Ints, <<>>, <<Value("json", Jsonb, <<8>>, <<>>), Value("error", Int4, <<>>, <<>>)>>),
    Value("plain", TextType, [i \in 1..30 |-> 1], <<>>)}
TheTypeOids == [t \in {"int4", "mood", "jsonb", "text", "mood[]", "int4[]", "pair", "pair[]"} |->
    CASE t = "int4" -> 23 [] t = "mood" -> 9001 [] t = "jsonb" -> 3802 [] t = "text" -> 25
      [] t = "mood[]" -> 9002 [] t = "int4[]" -> 1007 [] t = "pair" -> 9003 [] t = "pair[]" -> 9004]

\* Blobs around each step of the length encoding, and seven columns for two
\* bytes of a NULL bitmap.
Blob(n) == Cell("blob", FALSE, FALSE, 0, [i \in 1..n |-> (3 * i + n) % 8])
MyInt(type, unsigned, n) == Cell(type, unsigned, FALSE, n, <<n % 8>>)
Null(type) == Cell(type, FALSE, TRUE, 0, <<>>)
Bit(n) == Cell("bit", TRUE, FALSE, n, <<n \div 8, n % 8>>)
Date(n) == Cell("date", FALSE, FALSE, 0, [i \in 1..n |-> i])
BoundCell(type, unsigned, n) == Cell(type, unsigned, FALSE, n, <<>>)
TheMyArguments == {Blob(0), Blob(2), Blob(3), Blob(64), BoundCell("tiny", TRUE, 7), BoundCell("tiny", FALSE, -4),
                   BoundCell("longlong", FALSE, -1), Null("blob"), Cell("error", FALSE, FALSE, 0, <<1, 2>>)}
TheMyRows ==
    LET cells == {Blob(0), Blob(3), Blob(64), MyInt("short", FALSE, -32), MyInt("long", TRUE, 4095),
                  MyInt("int24", FALSE, -7), Bit(13), Date(4), Null("date"), Null("long")}
    IN  UNION {[1..n -> cells] : n \in 0..3}
        \cup {[i \in 1..7 |-> IF i \in nulls THEN Null("long") ELSE MyInt("tiny", TRUE, i)] : nulls \in SUBSET (1..7)}
        \cup {<<Blob(511)>>, <<Blob(512), Blob(1)>>}
TheMyIntegers ==
    {BoundCell(t, TRUE, n) : t \in {"short", "int24", "longlong"}, n \in {0, 3, 4, 7, 8, 31, 32, 63}}
        \cup {BoundCell("longlong", TRUE, n) : n \in {2047, 2048, 4095, 4096, 8388607, 8388608, 16777215}}
        \cup {BoundCell(t, FALSE, n) : t \in {"short", "long", "longlong"}, n \in {-32, -5, -4, -1, 0, 3, 4, 31}}
        \cup {BoundCell("year", TRUE, 42), Bit(0), Bit(7), Bit(8), Bit(63)}

\* A password file with a wildcard entry, a bare environment, and one whose
\* files are for everybody to read.
T(c) == <<<<0, c>>>>
Entry(host, port, database, username, password) == [host |-> host, port |-> port, database |-> database, username |-> username, password |-> password]
Bare == [host |-> "", port |-> 0, username |-> T("a"), password |-> NoText, database |-> NoText, sockets |-> {}, files |-> <<>>,
         ssl_mode |-> "", ssl_root_cert |-> NoText, ssl_cert |-> NoText, ssl_key |-> NoText, app_name |-> "", options |-> <<>>]
ThePgpass == <<Entry("db1", 0, T("*"), T("b"), T("1")), Entry("db1", 6000, T("*"), T("*"), T("2")), Entry("db2", 0, T("d"), T("*"), T("3")), Entry("*", 5432, T("*"), T("a"), T("4"))>>
TheEnvironments == {
    Bare, [Bare EXCEPT !.sockets = {5432}, !.ssl_mode = "unknown", !.app_name = "env"],
    [Bare EXCEPT !.ssl_mode = "require", !.ssl_root_cert = <<"CERTIFICATE">>, !.ssl_cert = <<"cert">>, !.ssl_key = <<"PRIVATE KEY">>, !.options = <<"-c jit=off">>],
    [Bare EXCEPT !.password = T("p"), !.host = "db1", !.port = 6000, !.database = T("d")],
    [Bare EXCEPT !.files = <<[private |-> TRUE, entries |-> ThePgpass]>>],
    [Bare EXCEPT !.files = <<[private |-> FALSE, entries |-> <<Entry("*", 0, T("*"), T("*"), T("9"))>>], [private |-> TRUE, entries |-> Tail(ThePgpass)]>>, !.host = "db1"]}
ThePairs == {<<"host", "db1">>, <<"host", "/run">>, <<"hostaddr", "name">>, <<"port", 6000>>, <<"port", 0>>, <<"dbname", T("d")>>, <<"user", T("b")>>,
             <<"password", T("q")>>, <<"sslmode", "require">>, <<"sslmode", "unknown">>, <<"sslkey", <<"key">>>>, <<"options", "-c geqo=off">>,
             <<"application_name", "app">>, <<"other", "x">>}
ThePgUrls ==
    {[host |-> h, port |-> p, username |-> u, password |-> w, path |-> d, query |-> q] :
        h \in {"", "db2", "/run"}, p \in {0, 6000}, u \in {NoText, T("b")}, w \in {NoText},
        d \in {NoText, <<<<0, "/">>, <<0, "d">>>>}, q \in SeqOf(ThePairs, 2) \ {<<>>}}
        \cup {[NoUrl EXCEPT !.host = "db1", !.username = T("b"), !.password = <<<<0, "w">>, <<1, "@">>>>, !.query = q] : q \in SeqOf(ThePairs, 1)}
ThePgpassFields == SeqOf({"a", ":", "\\", "*", "#"}, 2) \cup {<<"a", "\\", ":">>, <<":", ":", "\\">>}
ThePgTexts == {T("a"), <<<<0, "a">>, <<0, ":">>, <<0, "b">>>>, <<<<0, "@">>>>, <<<<1, "@">>>>, <<<<0, "a">>, <<0, "/">>>>, <<<<0, "?">>, <<2, "@">>>>}

MyT(c) == <<<<0, c>>>>
TheMyPairs == {<<"ssl-mode", "REQUIRED">>, <<"sslmode", "unknown">>, <<"ssl-ca", <<"ca">>>>, <<"charset", "latin1">>, <<"charset", "nonesuch">>,
               <<"collation", <<"latin1", "bin">>>>, <<"sslkey", <<"key">>>>, <<"socket", "/run">>, <<"time-zone", "+08:00">>, <<"other", "x">>}
TheMyUrls ==
    {[host |-> h, port |-> p, username |-> MyT("b"), password |-> NoText, path |-> MyT("d"), query |-> q] :
        h \in {"", "db2"}, p \in {0, 3307}, q \in SeqOf(TheMyPairs, 2)}
TheMyTexts == {MyT("a"), <<<<0, "a">>, <<0, ":">>, <<0, "b">>>>, <<<<0, "@">>>>, <<<<1, "@">>>>, <<<<0, "a">>, <<0, "/">>>>, <<<<0, "?">>, <<2, "@">>>>}

LiteUrl(filename, in_memory, pairs) == [filename |-> filename, memory |-> in_memory, query |-> pairs]
TheLiteUrls ==
    {LiteUrl(<<>>, TRUE, <<>>), LiteUrl(<<>>, TRUE, <<<<"cache", "private">>>>), LiteUrl(<<<<0, "a">>, <<1, "?">>, <<1, "#">>>>, FALSE, <<<<"vfs", "unix">>>>),
     LiteUrl(<<<<2, "#">>>>, FALSE, <<<<"immutable", "true">>>>),
     LiteUrl(<<<<0, "a">>, <<0, ":">>, <<0, "b">>>>, FALSE, <<>>), LiteUrl(<<<<0, "/">>, <<0, ":">>>>, FALSE, <<<<"mode", "ro">>>>), LiteUrl(<<<<0, "a">>>>, FALSE, <<<<"other", "x">>>>)}
        \cup {LiteUrl(<<<<0, "a">>>>, FALSE, <<<<"mode", mode>>>>) : mode \in {"ro", "rw", "rwc", "memory", "unknown"}}
TheLitePragmas == {<<"journal_mode", "WAL">>, <<"page_size", "8192">>, <<"key", "secret">>, <<"auto_vacuum", "FULL">>, <<"cache_size", "10">>}

TheTuples == {<<>>, <<<<"bind">>, <<"bind", "item">>>>}

\* Two members share a query; a package outside the workspace has one too.
ThePackages == {"sqlx-macros", "sqlx", "dep", "lib", "app"}
TheDependencies == {<<"sqlx", "sqlx-macros">>, <<"dep", "sqlx">>, <<"lib", "sqlx">>, <<"app", "lib">>, <<"app", "sqlx">>}
TheQueries == [p \in ThePackages |-> CASE p \in {"lib", "app"} -> {"q"} [] p = "dep" -> {"r"} [] OTHER -> {}]

Scenes == {"types", "numeric", "arguments", "text", "rows", "times", "pg_url", "my_url", "lite_url", "lite_types", "any", "builder", "offline"}

\* The other components rest in one of their initial states.
CodecsInit ==
    /\ scene \in Scenes
    /\ TypesInit
    /\ NumericInit
    /\ ArgumentsInit
    /\ TextInit
    /\ RowsInit
    /\ TimesInit
    /\ OptionsInit
    /\ scene # "pg_url" => environment = Bare
    /\ MyOptionsInit
    /\ LiteOptionsInit
    /\ LiteInit
    /\ AnyInit
    /\ BuilderInit
    /\ scene # "builder" => ~builder.given
    /\ OfflineInit
    /\ scene # "offline" => scope = "workspace" /\ fresh = {}

OthersRest ==
    /\ scene' = scene
    /\ IF scene = "types" THEN TRUE ELSE UNCHANGED compared
    /\ IF scene = "numeric" THEN TRUE ELSE UNCHANGED numeric
    /\ IF scene = "arguments" THEN TRUE ELSE UNCHANGED arguments
    /\ IF scene = "text" THEN TRUE ELSE UNCHANGED text
    /\ IF scene = "rows" THEN TRUE ELSE UNCHANGED packet
    /\ IF scene = "times" THEN TRUE ELSE UNCHANGED moment
    /\ IF scene = "pg_url" THEN TRUE ELSE UNCHANGED option_vars
    /\ IF scene = "my_url" THEN TRUE ELSE UNCHANGED my_option_vars
    /\ IF scene = "lite_url" THEN TRUE ELSE UNCHANGED lite_vars
    /\ IF scene = "lite_types" THEN TRUE ELSE UNCHANGED lite
    /\ IF scene = "any" THEN TRUE ELSE UNCHANGED any_vars
    /\ IF scene = "builder" THEN TRUE ELSE UNCHANGED builder_vars
    /\ IF scene = "offline" THEN TRUE ELSE UNCHANGED offline_vars

CodecsNext ==
    \/ scene = "types" /\ TypesNext /\ OthersRest
    \/ scene = "numeric" /\ NumericNext /\ OthersRest
    \/ scene = "arguments" /\ ArgumentsNext /\ OthersRest
    \/ scene = "text" /\ TextNext /\ OthersRest
    \/ scene = "rows" /\ RowsNext /\ OthersRest
    \/ scene = "times" /\ TimesNext /\ OthersRest
    \/ scene = "pg_url" /\ OptionsNext /\ OthersRest
    \/ scene = "my_url" /\ MyOptionsNext /\ OthersRest
    \/ scene = "lite_url" /\ LiteOptionsNext /\ OthersRest
    \/ scene = "lite_types" /\ LiteNext /\ OthersRest
    \/ scene = "any" /\ AnyNext /\ OthersRest
    \/ scene = "builder" /\ BuilderNext /\ OthersRest
    \/ scene = "offline" /\ OfflineNext /\ OthersRest

all_vars == <<scene, compared, numeric, arguments, text, packet, moment, option_vars, my_option_vars, lite_vars, lite, any_vars, builder_vars, offline_vars>>

CodecsSpec == CodecsInit /\ [][CodecsNext]_all_vars

-----------------------------------------------------------------------------
(* Properties: what is bound, sent, stored or written as a URL reads back. *)

\* PostgreSQL: the tables of type_info.rs agree with each other, and numbers,
\* arguments, arrays, records and ranges survive the binary and text formats.
PgValuesReadBack ==
    /\ scene = "types" => TablesAgree /\ SameTypeCompatible /\ DifferentTypesDiffer /\ SpellingsAgree
    /\ scene = "numeric" => NumberExact /\ BigDecimalExact /\ DecimalReadsBack /\ MoneyReadsBack
    /\ scene = "arguments" => BoundAsGiven
    /\ scene = "text" => ArrayReadsBack /\ RecordReadsBack /\ PlainRangeReadsBack

\* MySQL: length-encoded values, NULL bitmaps, integers of each width, dates
\* and times survive the binary and the text protocol, but for the three
\* kinds of negative TIME that SignLost, FractionTurned and TimeOfDayRead
\* name, whose sign the code gets wrong.
MySqlValuesReadBack ==
    /\ scene = "rows" => MyBoundAsGiven /\ BinaryRowReadsBack /\ TextRowReadsBack /\ NumberKept
    /\ scene = "times" =>
         /\ TimeReadsBack /\ TimeTextReadsBack /\ NewIsExact /\ OrderIsTotal
         /\ DurationTruncated /\ DurationRead /\ TimeOfDayRead /\ DateTimeReadsBack


\* Values through SQLite's dynamic types, and through the Any driver on each
\* of the three databases, are kept, read as NULL, or refused; none is altered.
EngineTypesConvert ==
    /\ scene = "lite_types" =>
         /\ LiteIntegerKept /\ DeclaredTypeHolds /\ InstantReadsBack
         /\ DocumentedTextsRead /\ JulianDayExact
    /\ scene = "any" =>
         /\ AnyReadsBack /\ AnyNullIsNone /\ AnyIntegersConvert
         /\ AnySiteWorks /\ FirstRowFetched

\* QueryBuilder and Query: the n-th placeholder belongs to the n-th argument,
\* separators stand between items, a failed bind is reported by execution.
BuiltQueriesAgree ==
    scene = "builder" =>
        PlaceholdersAgree /\ SeparatorsBetween /\ BindErrorSticks /\ PersistentKept

\* What a build without a database reads from .sqlx is what a build with one
\* would have got.
OfflineAgrees ==
    scene = "offline" => PreparedIsComplete /\ CheckedAgrees /\ OfflineIsLive
=============================================================================
