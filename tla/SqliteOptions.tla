---------------------------- MODULE SqliteOptions ---------------------------
(***************************************************************************)
(* SqliteConnectOptions: the URL they are read from and written to         *)
(* (options/parse.rs), the ordered pragmas (options/mod.rs), and how       *)
(* connect() opens a database with them (connection/establish.rs,          *)
(* options/connect.rs), step by step as each step may fail.                *)
(***************************************************************************)
EXTENDS UrlText, Integers, Sequences, SequencesExt, FiniteSets

CONSTANTS
    LiteUrls,      \* [filename, memory, query] of URLs a program may give
    LitePragmas,   \* pairs of a pragma and a value that setters may be given
    MaxSetters,    \* a bound on calls of setters
    MaxOpened      \* a bound on connections

VARIABLES
    parsed,        \* the options a program holds, a sequence
    lite_again,    \* the last of them through to_url_lossy() and from_url()
    db_seq,        \* IN_MEMORY_DB_SEQ
    calls,         \* setters called so far
    opening,       \* the connect() under way
    opened         \* connections: the options' index and what they opened

lite_vars == <<parsed, lite_again, db_seq, calls, opening, opened>>

LiteFailed == [err |-> TRUE]
LitePanicked == [err |-> TRUE, panic |-> TRUE]
Untried == [tried |-> FALSE]
NotOpening == [step |-> "idle"]

-----------------------------------------------------------------------------
(* The options                                                             *)

\* The map of pragmas is given all of these keys at first, so that a value
\* that is set later is still executed in this order.
StandardPragmas ==
    <<"key", "cipher_plaintext_header_size", "cipher_salt", "kdf_iter", "cipher_kdf_algorithm", "cipher_use_hmac", "cipher_compatibility",
      "cipher_page_size", "cipher_hmac_algorithm", "page_size", "locking_mode", "auto_vacuum", "journal_mode", "foreign_keys", "synchronous",
      "analysis_limit">>

LiteNew ==
    [err |-> FALSE, filename |-> <<<<0, ":memory:">>>>, in_memory |-> FALSE, read_only |-> FALSE, create_if_missing |-> FALSE,
     shared_cache |-> FALSE, immutable |-> FALSE, vfs |-> "", extensions |-> <<>>,
     pragmas |-> [i \in DOMAIN StandardPragmas |-> <<StandardPragmas[i], IF StandardPragmas[i] = "foreign_keys" THEN "ON" ELSE "">>]]

\* pragma(): IndexMap::insert keeps the place of a key that is there.
Pragma(o, key, value) ==
    LET at == SelectInSeq(o.pragmas, LAMBDA p : p[1] = key)
    IN  [o EXCEPT !.pragmas = IF at = 0 THEN Append(@, <<key, value>>) ELSE [@ EXCEPT ![at] = <<key, value>>]]
PragmaString(o) == SelectSeq(o.pragmas, LAMBDA p : p[2] # "")

SetMode(o, value) ==
    CASE value = "ro" -> [o EXCEPT !.read_only = TRUE]
      [] value = "rw" -> o
      [] value = "rwc" -> [o EXCEPT !.create_if_missing = TRUE]
      [] value = "memory" -> [o EXCEPT !.in_memory = TRUE, !.shared_cache = TRUE]
      [] OTHER -> LiteFailed
LiteParameter(o, pair) ==
    CASE o.err -> o
      [] ~o.err /\ pair[1] = "mode" -> SetMode(o, pair[2])
      [] ~o.err /\ pair[1] = "cache" -> IF pair[2] \in {"private", "shared"} THEN [o EXCEPT !.shared_cache = pair[2] = "shared"] ELSE LiteFailed
      [] ~o.err /\ pair[1] = "immutable" -> IF pair[2] \in {"true", "false"} THEN [o EXCEPT !.immutable = pair[2] = "true"] ELSE LiteFailed
      [] ~o.err /\ pair[1] = "vfs" -> [o EXCEPT !.vfs = pair[2]]
      [] OTHER -> LiteFailed

MemoryName(seq) == <<<<0, "file:">>, <<0, ToString(seq)>>>>

\* from_db_and_params.
FromDbAndParams(u, seq) ==
    FoldLeft(LiteParameter,
             IF u.memory THEN [LiteNew EXCEPT !.in_memory = TRUE, !.shared_cache = TRUE, !.filename = MemoryName(seq)]
             ELSE [LiteNew EXCEPT !.filename = PercentDecode(u.filename)],
             u.query)

UrlMode(o) == IF o.in_memory THEN "memory" ELSE IF o.create_if_missing THEN "rwc" ELSE IF o.read_only THEN "ro" ELSE "rw"

\* build_url.  What stands before the first `/' is read as a host and, behind
\* a colon, a port that must be a number: Url::parse refuses every other name
\* with a colon there, and those of databases in memory are such names.
LiteUrlPanics(o) ==
    \E i \in DOMAIN Before(o.filename, "/") : o.filename[i] \in {<<0, ":">>, <<0, "file:">>, <<0, ":memory:">>}
LiteBuildUrl(o) ==
    [memory |-> FALSE, filename |-> UrlEncode(o.filename, {"?", "#"}),
     query |-> <<<<"mode", UrlMode(o)>>, <<"cache", IF o.shared_cache THEN "shared" ELSE "private">>>>
        \o (IF o.immutable THEN <<<<"immutable", "true">>>> ELSE <<>>)
        \o (IF o.vfs # "" THEN <<<<"vfs", o.vfs>>>> ELSE <<>>)]

-----------------------------------------------------------------------------
(* EstablishParams                                                         *)

OpenFlags(o) ==
    (IF o.read_only THEN {"READONLY"} ELSE IF o.create_if_missing THEN {"CREATE", "READWRITE"} ELSE {"READWRITE"})
        \cup (IF o.in_memory THEN {"MEMORY"} ELSE {})
        \cup {IF o.shared_cache THEN "SHAREDCACHE" ELSE "PRIVATECACHE"}
        \cup (IF o.immutable \/ o.vfs # "" THEN {"URI"} ELSE {})

\* SQLite: which database a connection is to.  Databases in memory are told
\* apart by name when their cache is shared; otherwise each one is new.
DatabaseOf(o, n) ==
    IF "MEMORY" \in OpenFlags(o)
    THEN (IF o.shared_cache THEN [memory |-> TRUE, name |-> o.filename, own |-> 0] ELSE [memory |-> TRUE, name |-> <<>>, own |-> n])
    ELSE [memory |-> FALSE, name |-> o.filename, own |-> 0]

-----------------------------------------------------------------------------
LiteOptionsInit ==
    parsed = <<>> /\ lite_again = Untried /\ db_seq = 0 /\ calls = 0 /\ opening = NotOpening /\ opened = <<>>

LiteIdle == opening = NotOpening /\ lite_again = Untried
Current == parsed[Len(parsed)]

ParseUrl(u) ==
    /\ LiteIdle /\ Len(parsed) < 2
    /\ LET o == FromDbAndParams(u, db_seq) IN parsed' = IF o.err THEN parsed ELSE Append(parsed, o)
    /\ db_seq' = IF u.memory THEN db_seq + 1 ELSE db_seq
    /\ UNCHANGED <<lite_again, calls, opening, opened>>
Change(o) ==
    /\ LiteIdle /\ parsed # <<>> /\ calls < MaxSetters /\ opened = <<>>
    /\ parsed' = [parsed EXCEPT ![Len(parsed)] = o]
    /\ calls' = calls + 1
    /\ UNCHANGED <<lite_again, db_seq, opening, opened>>
SetPragma(p) == parsed # <<>> /\ Change(Pragma(Current, p[1], p[2]))
AddExtension == parsed # <<>> /\ Change([Current EXCEPT !.extensions = Append(@, "extension")])
SetReadOnly == parsed # <<>> /\ Change([Current EXCEPT !.read_only = TRUE])
LiteThroughUrl ==
    /\ LiteIdle /\ parsed # <<>>
    /\ lite_again' = IF LiteUrlPanics(Current) THEN LitePanicked ELSE FromDbAndParams(LiteBuildUrl(Current), db_seq)
    /\ UNCHANGED <<parsed, db_seq, calls, opening, opened>>

\* connect().  `loading' is SQLITE_DBCONFIG_ENABLE_LOAD_EXTENSION.
Connect(i) ==
    /\ LiteIdle /\ Len(opened) < MaxOpened
    /\ opening' = [step |-> "open", of |-> i, loading |-> FALSE, loaded |-> 0, executed |-> <<>>]
    /\ UNCHANGED <<parsed, lite_again, db_seq, calls, opened>>
OpenV2 ==
    /\ opening.step = "open"
    /\ opening' = [opening EXCEPT !.step = IF parsed[opening.of].extensions = <<>> THEN "functions" ELSE "extensions",
                                  !.loading = parsed[opening.of].extensions # <<>>]
    /\ UNCHANGED <<parsed, lite_again, db_seq, calls, opened>>
LoadExtension ==
    /\ opening.step = "extensions" /\ opening.loaded < Len(parsed[opening.of].extensions)
    /\ opening' = [opening EXCEPT !.loaded = @ + 1]
    /\ UNCHANGED <<parsed, lite_again, db_seq, calls, opened>>

ExtensionsLoaded ==
    /\ opening.step = "extensions" /\ opening.loaded = Len(parsed[opening.of].extensions)
    /\ opening' = [opening EXCEPT !.step = "functions", !.loading = FALSE]
    /\ UNCHANGED <<parsed, lite_again, db_seq, calls, opened>>
\* The regexp function and the busy timeout.
RegisterFunctions ==
    /\ opening.step = "functions"
    /\ opening' = [opening EXCEPT !.step = "pragmas"]
    /\ UNCHANGED <<parsed, lite_again, db_seq, calls, opened>>
ExecutePragma ==
    /\ opening.step = "pragmas"
    /\ LET pragmas == PragmaString(parsed[opening.of]) IN
           /\ Len(opening.executed) < Len(pragmas)
           /\ opening' = [opening EXCEPT !.executed = Append(@, pragmas[Len(@) + 1])]
    /\ UNCHANGED <<parsed, lite_again, db_seq, calls, opened>>
CreateCollations ==
    /\ opening.step = "pragmas" /\ Len(opening.executed) = Len(PragmaString(parsed[opening.of]))
    /\ opened' = Append(opened, [of |-> opening.of, database |-> DatabaseOf(parsed[opening.of], Len(opened) + 1), executed |-> opening.executed])
    /\ opening' = NotOpening
    /\ UNCHANGED <<parsed, lite_again, db_seq, calls>>
\* Whichever step fails, the handle is closed as it is dropped.
EstablishFails ==
    /\ opening # NotOpening
    /\ opening' = NotOpening
    /\ UNCHANGED <<parsed, lite_again, db_seq, calls, opened>>

LiteOptionsNext ==
    \/ \E u \in LiteUrls : ParseUrl(u)
    \/ \E p \in LitePragmas : SetPragma(p)
    \/ AddExtension \/ SetReadOnly \/ LiteThroughUrl
    \/ \E i \in DOMAIN parsed : Connect(i)
    \/ OpenV2 \/ LoadExtension \/ ExtensionsLoaded \/ RegisterFunctions \/ ExecutePragma \/ CreateCollations \/ EstablishFails
LiteOptionsSpec == LiteOptionsInit /\ [][LiteOptionsNext]_lite_vars

-----------------------------------------------------------------------------
\* Whatever the order of the setters, a connection has executed `key' before
\* anything else, and the page size, the locking mode and auto_vacuum before
\* the journal mode, which would fix them.  (options/mod.rs:111-190)
PragmasInOrder ==
    \A c \in ToSet(opened) :
        LET At(key) == SelectInSeq(c.executed, LAMBDA p : p[1] = key)
            has(key) == \E i \in DOMAIN c.executed : c.executed[i][1] = key
        IN  /\ has("key") => At("key") = 1
            /\ has("journal_mode") => \A key \in {"page_size", "locking_mode", "auto_vacuum"} : has(key) => At(key) < At("journal_mode")
            /\ \A p \in ToSet(c.executed) : p \in ToSet(parsed[c.of].pragmas)

\* All connections of one `sqlite::memory:' see one database, and those of
\* another one another; a private cache makes every connection its own.
\* (options/parse.rs:20-24)
MemoryIsShared ==
    \A c, d \in ToSet(opened) :
        (c.database.memory /\ d.database.memory /\ c.database.own = 0 /\ d.database.own = 0 /\ parsed[c.of].filename[1] = <<0, "file:">>)
            => (c.database = d.database <=> c.of = d.of)

\* SQL of the program, which pragmas already are, is never run while SQLite
\* may load extensions.  (connection/establish.rs:214-262)
LoadingIsOff == (opening # NotOpening /\ opening.step = "pragmas") => ~opening.loading

\* What to_url_lossy() gives opens the same database in the same way, as
\* sqlx-core connection.rs:226-236 promises of the path, except where the code
\* breaks that: it panics for a database in memory and for a name with a colon
\* (LiteUrlPanics), a percent sign in a name is decoded, and a read-only
\* database that may be created or is in memory is no longer read-only.
\* (options/parse.rs:118-162)
LiteUrlReadsBack ==
    (lite_again # Untried /\ ~LiteUrlPanics(Current) /\ NoPercent(Current.filename)) =>
        /\ ~lite_again.err
        /\ lite_again.filename = Current.filename /\ lite_again.vfs = Current.vfs
        /\ ~(Current.read_only /\ (Current.create_if_missing \/ Current.in_memory))
               => OpenFlags(lite_again) \ {"CREATE"} = OpenFlags(Current) \ {"CREATE"}
        /\ (Current.create_if_missing /\ ~Current.in_memory) => "CREATE" \in OpenFlags(lite_again)

=============================================================================
