---------------------------- MODULE MySqlOptions ----------------------------
(***************************************************************************)
(* MySqlConnectOptions: the URL they are read from and written to          *)
(* (options/parse.rs), the character set and collation that the handshake  *)
(* and the first statement of a connection choose (collation.rs,           *)
(* connection/establish.rs, options/connect.rs).                           *)
(***************************************************************************)
EXTENDS UrlText, Integers, Sequences, SequencesExt, TLC

CONSTANTS MyUrls, MyTexts

VARIABLES
    my_options,    \* MySqlConnectOptions, or MyUnset
    my_again,      \* the same, through to_url_lossy() and from_url()
    session        \* what connect() has told the server

my_option_vars == <<my_options, my_again, session>>

MyUnset == [set |-> FALSE]
MyFailed == [set |-> TRUE, err |-> TRUE]

-----------------------------------------------------------------------------
(* Character sets and collations: the number of each collation, by its     *)
(* character set and the rest of its name                                  *)

LegacyCollations == [
    armscii8 |-> [bin |-> 64, general_ci |-> 32],
    ascii |-> [bin |-> 65, general_ci |-> 11],
    big5 |-> [bin |-> 84, chinese_ci |-> 1],
    binary |-> ("" :> 63),
    cp1250 |-> [bin |-> 66, croatian_ci |-> 44, czech_cs |-> 34, general_ci |-> 26, polish_ci |-> 99],
    cp1251 |-> [bin |-> 50, bulgarian_ci |-> 14, general_ci |-> 51, general_cs |-> 52, ukrainian_ci |-> 23],
    cp1256 |-> [bin |-> 67, general_ci |-> 57],
    cp1257 |-> [bin |-> 58, general_ci |-> 59, lithuanian_ci |-> 29],
    cp850 |-> [bin |-> 80, general_ci |-> 4],
    cp852 |-> [bin |-> 81, general_ci |-> 40],
    cp866 |-> [bin |-> 68, general_ci |-> 36],
    cp932 |-> [bin |-> 96, japanese_ci |-> 95],
    dec8 |-> [bin |-> 69, swedish_ci |-> 3],
    eucjpms |-> [bin |-> 98, japanese_ci |-> 97],
    euckr |-> [bin |-> 85, korean_ci |-> 19],
    gb18030 |-> [bin |-> 249, chinese_ci |-> 248, unicode_520_ci |-> 250],
    gb2312 |-> [bin |-> 86, chinese_ci |-> 24],
    gbk |-> [bin |-> 87, chinese_ci |-> 28],
    geostd8 |-> [bin |-> 93, general_ci |-> 92],
    greek |-> [bin |-> 70, general_ci |-> 25],
    hebrew |-> [bin |-> 71, general_ci |-> 16],
    hp8 |-> [bin |-> 72, english_ci |-> 6],
    keybcs2 |-> [bin |-> 73, general_ci |-> 37],
    koi8r |-> [bin |-> 74, general_ci |-> 7],
    koi8u |-> [bin |-> 75, general_ci |-> 22],
    latin1 |-> [bin |-> 47, danish_ci |-> 15, general_ci |-> 48, general_cs |-> 49, german1_ci |-> 5, german2_ci |->
        31, spanish_ci |-> 94, swedish_ci |-> 8],
    latin2 |-> [bin |-> 77, croatian_ci |-> 27, czech_cs |-> 2, general_ci |-> 9, hungarian_ci |-> 21],
    latin5 |-> [bin |-> 78, turkish_ci |-> 30],
    latin7 |-> [bin |-> 79, estonian_cs |-> 20, general_ci |-> 41, general_cs |-> 42],
    macce |-> [bin |-> 43, general_ci |-> 38],
    macroman |-> [bin |-> 53, general_ci |-> 39],
    sjis |-> [bin |-> 88, japanese_ci |-> 13],
    swe7 |-> [bin |-> 82, swedish_ci |-> 10],
    tis620 |-> [bin |-> 89, thai_ci |-> 18],
    ujis |-> [bin |-> 91, japanese_ci |-> 12]]

UnicodeCollations == [
    ucs2 |-> [bin |-> 90, croatian_ci |-> 149, czech_ci |-> 138, danish_ci |-> 139, esperanto_ci |-> 145,
        estonian_ci |-> 134, general_ci |-> 35, general_mysql500_ci |-> 159, german2_ci |-> 148, hungarian_ci |->
        146, icelandic_ci |-> 129, latvian_ci |-> 130, lithuanian_ci |-> 140, persian_ci |-> 144, polish_ci |-> 133,
        roman_ci |-> 143, romanian_ci |-> 131, sinhala_ci |-> 147, slovak_ci |-> 141, slovenian_ci |-> 132,
        spanish_ci |-> 135, spanish2_ci |-> 142, swedish_ci |-> 136, turkish_ci |-> 137, unicode_520_ci |-> 150,
        unicode_ci |-> 128, vietnamese_ci |-> 151],
    utf16 |-> [bin |-> 55, croatian_ci |-> 122, czech_ci |-> 111, danish_ci |-> 112, esperanto_ci |-> 118,
        estonian_ci |-> 107, general_ci |-> 54, german2_ci |-> 121, hungarian_ci |-> 119, icelandic_ci |-> 102,
        latvian_ci |-> 103, lithuanian_ci |-> 113, persian_ci |-> 117, polish_ci |-> 106, roman_ci |-> 116,
        romanian_ci |-> 104, sinhala_ci |-> 120, slovak_ci |-> 114, slovenian_ci |-> 105, spanish_ci |-> 108,
        spanish2_ci |-> 115, swedish_ci |-> 109, turkish_ci |-> 110, unicode_520_ci |-> 123, unicode_ci |-> 101,
        vietnamese_ci |-> 124],
    utf16le |-> [bin |-> 62, general_ci |-> 56],
    utf32 |-> [bin |-> 61, croatian_ci |-> 181, czech_ci |-> 170, danish_ci |-> 171, esperanto_ci |-> 177,
        estonian_ci |-> 166, general_ci |-> 60, german2_ci |-> 180, hungarian_ci |-> 178, icelandic_ci |-> 161,
        latvian_ci |-> 162, lithuanian_ci |-> 172, persian_ci |-> 176, polish_ci |-> 165, roman_ci |-> 175,
        romanian_ci |-> 163, sinhala_ci |-> 179, slovak_ci |-> 173, slovenian_ci |-> 164, spanish_ci |-> 167,
        spanish2_ci |-> 174, swedish_ci |-> 168, turkish_ci |-> 169, unicode_520_ci |-> 182, unicode_ci |-> 160,
        vietnamese_ci |-> 183],
    utf8 |-> [bin |-> 83, croatian_ci |-> 213, czech_ci |-> 202, danish_ci |-> 203, esperanto_ci |-> 209,
        estonian_ci |-> 198, general_ci |-> 33, general_mysql500_ci |-> 223, german2_ci |-> 212, hungarian_ci |->
        210, icelandic_ci |-> 193, latvian_ci |-> 194, lithuanian_ci |-> 204, persian_ci |-> 208, polish_ci |-> 197,
        roman_ci |-> 207, romanian_ci |-> 195, sinhala_ci |-> 211, slovak_ci |-> 205, slovenian_ci |-> 196,
        spanish_ci |-> 199, spanish2_ci |-> 206, swedish_ci |-> 200, tolower_ci |-> 76, turkish_ci |-> 201,
        unicode_520_ci |-> 214, unicode_ci |-> 192, vietnamese_ci |-> 215],
    utf8mb4 |-> ("0900_ai_ci" :> 255) @@ [bin |-> 46, croatian_ci |-> 245, czech_ci |-> 234, danish_ci |-> 235,
        esperanto_ci |-> 241, estonian_ci |-> 230, general_ci |-> 45, german2_ci |-> 244, hungarian_ci |-> 242,
        icelandic_ci |-> 225, latvian_ci |-> 226, lithuanian_ci |-> 236, persian_ci |-> 240, polish_ci |-> 229,
        roman_ci |-> 239, romanian_ci |-> 227, sinhala_ci |-> 243, slovak_ci |-> 237, slovenian_ci |-> 228,
        spanish_ci |-> 231, spanish2_ci |-> 238, swedish_ci |-> 232, turkish_ci |-> 233, unicode_520_ci |-> 246,
        unicode_ci |-> 224, vietnamese_ci |-> 247]]

CharSets == DOMAIN LegacyCollations \cup DOMAIN UnicodeCollations
OfCharSet(charset) == IF charset \in DOMAIN UnicodeCollations THEN UnicodeCollations[charset] ELSE LegacyCollations[charset]
Collations == UNION {{charset} \X DOMAIN OfCharSet(charset) : charset \in CharSets}

\* CharSet::default_collation.
DefaultSuffix(charset) ==
    CASE charset \in {"big5", "gb18030", "gb2312", "gbk"} -> "chinese_ci"
      [] charset \in {"binary"} -> ""
      [] charset \in {"cp932", "eucjpms", "sjis", "ujis"} -> "japanese_ci"
      [] charset \in {"dec8", "latin1", "swe7"} -> "swedish_ci"
      [] charset \in {"euckr"} -> "korean_ci"
      [] charset \in {"hp8"} -> "english_ci"
      [] charset \in {"latin5"} -> "turkish_ci"
      [] charset \in {"tis620"} -> "thai_ci"
      [] charset \in {"utf8", "utf8mb4"} -> "unicode_ci"
      [] OTHER -> "general_ci"
DefaultCollation(charset) == <<charset, DefaultSuffix(charset)>>

\* Collation as u8, and the collation a server takes a number for.
CollationId(collation) == OfCharSet(collation[1])[collation[2]]
ServerCollation(id) == CHOOSE c \in Collations : CollationId(c) = id

-----------------------------------------------------------------------------
(* The options                                                             *)

MyNew ==
    [set |-> TRUE, err |-> FALSE, host |-> "localhost", port |-> 3306, socket |-> "", username |-> <<<<0, "root">>>>, password |-> NoText,
     database |-> NoText, ssl_mode |-> "PREFERRED", ssl_ca |-> NoCertificate, ssl_client_cert |-> NoCertificate, ssl_client_key |-> NoCertificate, capacity |-> 100,
     charset |-> "utf8mb4", collation |-> <<>>, pipes_as_concat |-> TRUE, no_engine_substitution |-> TRUE, timezone |-> "+00:00", set_names |-> TRUE]

\* The pairs of the query, by the field that each one sets.
FieldOf == [ssl_mode |-> {"sslmode", "ssl-mode"}, ssl_ca |-> {"sslca", "ssl-ca"}, charset |-> {"charset"}, collation |-> {"collation"},
            ssl_client_cert |-> {"sslcert", "ssl-cert"}, ssl_client_key |-> {"sslkey", "ssl-key"},
            capacity |-> {"statement-cache-capacity"}, socket |-> {"socket"}, timezone |-> {"timezone", "time-zone"}]
MyParameter(o, pair) ==
    IF o.err THEN o
    ELSE IF pair[1] \in FieldOf.ssl_mode /\ pair[2] = "unknown" THEN MyFailed
    ELSE [f \in DOMAIN o |->
            IF f \in DOMAIN FieldOf /\ pair[1] \in FieldOf[f]
            THEN (IF f \in {"ssl_ca", "ssl_client_cert", "ssl_client_key"} THEN CertificateFrom(pair[2]) ELSE pair[2])
            ELSE o[f]]

MyAuthority(o, u) ==
    [o EXCEPT !.host = IF u.host = "" THEN @ ELSE u.host,
              !.port = IF u.port = 0 THEN @ ELSE u.port,
              !.username = IF u.username = NoText THEN @ ELSE PercentDecode(u.username),
              !.password = IF u.password = NoText THEN @ ELSE PercentDecode(u.password),
              !.database = IF u.path = NoText THEN @ ELSE PercentDecode(u.path)]
MyParseFromUrl(u) == FoldLeft(MyParameter, MyAuthority(MyNew, u), u.query)

MyCertificates(o) ==
    CertificatePair("ssl-cert", o.ssl_client_cert) \o CertificatePair("ssl-key", o.ssl_client_key)

\* A collation is written as a second `charset'.
MyCharset(o) == <<<<"charset", o.charset>>>> \o (IF o.collation = <<>> THEN <<>> ELSE <<<<"charset", o.collation>>>>)

MyBuildUrl(o) ==
    [SetPassword(ParseAuthority(o.username, o.host, o.port), o.password) EXCEPT
     !.path = UrlEncode(o.database, {"?"}),
     !.query = <<<<"ssl-mode", o.ssl_mode>>>> \o CertificatePair("ssl-ca", o.ssl_ca)
        \o MyCharset(o) \o MyCertificates(o) \o <<<<"statement-cache-capacity", o.capacity>>>>
        \o (IF o.socket = "" THEN <<>> ELSE <<<<"socket", o.socket>>>>)]

-----------------------------------------------------------------------------
(* connect(): the handshake, then one SET statement                        *)

Handshake(o) ==
    IF o.charset \notin CharSets \/ (o.collation # <<>> /\ o.collation \notin Collations) THEN [err |-> TRUE]
    ELSE LET collation == IF o.collation = <<>> THEN DefaultCollation(o.charset) ELSE o.collation
         IN  [err |-> FALSE, charset |-> o.charset, collation |-> collation, id |-> CollationId(collation)]

\* The assignments of the SET statement; without any it is not sent.
SetStatement(o, h) ==
    (IF o.pipes_as_concat \/ o.no_engine_substitution
     THEN <<<<"sql_mode", (IF o.pipes_as_concat THEN {"PIPES_AS_CONCAT"} ELSE {}) \cup (IF o.no_engine_substitution THEN {"NO_ENGINE_SUBSTITUTION"} ELSE {})>>>>
     ELSE <<>>)
        \o (IF o.timezone = "" THEN <<>> ELSE <<<<"time_zone", o.timezone>>>>)
        \o (IF o.set_names THEN <<<<"NAMES", <<h.charset, h.collation>>>>>> ELSE <<>>)

\* MySQL: the number in the handshake sets the character set and collation
\* of the session; NAMES refuses a collation of another character set.
ServerSession(h, statement) ==
    LET greeted == [collation |-> ServerCollation(h.id), refused |-> FALSE]
    IN  FoldLeft(LAMBDA s, x : IF x[1] # "NAMES" THEN s
                               ELSE IF x[2][2][1] # x[2][1] THEN [s EXCEPT !.refused = TRUE]
                               ELSE [s EXCEPT !.collation = x[2][2]], greeted, statement)

-----------------------------------------------------------------------------
MyOptionsInit == my_options = MyUnset /\ my_again = MyUnset /\ session = <<>>

MyNewOptions == my_options = MyUnset /\ my_options' = MyNew /\ UNCHANGED <<my_again, session>>
MyFromUrl(u) == my_options = MyUnset /\ my_options' = MyParseFromUrl(u) /\ UNCHANGED <<my_again, session>>

MyReady == my_options.set /\ ~my_options.err /\ ~my_again.set /\ session = <<>>
Fresh == MyReady /\ my_options = MyNew
MySetNames(user, password, database) ==
    /\ Fresh
    /\ my_options' = [my_options EXCEPT !.username = user, !.password = password, !.database = database]
    /\ UNCHANGED <<my_again, session>>
MySetTls ==
    /\ MyReady /\ my_options.ssl_ca = NoCertificate
    /\ \E inline \in BOOLEAN :
         my_options' = [my_options EXCEPT !.ssl_mode = "VERIFY_CA",
             !.ssl_ca = CertificateFrom(IF inline THEN <<"CERTIFICATE">> ELSE <<"ca">>),
             !.ssl_client_cert = IF inline THEN <<"inline", <<"CERTIFICATE">>>> ELSE CertificateFrom(<<"cert">>),
             !.ssl_client_key = IF inline THEN <<"inline", <<"PRIVATE KEY">>>> ELSE CertificateFrom(<<"key">>)]
    /\ UNCHANGED <<my_again, session>>
MySetCharset(charset, collation) ==
    /\ Fresh
    /\ my_options' = [my_options EXCEPT !.charset = charset, !.collation = collation]
    /\ UNCHANGED <<my_again, session>>
MySetSession(pipes, engine, timezone, names) ==
    /\ MyReady /\ my_options.charset # "utf8mb4"
    /\ my_options' = [my_options EXCEPT !.pipes_as_concat = pipes, !.no_engine_substitution = engine, !.timezone = timezone, !.set_names = names]
    /\ UNCHANGED <<my_again, session>>
MyThroughUrl ==
    /\ MyReady
    /\ my_again' = MyParseFromUrl(MyBuildUrl(my_options))
    /\ UNCHANGED <<my_options, session>>
MyConnect ==
    /\ MyReady
    /\ LET h == Handshake(my_options)
           statement == SetStatement(my_options, h)
       IN  session' = IF h.err THEN <<"refused">> ELSE <<"open", h, statement, ServerSession(h, statement)>>
    /\ UNCHANGED <<my_options, my_again>>

MyOptionsNext ==
    \/ MyNewOptions \/ MySetTls \/ MyThroughUrl \/ MyConnect
    \/ \E u \in MyUrls : MyFromUrl(u)
    \/ Fresh /\ \E user, password, database \in MyTexts : MySetNames(user, password, database)
    \/ Fresh /\ \E charset \in CharSets \cup {"nonesuch"} : MySetCharset(charset, <<>>)
    \/ Fresh /\ \E c \in Collations \cup {<<"latin1", "nonesuch">>} : MySetCharset(c[1], c) \/ MySetCharset("utf8", c)
    \/ \E pipes, engine, names \in BOOLEAN, timezone \in {"", "+00:00"} : MySetSession(pipes, engine, timezone, names)
MyOptionsSpec == MyOptionsInit /\ [][MyOptionsNext]_my_option_vars

-----------------------------------------------------------------------------
\* A connection that opens uses the character set of its options, in their
\* collation or in the one that is that character set's default, whether or
\* not SET NAMES is sent: the number of the handshake names the same one.
\* (collation.rs:97-140, connection/establish.rs:45-52, options/connect.rs:72-78)
CollationAgreed ==
    (session # <<>> /\ session[1] = "open") =>
        LET server == session[4] IN
        /\ my_options.collation # <<>> => server.collation = my_options.collation
        /\ my_options.collation = <<>> => server.collation[1] = my_options.charset
        /\ server.refused <=> my_options.set_names /\ my_options.collation # <<>> /\ my_options.collation[1] # my_options.charset

\* What to_url_lossy() gives connects to the same place as the same user and
\* under the same rules for TLS, as sqlx-core connection.rs:226-236 promises,
\* except where the code breaks that: names with one of  : / ? %  are taken
\* for something else (NameFits, PathFits), a collation is written as a
\* second charset, and the path of a certificate or the PEM text of a key is
\* not read back (CertificateFits).  (options/parse.rs:90-147)
MyUrlReadsBack ==
    (my_again.set /\ my_options.collation = <<>> /\ ~EndsEarly(my_options.username)) =>
        /\ ~my_again.err
        /\ \A f \in {"host", "port", "socket", "ssl_mode", "capacity", "charset"} : my_again[f] = my_options[f]
        /\ \A f \in {"ssl_ca", "ssl_client_cert", "ssl_client_key"} : CertificateFits(my_options[f]) => my_again[f] = my_options[f]
        /\ my_options.password # NoText => my_again.password = my_options.password
        /\ NameFits(my_options.username) => my_again.username = my_options.username
        /\ PathFits(my_options.database) => my_again.database = my_options.database

=============================================================================
