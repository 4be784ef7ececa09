----------------------------- MODULE PgOptions ------------------------------
(***************************************************************************)
(* PgConnectOptions: the options read from the environment, from a URL and *)
(* from the password file (options/mod.rs, parse.rs, pgpass.rs), the       *)
(* setters, and the URL that to_url_lossy() makes of them.                 *)
(* The empty text and "" stand for None.                                   *)
(***************************************************************************)
EXTENDS UrlText, Integers, Sequences, SequencesExt

CONSTANTS
    Environments,  \* what PG* variables and password files there may be
    PgUrls,        \* URLs a program may give
    PgpassFields,  \* fields of a line of a password file, as characters
    PgTexts        \* user names, passwords and database names it may set

VARIABLES
    environment,
    options,       \* PgConnectOptions, or Unset
    url,           \* the URL they were read from, or NoUrl
    again          \* what to_url_lossy() and from_url() make of them, or Unset

option_vars == <<environment, options, url, again>>

NoUrl == [host |-> "", port |-> 0, username |-> NoText, password |-> NoText, path |-> NoText, query |-> <<>>]
Unset == [set |-> FALSE]
PgFailed == [set |-> TRUE, err |-> TRUE]
Panicked == [set |-> TRUE, err |-> TRUE, panic |-> TRUE]
SocketPaths == {"/run", "/var/run/postgresql"}

-----------------------------------------------------------------------------
(* The password file                                                       *)

\* One character of find_next_field.
FieldStep(state, c) ==
    IF state.done THEN [state EXCEPT !.rest = Append(@, c)]
    ELSE IF c = ":" /\ ~state.escaping THEN [state EXCEPT !.done = TRUE]
    ELSE IF c = "\\" THEN [state EXCEPT !.field = IF state.escaping THEN Append(@, c) ELSE @, !.escaping = ~@]
    ELSE [state EXCEPT !.field = Append(@, c), !.escaping = FALSE]

FindNextField(line) == FoldLeft(FieldStep, [done |-> FALSE, escaping |-> FALSE, field |-> <<>>, rest |-> <<>>], line)

\* matches_next_field: the rest of the line, or a refusal.
MatchesNextField(state, value) ==
    LET next == FindNextField(state.rest)
    IN  [ok |-> state.ok /\ next.done /\ next.field \in {<<"*">>, value}, rest |-> next.rest]

LoadPasswordFromLine(line, values) ==
    IF line = <<>> \/ line[1] = "#" THEN [ok |-> FALSE, rest |-> <<>>]
    ELSE FoldLeft(MatchesNextField, [ok |-> TRUE, rest |-> line], values)

\* load_password_from_reader: the first line that matches.
LoadPasswordFromReader(lines, values) ==
    LET found == SelectInSeq(lines, LAMBDA line : LoadPasswordFromLine(line, values).ok)
    IN  IF found = 0 THEN NoText ELSE LoadPasswordFromLine(lines[found], values).rest

\* The entries of a file whose fields need no escape.
EntryMatches(entry, o) ==
    /\ entry.host \in {"*", o.host} /\ entry.port \in {0, o.port}
    /\ entry.database \in {<<<<0, "*">>>>, o.database} /\ entry.username \in {<<<<0, "*">>>>, o.username}

\* load_password: $PGPASSFILE, then ~/.pgpass; a file that others may read is
\* not looked at.
LoadPassword(env, o) ==
    LET usable == SelectSeq(env.files, LAMBDA file : file.private)
        entries == FlattenSeq([i \in DOMAIN usable |-> usable[i].entries])
        found == SelectInSeq(entries, LAMBDA entry : EntryMatches(entry, o))
    IN  IF found = 0 THEN NoText ELSE entries[found].password

-----------------------------------------------------------------------------
(* The options                                                             *)

DefaultHost(env, port) == IF port \in env.sockets THEN "/var/run/postgresql" ELSE "localhost"

NewWithoutPgpass(env) ==
    LET port == IF env.port = 0 THEN 5432 ELSE env.port
    IN  [set |-> TRUE, err |-> FALSE, host |-> IF env.host = "" THEN DefaultHost(env, port) ELSE env.host, port |-> port,
         socket |-> "", username |-> env.username, password |-> env.password, database |-> env.database,
         ssl_mode |-> IF env.ssl_mode \in {"", "unknown"} THEN "prefer" ELSE env.ssl_mode,
         ssl_root_cert |-> CertificateFrom(env.ssl_root_cert), ssl_client_cert |-> CertificateFrom(env.ssl_cert),
         ssl_client_key |-> CertificateFrom(env.ssl_key), capacity |-> 100, application_name |-> env.app_name, options |-> env.options]

ApplyPgpass(env, o) == IF o.err \/ o.password # NoText THEN o ELSE [o EXCEPT !.password = LoadPassword(env, o)]

SetHost(o, host) == [o EXCEPT !.host = host]
SetSocket(o, path) == [o EXCEPT !.socket = path]
SetTls(o, key, value) ==
    CASE key = "sslmode" -> IF value = "unknown" THEN PgFailed ELSE [o EXCEPT !.ssl_mode = value]
      [] key = "sslrootcert" -> [o EXCEPT !.ssl_root_cert = CertificateFrom(value)]
      [] key = "sslcert" -> [o EXCEPT !.ssl_client_cert = CertificateFrom(value)]
      [] key = "sslkey" -> [o EXCEPT !.ssl_client_key = CertificateFrom(value)]

\* The text that is sent as the `options' of the startup packet.
AddOptions(o, value) == [o EXCEPT !.options = Append(@, value)]

\* One pair of the query of a URL; what cannot be parsed ends the loop.
Parameter(o, pair) ==
    LET key == pair[1]
        value == pair[2]
    IN  CASE o.err -> o
          [] ~o.err /\ key \in {"sslmode", "sslrootcert", "sslcert", "sslkey"} -> SetTls(o, key, value)
          [] ~o.err /\ key = "host" -> IF value \in SocketPaths THEN SetSocket(o, value) ELSE SetHost(o, value)
          [] ~o.err /\ key = "hostaddr" -> IF value = "name" THEN PgFailed ELSE SetHost(o, value)
          [] ~o.err /\ key = "port" -> IF value = 0 THEN PgFailed ELSE [o EXCEPT !.port = value]
          [] ~o.err /\ key = "statement-cache-capacity" -> [o EXCEPT !.capacity = value]
          [] ~o.err /\ key = "dbname" -> [o EXCEPT !.database = value]
          [] ~o.err /\ key = "user" -> [o EXCEPT !.username = value]
          [] ~o.err /\ key = "password" -> [o EXCEPT !.password = value]
          [] ~o.err /\ key = "application_name" -> [o EXCEPT !.application_name = value]
          [] ~o.err /\ key = "options" -> AddOptions(o, value)
          [] OTHER -> o

\* The part of a URL before its query.
Authority(o, u) ==
    LET path == SubSeq(u.path, SelectInSeq(u.path \o <<NoText>>, LAMBDA c : c # <<0, "/">>), Len(u.path))
        placed == IF u.host = "" THEN o ELSE IF u.host \in SocketPaths THEN SetSocket(o, u.host) ELSE SetHost(o, u.host)
    IN  [placed EXCEPT
            !.port = IF u.port = 0 THEN @ ELSE u.port,
            !.username = IF u.username = NoText THEN @ ELSE PercentDecode(u.username),
            !.password = IF u.password = NoText THEN @ ELSE PercentDecode(u.password),
            !.database = IF path = NoText THEN @ ELSE PercentDecode(path)]


ParseFromUrl(env, u) == ApplyPgpass(env, FoldLeft(Parameter, Authority(NewWithoutPgpass(env), u), u.query))

\* fetch_socket: where to connect, a path or a host.
Target(o) == IF o.socket # "" THEN o.socket ELSE o.host

\* build_url.  A socket is percent-encoded; a directory in the place of the
\* host is not, so that the text has no host and Url::parse refuses it.
UrlPanics(o) == o.socket = "" /\ o.host \in SocketPaths /\ ~EndsEarly(o.username)
BuildUrl(o) ==
    [SetPassword(ParseAuthority(o.username, Target(o), o.port), o.password) EXCEPT
        !.path = UrlEncode(o.database, {"?"}),
        !.query = <<<<"sslmode", o.ssl_mode>>>> \o CertificatePair("sslrootcert", o.ssl_root_cert)
            \o CertificatePair("sslcert", o.ssl_client_cert) \o CertificatePair("sslkey", o.ssl_client_key)
            \o <<<<"statement-cache-capacity", o.capacity>>>>]

-----------------------------------------------------------------------------
OptionsInit == environment \in Environments /\ options = Unset /\ url = NoUrl /\ again = Unset

NewOptions == options = Unset /\ options' = ApplyPgpass(environment, NewWithoutPgpass(environment)) /\ UNCHANGED <<environment, url, again>>
FromUrl(u) == url' = u /\ options' = ParseFromUrl(environment, u) /\ UNCHANGED <<environment, again>>

Ready == options.set /\ ~options.err /\ ~again.set
SetNames(user, password, database) ==
    /\ options' = [options EXCEPT !.username = user, !.password = password, !.database = database]
    /\ UNCHANGED <<environment, url, again>>
\* ssl_root_cert() takes a path, and the ..._from_pem() ones a PEM text.
SetCertificates(inline) ==
    /\ Ready
    /\ options' = [options EXCEPT !.ssl_mode = "verify-full",
                      !.ssl_root_cert = CertificateFrom(IF inline THEN <<"CERTIFICATE">> ELSE <<"ca">>),
                      !.ssl_client_cert = IF inline THEN <<"inline", <<"CERTIFICATE">>>> ELSE CertificateFrom(<<"cert">>),
                      !.ssl_client_key = IF inline THEN <<"inline", <<"PRIVATE KEY">>>> ELSE CertificateFrom(<<"key">>)]
    /\ UNCHANGED <<environment, url, again>>
MoveTo(host) == Ready /\ url = NoUrl /\ options' = SetHost(options, host) /\ UNCHANGED <<environment, url, again>>

\* to_url_lossy(), and from_url() of what it gives.
ThroughUrl ==
    /\ Ready
    /\ again' = IF UrlPanics(options) THEN Panicked ELSE ParseFromUrl(environment, BuildUrl(options))
    /\ UNCHANGED <<environment, options, url>>

OptionsNext ==
    \/ NewOptions \/ ThroughUrl \/ MoveTo("db2")
    \/ \E inline \in BOOLEAN : SetCertificates(inline)
    \/ options = Unset /\ \E u \in PgUrls : FromUrl(u)
    \/ Ready /\ url = NoUrl /\ \E user, database, password \in PgTexts : SetNames(user, password, database)
OptionsSpec == OptionsInit /\ [][OptionsNext]_option_vars

-----------------------------------------------------------------------------
\* Options read from a URL that names no password, in an environment that has
\* none, carry the password of the first entry of the password file for the
\* endpoint that they end up with, whichever parameter named it last.  Not so
\* where that is a socket the URL named: the entries are then matched with
\* the host that is not used.  (options/parse.rs:112, mod.rs:174-185)
PasswordOfEndpoint ==
    (/\ url # NoUrl /\ ~options.err /\ environment.password = NoText /\ url.password = NoText
     /\ \A i \in DOMAIN url.query : url.query[i][1] # "password"
     /\ options.socket = "")
        => options.password = LoadPassword(environment, [options EXCEPT !.host = Target(options)])

\* What to_url_lossy() gives connects to the same place as the same user to
\* the same database with the same password and certificates, as the docs
\* guarantee (sqlx-core connection.rs:226-236), except where the code breaks
\* that: it panics for a directory as the host (UrlPanics), takes names with
\* one of  : / ? %  for something else (NameFits, PathFits), and turns the
\* path of a certificate into another one and the PEM text of a key into a
\* path (CertificateFits).  (options/parse.rs:115-183)
PgUrlReadsBack ==
    (again.set /\ ~UrlPanics(options) /\ ~EndsEarly(options.username)) =>
        /\ ~again.err
        /\ Target(again) = Target(options)
        /\ \A f \in {"port", "ssl_mode", "capacity"} : again[f] = options[f]
        /\ options.password # NoText => again.password = options.password
        /\ NameFits(options.username) => again.username = options.username
        /\ PathFits(options.database) => again.database = options.database
        /\ \A f \in {"ssl_root_cert", "ssl_client_cert", "ssl_client_key"} : CertificateFits(options[f]) => again[f] = options[f]

\* A field of a password file whose colons and backslashes are escaped is
\* read as it was meant, and the line goes on behind it.  (pgpass.rs:163-199)
Escape(f) == FlattenSeq([i \in DOMAIN f |-> IF f[i] \in {":", "\\"} THEN <<"\\", f[i]>> ELSE <<f[i]>>])
PgpassReadsBack ==
    (options = Unset) =>
        \A f, g \in PgpassFields :
            /\ LET next == FindNextField(Escape(f) \o <<":">> \o g) IN next.done /\ next.field = f /\ next.rest = g
            /\ LET lines == << <<"#", "a", ":">> \o Escape(g) \o <<":", "x">>, Escape(f) \o <<":">> \o Escape(g) \o <<":", "y">> >>
               IN  (f # <<>> /\ f[1] # "#") =>
                       /\ LoadPasswordFromReader(lines, <<f, g>>) = <<"y">>
                       /\ (f # <<"*">>) => LoadPasswordFromReader(lines, <<Append(f, "z"), g>>) = NoText

=============================================================================
