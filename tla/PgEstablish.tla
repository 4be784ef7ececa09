----------------------------- MODULE PgEstablish -----------------------------
(***************************************************************************)
(* Opening a PostgreSQL session: connection/establish.rs, connection/tls.rs *)
(* and connection/sasl.rs against a server (external) that may offer TLS   *)
(* and asks for any of the authentication methods.  A hash is a free term: *)
(* two terms are equal exactly when they hash the same things.             *)
(***************************************************************************)
EXTENDS Naturals, Sequences

VARIABLES
    popts,       \* PgConnectOptions: ssl_mode, the password; whether TLS is compiled in
    pserver,     \* the server: TLS support, method, stored password
    pclient,     \* where establish() is, and what it holds
    pbackend,    \* where the server is, and what it holds
    upstream,    \* messages from client to server
    downstream   \* messages from server to client

establish_vars == <<popts, pserver, pclient, pbackend, upstream, downstream>>

Md5(x) == <<"md5", x>>
Sha(x) == <<"sha256", x>>
Hmac(key, x) == <<"hmac", key, x>>
Xor(x, y) == (x \ y) \cup (y \ x)      \* terms are atoms: {t} XOR {u} XOR {u} = {t}

SslModes == {"disable", "allow", "prefer", "require", "verify-ca", "verify-full"}
Methods == {"trust", "cleartext", "md5", "scram", "scram-plus", "oauth", "gss"}

EstablishInit ==
    /\ popts \in [mode : SslModes, tls : BOOLEAN, password : {"right", "wrong"}]
    /\ pserver \in [ssl : {"S", "N", "E"}, cert : {"valid", "other-host", "self-signed"}, method : Methods]
    /\ pclient = [at |-> "connect", enc |-> FALSE, secret |-> "none"]
    /\ pbackend = [at |-> "connect", enc |-> FALSE]
    /\ upstream = <<>> /\ downstream = <<>>

ToServer(type, body) == upstream' = Append(upstream, [type |-> type, enc |-> pclient.enc, body |-> body])
ToClient(msgs) == downstream' = downstream \o msgs
Reply(type, body) == [type |-> type, enc |-> pbackend.enc, body |-> body]
PgFails == pclient' = [pclient EXCEPT !.at = "failed"]

-----------------------------------------------------------------------------
(* The client.                                                             *)

\* maybe_upgrade(): modes that do not ask go on in plain text.
NeedsTls == popts.mode \in {"require", "verify-ca", "verify-full"}
MaybeUpgrade ==
    /\ pclient.at = "connect"
    /\ \/ /\ popts.mode \in {"disable", "allow"} \/ (popts.mode = "prefer" /\ ~popts.tls)
          /\ pclient' = [pclient EXCEPT !.at = "startup"]
          /\ UNCHANGED upstream
       \/ /\ NeedsTls /\ ~popts.tls
          /\ PgFails /\ UNCHANGED upstream
       \/ /\ popts.tls /\ (NeedsTls \/ popts.mode = "prefer")
          /\ ToServer("SSLRequest", "none")
          /\ pclient' = [pclient EXCEPT !.at = "ssl"]
    /\ UNCHANGED <<popts, pserver, pbackend, downstream>>

\* accept_invalid_certs and accept_invalid_hostnames of the TlsConfig.
CertAccepted ==
    \/ popts.mode \in {"prefer", "require"}
    \/ popts.mode = "verify-ca" /\ pserver.cert # "self-signed"
    \/ popts.mode = "verify-full" /\ pserver.cert = "valid"

\* Mutant: a server without TLS is good enough for every mode.
RequestUpgradeLax ==
    /\ pclient.at = "ssl" /\ downstream # <<>>
    /\ downstream' = Tail(downstream)
    /\ pclient' = [pclient EXCEPT !.at = "startup", !.enc = Head(downstream).type = "S"]
    /\ UNCHANGED <<popts, pserver, pbackend, upstream>>

\* request_upgrade() reads one byte; S is followed by the TLS handshake.
RequestUpgrade ==
    /\ pclient.at = "ssl" /\ downstream # <<>>
    /\ downstream' = Tail(downstream)
    /\ LET byte == Head(downstream).type IN
       \/ /\ byte = "S" /\ CertAccepted
          /\ pclient' = [pclient EXCEPT !.at = "startup", !.enc = TRUE]
       \/ /\ byte = "N" /\ ~NeedsTls
          /\ pclient' = [pclient EXCEPT !.at = "startup"]
       \/ /\ \/ byte = "S" /\ ~CertAccepted
             \/ byte = "N" /\ NeedsTls
             \/ byte = "E"
          /\ PgFails
    /\ UNCHANGED <<popts, pserver, pbackend, upstream>>

SendStartup ==
    /\ pclient.at = "startup"
    /\ ToServer("Startup", "none")
    /\ pclient' = [pclient EXCEPT !.at = "auth"]
    /\ UNCHANGED <<popts, pserver, pbackend, downstream>>

\* Password::Md5: md5(md5(password + username) + salt).
Md5Password(password, salt) == Md5(<<Md5(<<password, "user">>), salt>>)

\* sasl::authenticate() up to the client-final-message.
SaltedPassword(password, salt) == <<"hi", password, salt>>
ClientKey(salted) == Hmac(salted, "Client Key")
ServerKey(salted) == Hmac(salted, "Server Key")
AuthMessage(client_nonce, first) == <<client_nonce, first, "c=biws", first.nonce>>
ClientProof(salted, auth) ==
    Xor({ClientKey(salted)}, {Hmac(Sha(ClientKey(salted)), auth)})
ServerSignature(salted, auth) == Hmac(ServerKey(salted), auth)

\* The message that ends the loop of establish().
StartupDone(type) == type = "ReadyForQuery"

\* One message of the loop in establish(), or of authenticate() inside it;
\* ParameterStatus and notices are consumed by recv().
PgRecv ==
    /\ pclient.at \in {"auth", "sasl_continue", "sasl_final"} /\ downstream # <<>>
    /\ downstream' = Tail(downstream)
    /\ LET m == Head(downstream)
           Goes(at) == pclient' = [pclient EXCEPT !.at = at]
           Known == {"Ok", "Cleartext", "Md5", "Sasl", "BackendKeyData", "ReadyForQuery"}
       IN \/ m.type \in {"ParameterStatus", "Notice"} /\ UNCHANGED <<pclient, upstream>>
          \/ m.type = "ErrorResponse" /\ PgFails /\ UNCHANGED upstream
          \/ /\ pclient.at = "auth" /\ m.type \in {"Ok", "BackendKeyData"} /\ ~StartupDone(m.type)
             /\ UNCHANGED <<pclient, upstream>>
          \/ /\ pclient.at = "auth" /\ StartupDone(m.type)
             /\ Goes("established") /\ UNCHANGED upstream
          \/ /\ pclient.at = "auth" /\ m.type = "Cleartext"
             /\ ToServer("Password", popts.password) /\ UNCHANGED pclient
          \/ /\ pclient.at = "auth" /\ m.type = "Md5"
             /\ ToServer("Password", Md5Password(popts.password, m.body)) /\ UNCHANGED pclient
          \/ /\ pclient.at = "auth" /\ m.type = "Sasl"
             /\ IF m.body \cap {"SCRAM-SHA-256", "SCRAM-SHA-256-PLUS"} = {}
                THEN PgFails /\ UNCHANGED upstream
                ELSE ToServer("SaslInitialResponse", "r=client") /\ Goes("sasl_continue")
          \/ /\ pclient.at = "sasl_continue" /\ m.type = "SaslContinue"
             /\ LET salted == SaltedPassword(popts.password, m.body.salt)
                    auth == AuthMessage("r=client", m.body)
                IN /\ ToServer("SaslResponse", [nonce |-> m.body.nonce, proof |-> ClientProof(salted, auth)])
                   /\ pclient' = [pclient EXCEPT !.at = "sasl_final", !.secret = ServerSignature(salted, auth)]
          \/ /\ pclient.at = "sasl_final" /\ m.type = "SaslFinal"
             /\ IF m.body = pclient.secret THEN Goes("auth") ELSE PgFails
             /\ UNCHANGED upstream
          \/ /\ m.type \notin {"ParameterStatus", "Notice", "ErrorResponse"}
             /\ \/ pclient.at = "auth" /\ m.type \notin Known
                \/ pclient.at = "sasl_continue" /\ m.type # "SaslContinue"
                \/ pclient.at = "sasl_final" /\ m.type # "SaslFinal"
             /\ PgFails /\ UNCHANGED upstream
    /\ UNCHANGED <<popts, pserver, pbackend>>

-----------------------------------------------------------------------------
(* The server (external).                                                  *)

Greeting == <<Reply("Ok", "none"), Reply("ParameterStatus", "none"),
              Reply("BackendKeyData", "none"), Reply("ReadyForQuery", "none")>>
Denial == <<Reply("ErrorResponse", "none")>>
First == [nonce |-> "r=client+server", salt |-> "salt"]
Stored == SaltedPassword("right", First.salt)

Challenge ==
    CASE pserver.method = "trust" -> Greeting
      [] pserver.method = "cleartext" -> <<Reply("Cleartext", "none")>>
      [] pserver.method = "md5" -> <<Reply("Md5", "salt")>>
      [] pserver.method = "scram" -> <<Reply("Sasl", {"SCRAM-SHA-256"})>>
      [] pserver.method = "scram-plus" -> <<Reply("Sasl", {"SCRAM-SHA-256", "SCRAM-SHA-256-PLUS"})>>
      [] pserver.method = "oauth" -> <<Reply("Sasl", {"OAUTHBEARER"})>>
      [] pserver.method = "gss" -> <<Reply("Gss", "none")>>

Verdict(ok) == IF ok THEN Greeting ELSE Denial
Serves(at) == pbackend' = [pbackend EXCEPT !.at = at]

ServerStep ==
    /\ upstream # <<>> /\ pbackend.at \notin {"closed", "denied"}
    /\ upstream' = Tail(upstream)
    /\ LET m == Head(upstream) IN
       \/ /\ m.type = "SSLRequest"
          /\ ToClient(<<Reply(pserver.ssl, "none")>>)
          /\ pbackend' = [pbackend EXCEPT !.at = IF pserver.ssl = "E" THEN "closed" ELSE "connect",
                                          !.enc = pserver.ssl = "S"]
       \/ /\ m.type = "Startup" /\ m.enc = pbackend.enc
          /\ \/ ToClient(Challenge) /\ Serves(IF pserver.method = "trust" THEN "ready" ELSE "auth")
             \/ ToClient(Denial) /\ Serves("closed")
       \/ /\ m.type = "Password"
          /\ LET ok == m.body = IF pserver.method = "cleartext" THEN "right" ELSE Md5Password("right", "salt")
             IN ToClient(Verdict(ok)) /\ Serves(IF ok THEN "ready" ELSE "denied")
       \/ /\ m.type = "SaslInitialResponse"
          /\ ToClient(<<Reply("Notice", "none"), Reply("SaslContinue", First)>>) /\ Serves("auth")
       \/ /\ m.type = "SaslResponse"
          /\ LET auth == AuthMessage("r=client", First)
                 key == Xor(m.body.proof, {Hmac(Sha(ClientKey(Stored)), auth)})
                 ok == m.body.nonce = First.nonce /\ key = {ClientKey(Stored)}
             IN /\ ToClient(IF ok THEN <<Reply("SaslFinal", ServerSignature(Stored, auth))>> \o Greeting ELSE Denial)
                /\ Serves(IF ok THEN "ready" ELSE "denied")
    /\ UNCHANGED <<popts, pserver, pclient>>

EstablishNext == MaybeUpgrade \/ RequestUpgrade \/ SendStartup \/ PgRecv \/ ServerStep

EstablishSpec == EstablishInit /\ [][EstablishNext]_establish_vars

-----------------------------------------------------------------------------
\* establish() returns a connection only when the server has accepted the
\* session, and with nothing left to read: the first query's answer is the
\* next message, as pending_ready_for_query_count = 0 says.
EstablishedInSync ==
    pclient.at = "established" =>
        pbackend.at = "ready" /\ upstream = <<>> /\ downstream = <<>>

\* Everything after the startup message is sent the way the receiver reads
\* it, in plain text or under TLS, and ssl_mode gets at least what it asks
\* for: the modes that require TLS never fall back.
EncryptionAgreed ==
    pclient.at \in {"auth", "sasl_continue", "sasl_final", "established"} =>
        /\ pclient.enc = pbackend.enc
        /\ NeedsTls => pclient.enc

\* The right password is enough for each method the client speaks, and the
\* wrong one never is, unless the server asks for none.
PasswordDecides ==
    /\ pclient.at = "established" => popts.password = "right" \/ pserver.method = "trust"
    /\ pbackend.at = "denied" => popts.password = "wrong"

\* establish() and the server never wait for each other.
NobodyStuck ==
    ~ /\ pclient.at \in {"ssl", "auth", "sasl_continue", "sasl_final"}
      /\ upstream = <<>> /\ downstream = <<>>
=============================================================================
