---------------------------- MODULE MySqlEstablish ----------------------------
(***************************************************************************)
(* Opening a MySQL session: connection/establish.rs, connection/tls.rs and *)
(* connection/auth.rs, with the authentication plugins, against a server   *)
(* (external) whose account uses one plugin while its handshake announces  *)
(* another, so that it may have to switch.  The account has a password.    *)
(* Hashes are free terms, as in PgEstablish.                               *)
(***************************************************************************)
EXTENDS Naturals, Sequences, FiniteSets

CONSTANTS Plugins    \* the AuthPlugin names under test

VARIABLES
    mopts,       \* MySqlConnectOptions: ssl_mode, password, enable_cleartext_plugin
    mserver,     \* the server: TLS, announced plugin, the account's plugin, warm cache
    mclient,     \* where do_handshake() is: plugin, nonce, TLS
    mbackend,    \* where the server is
    requests,    \* packets from client to server
    packets      \* packets from server to client

login_vars == <<mopts, mserver, mclient, mbackend, requests, packets>>

MySqlSslModes == {"disabled", "preferred", "required"}

LoginInit ==
    /\ mopts \in [mode : MySqlSslModes, tls : BOOLEAN, cleartext : BOOLEAN,
                  password : {"right", "wrong", "none"}]
    /\ mserver \in [ssl : BOOLEAN, announced : Plugins \cup {"none"}, account : Plugins, cached : BOOLEAN]
    /\ mclient = [at |-> "handshake", plugin |-> "none", nonce |-> "none", is_tls |-> FALSE]
    /\ mbackend = [at |-> "start", plugin |-> "none", nonce |-> "none"]
    /\ requests = <<>> /\ packets = <<>>

Requests(type, body) == requests' = Append(requests, [type |-> type, body |-> body])
Answers(type, body) == packets' = Append(packets, [type |-> type, body |-> body])
LoginFails == mclient' = [mclient EXCEPT !.at = "failed"]

-----------------------------------------------------------------------------
(* The client.                                                             *)

\* The Handshake packet, then maybe_upgrade().
RecvHandshake ==
    /\ mclient.at = "handshake" /\ packets # <<>>
    /\ LET hello == Head(packets).body
           upgrade == mopts.tls /\ mserver.ssl /\ mopts.mode # "disabled"
           refused == mopts.mode = "required" /\ ~upgrade
       IN IF refused
          THEN LoginFails /\ UNCHANGED requests
          ELSE /\ mclient' = [at |-> "respond", plugin |-> hello.plugin, nonce |-> hello.nonce, is_tls |-> upgrade]
               /\ IF upgrade THEN Requests("SslRequest", "none") ELSE UNCHANGED requests
    /\ packets' = Tail(packets)
    /\ UNCHANGED <<mopts, mserver, mbackend>>

\* XOR(H(password), H(first, second)) for the hash H = SHA1 or SHA256: the order in which
\* the nonce and H(H(password)), "stage2", are hashed matters.
Proof(hash, password, first, second) == <<hash, password, first, second>>

\* AuthPlugin::scramble(): the response that needs no further packet.  Both scrambles hash
\* the nonce first.  Over TLS encrypt_rsa() sends the password itself.
Scrambled(plugin, password, nonce, is_tls) ==
    CASE plugin = "caching_sha2_password" -> Proof("sha256", password, nonce, "stage2")
      [] plugin = "mysql_native_password" -> Proof("sha1", password, nonce, "stage2")
      [] plugin = "sha256_password" /\ is_tls -> <<"clear", password>>
      [] plugin = "mysql_clear_password" -> <<"clear", password>>

NeedsKey(plugin) == plugin = "sha256_password" /\ ~mclient.is_tls

\* HandshakeResponse.  encrypt_rsa() asks for the public key first, and the
\* response itself waits for the answer.
SendResponse ==
    /\ mclient.at = "respond"
    /\ LET silent == mclient.plugin = "none" \/ mopts.password = "none" IN
       IF ~silent /\ NeedsKey(mclient.plugin)
       THEN Requests("PublicKeyRequest", "none") /\ mclient' = [mclient EXCEPT !.at = "key_respond"]
       ELSE /\ Requests("HandshakeResponse",
                [plugin |-> mclient.plugin,
                 auth |-> IF silent THEN <<"none">>
                          ELSE Scrambled(mclient.plugin, mopts.password, mclient.nonce, mclient.is_tls)])
            /\ mclient' = [mclient EXCEPT !.at = "loop"]
    /\ UNCHANGED <<mopts, mserver, mbackend, packets>>

\* The nonce a later AUTH_CONTINUE uses: do_handshake() keeps the one of the
\* Handshake, the nonce of a switch lives in its own arm of the match.
NonceAfterSwitch(old, new) == old

\* handle(): whether the packet ends the authentication.
AuthOk(flag) == flag = "AUTH_OK"

Rsa(password, nonce) == <<"rsa", password, nonce>>

\* The loop of do_handshake(), the AUTH_CONTINUE of handle(), and the public
\* key that encrypt_rsa() waits for.
RecvAuth ==
    /\ mclient.at \in {"loop", "key_respond", "key_switch", "key_continue"} /\ packets # <<>>
    /\ packets' = Tail(packets)
    /\ LET m == Head(packets)
           pw == IF mopts.password = "none" THEN "" ELSE mopts.password
           Waits(at) == mclient' = [mclient EXCEPT !.at = at]
       IN \/ m.type = "Err" /\ LoginFails /\ UNCHANGED requests
          \/ /\ mclient.at = "loop" /\ m.type = "Ok"
             /\ Waits("established") /\ UNCHANGED requests
          \/ /\ mclient.at = "loop" /\ m.type = "AuthSwitch"
             /\ IF m.body.plugin = "mysql_clear_password" /\ ~mopts.cleartext
                THEN LoginFails /\ UNCHANGED requests
                ELSE IF NeedsKey(m.body.plugin)
                THEN /\ Requests("PublicKeyRequest", "none")
                     /\ mclient' = [mclient EXCEPT !.at = "key_switch", !.plugin = m.body.plugin,
                                                   !.nonce = m.body.nonce]
                ELSE /\ Requests("AuthSwitchResponse", Scrambled(m.body.plugin, pw, m.body.nonce, mclient.is_tls))
                     /\ mclient' = [mclient EXCEPT !.plugin = m.body.plugin,
                                                   !.nonce = NonceAfterSwitch(mclient.nonce, m.body.nonce)]
          \/ /\ mclient.at = "loop" /\ m.type = "AuthMoreData"
             /\ IF mclient.plugin # "caching_sha2_password" \/ mopts.password = "none"
                THEN LoginFails /\ UNCHANGED requests
                ELSE IF AuthOk(m.body) THEN Waits("established") /\ UNCHANGED requests
                ELSE IF mclient.is_tls THEN Requests("Payload", <<"clear", pw>>) /\ UNCHANGED mclient
                ELSE Requests("PublicKeyRequest", "none") /\ Waits("key_continue")
          \/ /\ mclient.at # "loop" /\ m.type = "PublicKey"
             /\ Requests(IF mclient.at = "key_respond" THEN "HandshakeResponse" ELSE
                         IF mclient.at = "key_switch" THEN "AuthSwitchResponse" ELSE "Payload",
                         Rsa(pw, mclient.nonce))
             /\ Waits("loop")
    /\ UNCHANGED <<mopts, mserver, mbackend>>

-----------------------------------------------------------------------------
(* The server (external): each exchange has a nonce of its own; what       *)
(* caching_sha2_password finds in its cache it accepts with AUTH_OK and    *)
(* the OK that ends every login, for the rest it asks the password.        *)

Serve(at) == mbackend' = [mbackend EXCEPT !.at = at]
Denied == Answers("Err", "none") /\ Serve("denied")
Accepted == Answers("Ok", "none") /\ Serve("ready")

Greets ==
    /\ mbackend.at = "start"
    /\ Answers("Handshake", [plugin |-> mserver.announced, nonce |-> "n1"])
    /\ mbackend' = [at |-> "response", plugin |-> mserver.announced, nonce |-> "n1"]
    /\ UNCHANGED <<mopts, mserver, mclient, requests>>

\* The first proof of the account's plugin.
Judge(auth) ==
    IF mserver.account = "caching_sha2_password"
    THEN IF auth = Proof("sha256", "right", "stage2", mbackend.nonce) /\ mserver.cached
         THEN /\ packets' = packets \o <<[type |-> "AuthMoreData", body |-> "AUTH_OK"],
                                         [type |-> "Ok", body |-> "none"]>>
              /\ Serve("ready")
         ELSE Answers("AuthMoreData", "AUTH_CONTINUE") /\ Serve("continue")
    ELSE IF auth \in {Proof("sha1", "right", mbackend.nonce, "stage2"), <<"clear", "right">>, Rsa("right", mbackend.nonce)}
         THEN Accepted ELSE Denied

MySqlServerStep ==
    /\ requests # <<>> /\ requests' = Tail(requests)
    /\ LET m == Head(requests) IN
       \/ /\ mbackend.at = "response" /\ m.type = "SslRequest"
          /\ UNCHANGED <<packets, mbackend>>
       \/ /\ mbackend.at = "response" /\ m.type = "HandshakeResponse"
          /\ IF m.body.plugin = mserver.account
             THEN Judge(m.body.auth)
             ELSE /\ Answers("AuthSwitch", [plugin |-> mserver.account, nonce |-> "n2"])
                  /\ mbackend' = [at |-> "switched", plugin |-> mserver.account, nonce |-> "n2"]
       \/ mbackend.at = "response" /\ m.type = "PublicKeyRequest" /\ Denied
       \/ /\ mbackend.at \in {"switched", "continue"} /\ m.type = "PublicKeyRequest"
          /\ Answers("PublicKey", "none") /\ UNCHANGED mbackend
       \/ mbackend.at = "switched" /\ m.type = "AuthSwitchResponse" /\ Judge(m.body)
       \/ /\ mbackend.at = "continue" /\ m.type = "Payload"
          /\ IF m.body \in {<<"clear", "right">>, Rsa("right", mbackend.nonce)} THEN Accepted ELSE Denied
    /\ UNCHANGED <<mopts, mserver, mclient>>

LoginNext == RecvHandshake \/ SendResponse \/ RecvAuth \/ Greets \/ MySqlServerStep

LoginSpec == LoginInit /\ [][LoginNext]_login_vars

-----------------------------------------------------------------------------
\* do_handshake() ends exactly when the server has accepted the login, and
\* nothing is left to read.  do_handshake() stops at AUTH_OK and would leave the OK that
\* follows it unread; but the server hashes the nonce last where scramble_sha256() hashes it
\* first, so it never finds the proof in its cache and every login goes on to AUTH_CONTINUE.
LoginInSync ==
    mclient.at = "established" => mbackend.at = "ready" /\ requests = <<>> /\ packets = <<>>

\* No plugin, switch or exchange of keys makes client and server wait for
\* each other.
LoginNotStuck ==
    ~ /\ mclient.at \in {"loop", "key_respond", "key_switch", "key_continue"}
      /\ requests = <<>> /\ packets = <<>>

\* The right password is refused in two cases only, both without TLS: the
\* handshake announces sha256_password, whose key request overtakes the
\* HandshakeResponse; and a switch to caching_sha2_password goes on to
\* AUTH_CONTINUE, which is answered under the nonce of the handshake, whether
\* or not the server has the password in its cache.
RightPasswordAccepted ==
    mbackend.at = "denied" /\ mopts.password = "right" =>
        /\ ~mclient.is_tls
        /\ \/ mserver.announced = "sha256_password"
           \/ mbackend.nonce = "n2" /\ mserver.account = "caching_sha2_password"
=============================================================================
