------------------------------ MODULE UrlText -------------------------------
(***************************************************************************)
(* Text that goes through a URL: a sequence of characters <<n, c>>, c      *)
(* percent-encoded n times, so that <<0, ":">> is a colon and <<1, ":">>   *)
(* the three characters "%3A".                                             *)
(***************************************************************************)
EXTENDS Integers, Sequences, SequencesExt

NoText == <<>>
Delimiters == {":", "@", "/", "?"}
\* utf8_percent_encode with NON_ALPHANUMERIC: `%' is encoded as well.
PercentEncode(s) == [i \in DOMAIN s |-> IF s[i][1] > 0 \/ s[i][2] \in Delimiters THEN <<s[i][1] + 1, s[i][2]>> ELSE s[i]]
PercentDecode(s) == [i \in DOMAIN s |-> IF s[i][1] > 0 THEN <<s[i][1] - 1, s[i][2]>> ELSE s[i]]

\* The url crate encodes what would end a component and leaves `%' alone.
UrlEncode(s, ends) == [i \in DOMAIN s |-> IF s[i][1] = 0 /\ s[i][2] \in ends THEN <<1, s[i][2]>> ELSE s[i]]
Has(s, c) == \E i \in DOMAIN s : s[i] = <<0, c>>
Before(s, c) == IF Has(s, c) THEN SubSeq(s, 1, SelectInSeq(s, LAMBDA x : x = <<0, c>>) - 1) ELSE s
After(s, c) == IF Has(s, c) THEN SubSeq(s, SelectInSeq(s, LAMBDA x : x = <<0, c>>) + 1, Len(s)) ELSE NoText

\* Url::parse of "scheme://name@host:port".  The name is put there as it is:
\* a colon in it begins a password, and with a `/' or a `?' the authority
\* ends early, so that the name is read as the host.  What is left of it is
\* the path that set_path() replaces, or a key of the query that is ignored.
EndsEarly(name) == Has(name, "/") \/ Has(name, "?")
ParseAuthority(name, host, port) ==
    IF EndsEarly(name)
    THEN LET head == Before(Before(name, "/"), "?")
         IN  [host |-> IF head = NoText THEN "" ELSE head[1][2], port |-> 0, username |-> NoText, password |-> NoText, path |-> NoText, query |-> <<>>]
    ELSE [host |-> host, port |-> port, username |-> UrlEncode(Before(name, ":"), {"@"}),
          password |-> UrlEncode(After(name, ":"), {"@", ":"}), path |-> NoText, query |-> <<>>]

\* url.set_password, which is refused without a host; the code ignores that.
SetPassword(u, password) ==
    IF password = NoText \/ u.host = "" THEN u ELSE [u EXCEPT !.password = PercentEncode(password)]

\* A name that ParseAuthority reads as it was meant, and one that is read
\* from a path as it was meant: a percent sign in it is decoded.
NoPercent(s) == \A i \in DOMAIN s : s[i][1] = 0
NameFits(s) == s # NoText /\ NoPercent(s) /\ ~Has(s, ":") /\ ~EndsEarly(s)
PathFits(s) == s # NoText /\ NoPercent(s) /\ s[1] # <<0, "/">>

\* CertificateInput: a PEM text or a path.  From<String> takes for PEM only
\* what says CERTIFICATE; Display writes "file: " before a path.
NoCertificate == <<>>
CertificateFrom(value) == IF value = NoText THEN NoCertificate ELSE <<IF value = <<"CERTIFICATE">> THEN "inline" ELSE "file", value>>
Displayed(c) == IF c[1] = "inline" THEN c[2] ELSE <<"file: ">> \o c[2]
CertificatePair(key, c) == IF c = NoCertificate THEN <<>> ELSE <<<<key, Displayed(c)>>>>
CertificateFits(c) == c = NoCertificate \/ c = CertificateFrom(<<"CERTIFICATE">>)

=============================================================================
