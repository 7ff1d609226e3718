------------------------------ MODULE MCFetch -------------------------------
(* Instances of Fetch for TLC: two origins, one of them with TLS.           *)
EXTENDS Fetch

OneTls == {<<"tls", 1>>}
TlsAndPlain == {<<"tls", 1>>, <<"plain", 1>>}
Tls == {"tls"}
PlainOnly == {"plain"}

=============================================================================
