----------------------------- MODULE MCWebServer -----------------------------
(* An instance of WebServer for TLC. *)
EXTENDS WebServer

CONSTANTS rsa, ec, p1, p2, p3, ca1, ca2

MCKeyPairs == {p1, p2, p3}
MCAlgorithms == {rsa, ec}
MCAlgorithm == [pair \in MCKeyPairs |-> IF pair = p3 THEN ec ELSE rsa]
MCUsable == {rsa}
MCAuthorities == {ca1, ca2}

Plain == [https |-> FALSE, certificate |-> None, privateKey |-> None, dhParam |-> FALSE,
          mutual |-> FALSE, clientCertificate |-> {}, revocationLists |-> FALSE]

\* Without https; with a certificate of p1 or none, and every key and parameters; with the
\* certificate and the key of p3; and, with the key that fits p1, mutual SSL with nothing, with
\* revocation lists and with an authority among the certificates of clients.
MCConfigurations ==
  {Plain} \cup
  {[Plain EXCEPT !.https = TRUE, !.certificate = certificate, !.privateKey = key, !.dhParam = dh] :
     certificate \in {p1, None}, key \in {p1, p2, p3, None}, dh \in BOOLEAN} \cup
  {[Plain EXCEPT !.https = TRUE, !.certificate = p3, !.privateKey = p3, !.dhParam = TRUE]} \cup
  {[Plain EXCEPT !.https = TRUE, !.certificate = p1, !.privateKey = p1, !.dhParam = TRUE,
                 !.mutual = TRUE, !.clientCertificate = content[1], !.revocationLists = content[2]] :
     content \in {<<{}, FALSE>>, <<{}, TRUE>>, <<{ca1}, FALSE>>}}
===============================================================================
