---------------------------- MODULE SecuredContext ----------------------------
(***************************************************************************)
(* The TLS context of a SecuredServer: what each setter does to it, and    *)
(* the constructor of SecuredServer, which calls them in order and throws  *)
(* when one of them fails.                                                 *)
(*                                                                         *)
(* A certificate and a private key are represented by the key pair they    *)
(* belong to, and None stands for a text that holds nothing of the kind.   *)
(* The OpenSSL calls are modelled by what they do: a context has a slot    *)
(* for the certificate and the key of each algorithm (RSA, elliptic        *)
(* curves, ...), and only those in one slot are compared.                  *)
(***************************************************************************)

CONSTANTS
  KeyPairs,           \* the key pairs of servers
  Algorithms,         \* the algorithms they are made for
  Algorithm,          \* the one of each key pair
  UsableAlgorithms,   \* those of which the connections have a cipher suite: RSA, by the
                      \* SSL_set_cipher_list of SecuredConnection::start(), where TLS 1.2 is the
                      \* latest version (an OpenSSL with TLS 1.3 has suites for the others)
  Authorities,        \* the authorities that issue certificates to clients
  None

ASSUME NoneAssumption == None \notin KeyPairs /\ None \notin Authorities
ASSUME AlgorithmAssumption ==
  Algorithm \in [KeyPairs -> Algorithms] /\ UsableAlgorithms \subseteq Algorithms

\* SecurityConfiguration
Configuration == [
  https : BOOLEAN,                          \* isHTTPSEnabled()
  certificate : KeyPairs \cup {None},       \* getServerCertificate()
  privateKey : KeyPairs \cup {None},        \* getServerPrivateKey()
  dhParam : BOOLEAN,                        \* whether getServerDHParam() holds parameters
  mutual : BOOLEAN,                         \* isMutualSSLEnabled()
  clientCertificate : SUBSET Authorities,   \* the certificates in getClientCertificate(),
  revocationLists : BOOLEAN]                \* and whether there are revocation lists in it

Context == [
  certificate : [Algorithms -> KeyPairs \cup {None}],
  privateKey : [Algorithms -> KeyPairs \cup {None}],
  dhParam : BOOLEAN,
  verifyPeer : BOOLEAN,                     \* a client must present a certificate
  authorities : SUBSET Authorities]         \* whose certificates are accepted

Empty == [algorithm \in Algorithms |-> None]

NewContext == [certificate |-> Empty, privateKey |-> Empty, dhParam |-> FALSE,
               verifyPeer |-> FALSE, authorities |-> {}]

\* What a setter returns, and the context it leaves.
Done(result, context) == [result |-> result, context |-> context]

\* SSL_CTX_use_certificate drops a key of the same algorithm that does not match, and succeeds.
setServerCertificate(context, certificate) ==
  IF certificate = None THEN Done(FALSE, context)
  ELSE Done(TRUE, [context EXCEPT
                     !.certificate[Algorithm[certificate]] = certificate,
                     !.privateKey[Algorithm[certificate]] = IF @ = certificate THEN @ ELSE None])

\* SSL_CTX_use_PrivateKey drops a certificate of the same algorithm that does not match, and
\* fails.  A key of another algorithm than the certificate is stored beside it.
setServerPrivateKey(context, privateKey) ==
  IF privateKey = None THEN Done(FALSE, context)
  ELSE IF context.certificate[Algorithm[privateKey]] \notin {None, privateKey}
    THEN Done(FALSE, [context EXCEPT !.certificate[Algorithm[privateKey]] = None])
    ELSE Done(TRUE, [context EXCEPT !.privateKey[Algorithm[privateKey]] = privateKey])

setServerDHParam(context, dhParam) ==
  Done(dhParam, IF dhParam THEN [context EXCEPT !.dhParam = TRUE] ELSE context)

\* A defect: the certificates are stored, and no client is asked for one.
setClientCertificateUnverified(context, certificates, revocationLists) ==
  Done(certificates # {} \/ revocationLists,
       [context EXCEPT !.authorities = @ \cup certificates])

\* The revocation lists are counted as well, and never consulted: no flag of the store asks
\* for them.
setClientCertificate(context, certificates, revocationLists) ==
  Done(certificates # {} \/ revocationLists,
       [context EXCEPT !.verifyPeer = TRUE, !.authorities = @ \cup certificates])

\* A defect: the key is set before the certificate.
setHTTPSConfigurationKeyFirst(context, config) ==
  LET key == setServerPrivateKey(context, config.privateKey)
      certificate == setServerCertificate(key.context, config.certificate)
      dhParam == setServerDHParam(certificate.context, config.dhParam)
  IN  Done(certificate.result /\ key.result /\ dhParam.result, dhParam.context)

\* All three setters are called, whatever the earlier ones return.
setHTTPSConfiguration(context, config) ==
  LET certificate == setServerCertificate(context, config.certificate)
      key == setServerPrivateKey(certificate.context, config.privateKey)
      dhParam == setServerDHParam(key.context, config.dhParam)
  IN  Done(certificate.result /\ key.result /\ dhParam.result, dhParam.context)

setMutualSSLConfiguration(context, config) ==
  IF config.mutual
    THEN setClientCertificate(context, config.clientCertificate, config.revocationLists)
    ELSE Done(TRUE, context)

\* The constructor: the result is FALSE when it throws.
SecuredServer(config) ==
  LET https == setHTTPSConfiguration(NewContext, config)
  IN  IF https.result THEN setMutualSSLConfiguration(https.context, config) ELSE https

\* ServerFactory::buildServer()
buildServer(config) ==
  IF ~config.https THEN "plain"
  ELSE IF SecuredServer(config).result THEN "secured"
  ELSE "threw"

\* A handshake needs a certificate of a usable algorithm with its key and, of a client whose
\* certificate is required, one that a known authority issued.
HandshakeSucceeds(context, issuer) ==
  /\ \E algorithm \in UsableAlgorithms :
       /\ context.certificate[algorithm] # None
       /\ context.privateKey[algorithm] = context.certificate[algorithm]
  /\ context.verifyPeer => issuer \in context.authorities
===============================================================================
