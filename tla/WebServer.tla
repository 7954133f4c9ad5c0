------------------------------ MODULE WebServer ------------------------------
(***************************************************************************)
(* The server with its connections: the steps of BaseServer, each together *)
(* with what it does to the connections that its workers run.  The factory *)
(* builds a Server or a SecuredServer from the configuration; the latter   *)
(* has a TLS context that decides which handshakes succeed.                *)
(*                                                                         *)
(* Of a connection the module keeps what ties it to the workers: which     *)
(* operation it waits for, whether its client has sent something that was  *)
(* not read yet, and whether the client has left.  Module Connection has   *)
(* the pieces of the request and the reply.                                *)
(***************************************************************************)
EXTENDS BaseServer, SecuredContext

CONSTANT Configurations   \* the configurations that an owner may ask the factory for

ASSUME ConfigurationsAssumption == Configurations \subseteq Configuration

VARIABLES
  config,    \* what the owner asks for
  server,    \* "none" before the factory is called, then "plain", "secured" or "threw"
  context,   \* m_context of a SecuredServer
  place,     \* what each connection waits for, or the handler that a worker runs for it:
             \* "handshake", "read", "write", or "shutdown" while the worker is in the synchronous
             \* shutdown of the TLS stream; "none" before it is started and once it is released
  issuer,    \* who issued the certificate that its client presented, if it was asked for one
  client     \* its client: "silent", "sent" (there is something of it to read) or "left" (it has
             \* closed or reset, and what it sent before may still be read)

serverVars == <<config, server, context>>
connectionVars == <<place, issuer, client>>
webVars == <<vars, serverVars, connectionVars>>

WebTypeOK ==
  /\ TypeOK
  /\ config \in Configurations
  /\ server \in {"none", "plain", "secured", "threw"}
  /\ context \in Context
  /\ place \in [Conns -> {"none", "handshake", "read", "write", "shutdown"}]
  /\ issuer \in [Conns -> Authorities \cup {None}]
  /\ client \in [Conns -> {"silent", "sent", "left"}]

WebInit ==
  /\ Init
  /\ config \in Configurations
  /\ server = "none"
  /\ context = NewContext
  /\ place = [c \in Conns |-> "none"]
  /\ issuer = [c \in Conns |-> None]
  /\ client = [c \in Conns |-> "silent"]

-----------------------------------------------------------------------------
(* The owner *)

\* A constructor that throws destroys the BaseServer that is already there.
BuildServer ==
  /\ server = "none"
  /\ server' = buildServer(config)
  /\ context' = IF server' = "secured" THEN SecuredServer(config).context ELSE context
  /\ IF server' = "threw" THEN Destroy ELSE UNCHANGED vars
  /\ UNCHANGED <<config, connectionVars>>

OwnerCalls ==
  /\ server # "none"
  /\ \/ Start \/ StartThrows \/ StartAcceptorThrows \/ SpawnThread \/ StartEnds
     \/ Stop \/ StopThrows \/ Join \/ StopReturns
     \/ Destroy
  /\ UNCHANGED <<serverVars, connectionVars>>

\* The members are destroyed, and the connections that are still there with them.
ReleaseServer ==
  /\ Release
  /\ place' = [c \in Conns |-> "none"]
  /\ issuer' = [c \in Conns |-> None]
  /\ client' = [c \in Conns |-> "silent"]
  /\ UNCHANGED serverVars

WebOwnerStep == BuildServer \/ OwnerCalls \/ ReleaseServer

-----------------------------------------------------------------------------
(* The workers *)

\* handleAccept up to the call of m_newConnection->start().
AcceptClient(w) ==
  /\ AcceptConnection(w) \/ AcceptError(w)
  /\ UNCHANGED <<serverVars, connectionVars>>

\* start() of a connection.
StartClient(w) ==
  /\ StartConnection(w)
  /\ place' = [place EXCEPT ![m_newConnection] = IF server = "secured" THEN "handshake" ELSE "read"]
  /\ UNCHANGED <<serverVars, issuer, client>>

\* The rest of handleAccept, and the end of run().
RearmOrExit(w) ==
  /\ Rearm(w) \/ PureVirtualCall(w) \/ StartAcceptor(w) \/ AcceptThrows(w) \/ RunReturns(w)
       \/ (server = "secured" /\ DestroyedMember(w))
  /\ UNCHANGED <<serverVars, connectionVars>>

\* A defect: the operations are synchronous, so that a worker waits in them for the client.
CompleteAtOnce(c) == TRUE

\* Whether the operation that connection c waits for can complete: a handshake or a read
\* needs something from the client, or its end.  That the client reads its reply is assumed.
Complete(c) == place[c] = "write" \/ client[c] # "silent"

Serve(w, c) ==
  /\ Complete(c)
  /\ ServeConnection(w, c)
  /\ UNCHANGED <<serverVars, connectionVars>>

\* What the client of connection c sent was read; of one that left there may be more.
ReadAll(c) == client' = [client EXCEPT ![c] = IF @ = "left" THEN "left" ELSE "silent"]

\* The handler starts another operation.
GoesOn(w, next) ==
  /\ HandlerReturns(w)
  /\ cur[w] \in pending'
  /\ place' = [place EXCEPT ![cur[w]] = next]
  /\ ReadAll(cur[w])
  /\ UNCHANGED serverVars

\* The handler starts none, and the connection is released.
Ends(w) ==
  /\ HandlerReturns(w)
  /\ cur[w] \notin pending'
  /\ place' = [place EXCEPT ![cur[w]] = "none"]
  /\ issuer' = [issuer EXCEPT ![cur[w]] = None]
  /\ client' = [client EXCEPT ![cur[w]] = "silent"]
  /\ UNCHANGED serverVars

Handles(w, handler) == At(w, "handler") /\ place[cur[w]] = handler

\* handleHandshake() without an error: a client that left may have completed its part before.
HandleHandshake(w) ==
  /\ Handles(w, "handshake")
  /\ client[cur[w]] # "silent"
  /\ \E certificate \in Authorities \cup {None} :
       /\ HandshakeSucceeds(context, certificate)
       /\ issuer' = [issuer EXCEPT ![cur[w]] = IF context.verifyPeer THEN certificate ELSE None]
  /\ GoesOn(w, "read")

\* handleRead() without an error: the request is incomplete, or its reply is written.
HandleRead(w) ==
  /\ Handles(w, "read")
  /\ client[cur[w]] # "silent"
  /\ \E next \in {"read", "write"} : GoesOn(w, next)
  /\ UNCHANGED issuer

\* handleRead() in which a web service, or the building of the reply, throws.
HandleReadThrows(w) ==
  /\ Handles(w, "read")
  /\ client[cur[w]] # "silent"
  /\ HandlerThrows(w)
  /\ UNCHANGED <<serverVars, connectionVars>>

\* A handler with an error: the client has left, or the handshake fails.
HandleError(w) ==
  /\ \/ Handles(w, "handshake") /\ client[cur[w]] # "silent"
     \/ \E handler \in {"read", "write"} : Handles(w, handler) /\ client[cur[w]] = "left"
  /\ Ends(w)

\* handleWrite() of a Connection without an error.
HandleWrite(w) ==
  /\ server = "plain"
  /\ Handles(w, "write")
  /\ Ends(w)

\* handleWrite() of a SecuredConnection without an error: its worker goes into the synchronous
\* shutdown and stays there until the client closes its side, or sends something else.
HandleWriteSecured(w) ==
  /\ server = "secured"
  /\ Handles(w, "write")
  /\ place' = [place EXCEPT ![cur[w]] = "shutdown"]
  /\ UNCHANGED <<vars, serverVars, issuer, client>>

ShutdownReturns(w) ==
  /\ Handles(w, "shutdown")
  /\ client[cur[w]] # "silent"
  /\ Ends(w)

WebHandler(w) ==
  \/ StartClient(w) \/ RearmOrExit(w)
  \/ HandleHandshake(w) \/ HandleRead(w) \/ HandleReadThrows(w) \/ HandleError(w)
  \/ HandleWrite(w) \/ HandleWriteSecured(w) \/ ShutdownReturns(w)

-----------------------------------------------------------------------------
(* The clients *)

Send(c) ==
  /\ terminated = "no"
  /\ place[c] # "none"
  /\ client[c] = "silent"
  /\ client' = [client EXCEPT ![c] = "sent"]
  /\ UNCHANGED <<vars, serverVars, place, issuer>>

Leave(c) ==
  /\ terminated = "no"
  /\ place[c] # "none"
  /\ client[c] # "left"
  /\ client' = [client EXCEPT ![c] = "left"]
  /\ UNCHANGED <<vars, serverVars, place, issuer>>

-----------------------------------------------------------------------------
WebNext ==
  \/ WebOwnerStep
  \/ \E w \in Workers : AcceptClient(w) \/ WebHandler(w) \/ \E c \in Conns : Serve(w, c)
  \/ \E c \in Conns : Send(c) \/ Leave(c)
  \/ Ended /\ UNCHANGED <<serverVars, connectionVars>>

WebSpec == WebInit /\ [][WebNext]_webVars

\* As in BaseServer.  In addition the queue of the io_service is first in, first out: an
\* operation that is complete, and again and again finds a worker in run(), is taken.
WebFairness ==
  /\ WF_webVars(owner # "idle" /\ WebOwnerStep)
  /\ \A w \in Workers : WF_webVars(WebHandler(w))
  /\ \A c \in Conns : SF_webVars(\E w \in Workers : Serve(w, c))

WebFairSpec == WebSpec /\ WebFairness

-----------------------------------------------------------------------------
(* Properties *)

\* A connection that was started waits for one operation or is in one handler, never both, and
\* never in the handlers of two workers; a connection that is not started is in neither.
OneOperation ==
  \A c \in Conns :
    /\ c \in pending => \A w \in Workers : cur[w] # c
    /\ \A v, w \in Workers : cur[v] = c /\ cur[w] = c => v = w
    /\ place[c] = "none" <=> c \notin pending /\ \A w \in Workers : cur[w] # c

\* With mutual SSL, nothing that a client sends is read as a request unless one of the
\* configured authorities issued its certificate.
Authenticated ==
  \A c \in Conns :
    server = "secured" /\ config.mutual /\ place[c] \in {"read", "write", "shutdown"} =>
      issuer[c] \in config.clientCertificate

\* The constructor of a secured server lets no key pass that does not fit a certificate of the
\* same algorithm.  What it does let pass completes handshakes if and only if key and certificate
\* are of one algorithm, the connections can use it and, with mutual SSL, there is an authority
\* among the certificates of clients: with a key of another algorithm, with a certificate the
\* cipher suite does not know or with revocation lists alone, a server is built and serves nobody.
CredentialsMatch ==
  server = "secured" =>
    /\ Algorithm[config.certificate] = Algorithm[config.privateKey] =>
         config.certificate = config.privateKey
    /\ (\E issuedBy \in Authorities \cup {None} : HandshakeSucceeds(context, issuedBy)) <=>
         /\ config.certificate = config.privateKey
         /\ Algorithm[config.certificate] \in UsableAlgorithms
         /\ config.mutual => config.clientCertificate # {}

(* The inductive invariant behind them *)

\* A worker refers to a connection while it runs a handler of it, and at no other time.
CurrentInHandler == \A w \in Workers : worker[w] # "handler" => cur[w] = NoConn

\* The connection that handleAccept is about to start is used by nobody.
FreshUntilStarted ==
  \A w \in Workers : worker[w] = "accept" => m_newConnection \notin pending \cup Handled

\* A SecuredServer has the context that its constructor made, and before a server is built
\* nothing runs.
ServerAsBuilt ==
  /\ server = "secured" => /\ SecuredServer(config).result
                           /\ context = SecuredServer(config).context
  /\ server = "none" => ~m_running /\ \A c \in Conns : place[c] = "none"

WebIInv ==
  /\ WebTypeOK /\ IInv
  /\ OneOperation /\ Authenticated
  /\ CurrentInHandler /\ FreshUntilStarted /\ ServerAsBuilt

(* Liveness *)

\* The workers that a client holds: it was answered over TLS, and neither closes its side nor
\* sends anything.
Held ==
  {w \in Workers : Handles(w, "shutdown") /\ client[cur[w]] = "silent"}

\* A stop(), called by the owner or by the destructor, returns unless a silent TLS client
\* holds a worker again and again.
StopReturnsUnlessHeld ==
  []<>(owner # "join" \/ terminated # "no" \/ Held # {})

\* Nothing that a client sends is left unread, and no reply unfinished, while the server runs
\* with a worker that no client holds: neither by other clients nor by the accept handler.
NoClientStarves ==
  \A c \in Conns :
    []<>~(/\ c \in pending
          /\ Complete(c)
          /\ m_running
          /\ owner \in {"idle", "spawn"}
          /\ terminated = "no"
          /\ \E w \in Workers \ Held : worker[w] \notin {"none", "exited"})
===============================================================================
