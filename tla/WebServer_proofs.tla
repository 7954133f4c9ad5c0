--------------------------- MODULE WebServer_proofs ---------------------------
(* Safety of the server with its connections, for every size of the pool, every set of
   connections and every set of configurations. *)
EXTENDS WebServer, BaseServer_proofs

-----------------------------------------------------------------------------
(* The steps of the composition are steps of BaseServer *)

\* A step of the composition is a step of BaseServer, or leaves its variables alone.
LEMMA StepOfBaseServer == [WebNext]_webVars => [Next]_vars
<1>. SUFFICES ASSUME [WebNext]_webVars PROVE [Next]_vars
  OBVIOUS
<1>1. CASE WebOwnerStep
  BY <1>1 DEF WebOwnerStep, BuildServer, OwnerCalls, ReleaseServer, Next, OwnerStep
<1>2. ASSUME NEW w \in Workers, AcceptClient(w) PROVE Next
  BY <1>2 DEF AcceptClient, Next, WorkerStep
<1>3. ASSUME NEW w \in Workers, WebHandler(w) PROVE [Next]_vars
  <2>1. CASE StartClient(w) \/ RearmOrExit(w)
    BY <2>1 DEF StartClient, RearmOrExit, Next, WorkerStep, WorkerInHandler
  <2>2. CASE HandlerReturns(w) \/ HandlerThrows(w)
    BY <2>2 DEF Next, WorkerStep, WorkerInHandler
  <2>3. CASE HandleWriteSecured(w)
    BY <2>3 DEF HandleWriteSecured
  <2>. QED BY <1>3, <2>1, <2>2, <2>3
           DEF WebHandler, HandleHandshake, HandleRead, HandleReadThrows, HandleError, HandleWrite,
               ShutdownReturns, GoesOn, Ends
<1>4. ASSUME NEW w \in Workers, NEW c \in Conns, Serve(w, c) PROVE Next
  BY <1>4 DEF Serve, Next, WorkerStep
<1>5. ASSUME NEW c \in Conns, Send(c) \/ Leave(c) PROVE UNCHANGED vars
  BY <1>5 DEF Send, Leave
<1>6. CASE UNCHANGED webVars
  BY <1>6 DEF webVars
<1>. QED BY <1>1, <1>2, <1>3, <1>4, <1>5, <1>6 DEF WebNext, Next

\* The server with its connections implements BaseServer, so that every theorem of
\* BaseServer_proofs holds of it: the abstract connections there do all that the connections
\* here do.
THEOREM Composition == WebSpec => Spec
<1>1. WebInit => Init
  BY DEF WebInit
<1>. QED BY <1>1, StepOfBaseServer, PTL DEF WebSpec, Spec

-----------------------------------------------------------------------------
(* The TLS context *)

\* The two fields of what a setter returns.
LEMMA DoneFields ==
  ASSUME NEW result, NEW made
  PROVE  Done(result, made).result = result /\ Done(result, made).context = made
BY DEF Done

\* What the constructor of SecuredServer leaves when it does not throw: the certificate and the
\* key, each in the slot of its algorithm and matching when that is the same slot, and, with
\* mutual SSL, the demand for a certificate of a configured authority.
LEMMA Constructor ==
  ASSUME config \in Configuration, SecuredServer(config).result
  PROVE  LET made == SecuredServer(config).context
             a == Algorithm[config.certificate]
             b == Algorithm[config.privateKey]
         IN  /\ made \in Context
             /\ config.certificate \in KeyPairs /\ config.privateKey \in KeyPairs
             /\ a = b => config.certificate = config.privateKey
             /\ made.certificate = [Empty EXCEPT ![a] = config.certificate]
             /\ made.privateKey = [Empty EXCEPT ![b] = config.privateKey]
             /\ config.mutual => /\ made.verifyPeer
                                 /\ made.authorities = config.clientCertificate
             /\ ~config.mutual => ~made.verifyPeer
<1>. DEFINE certificate == setServerCertificate(NewContext, config.certificate)
            key == setServerPrivateKey(certificate.context, config.privateKey)
            https == setHTTPSConfiguration(NewContext, config)
            made == SecuredServer(config)
            a == Algorithm[config.certificate]
            b == Algorithm[config.privateKey]
<1>1. https.result
  BY DEF SecuredServer
<1>2. certificate.result /\ key.result /\ config.dhParam
  BY <1>1 DEF setHTTPSConfiguration, setServerDHParam, Done
<1>3. https.context = [key.context EXCEPT !.dhParam = TRUE]
  BY <1>2 DEF setHTTPSConfiguration, setServerDHParam, Done
<1>4. config.certificate # None
  BY <1>2, DoneFields DEF setServerCertificate
<1>5. certificate.context =
        [NewContext EXCEPT !.certificate[a] = config.certificate,
                           !.privateKey[a] = IF @ = config.certificate THEN @ ELSE None]
  BY <1>4, DoneFields DEF setServerCertificate
<1>6. /\ config.privateKey # None
      /\ certificate.context.certificate[b] \in {None, config.privateKey}
      /\ key.context = [certificate.context EXCEPT !.privateKey[b] = config.privateKey]
  <2> DEFINE before == certificate.context
             privateKey == config.privateKey
             set == setServerPrivateKey(before, privateKey)
  <2>1. set.result
    BY <1>2
  <2> HIDE DEF before, privateKey
  <2>2. privateKey # None
    BY <2>1, DoneFields DEF setServerPrivateKey
  <2>3. before.certificate[Algorithm[privateKey]] \in {None, privateKey}
    BY <2>1, <2>2, DoneFields DEF setServerPrivateKey
  <2>4. set.context = [before EXCEPT !.privateKey[Algorithm[privateKey]] = privateKey]
    BY <2>2, <2>3, DoneFields DEF setServerPrivateKey
  <2> QED
    BY <2>2, <2>3, <2>4 DEF before, privateKey
<1>7. made = IF config.mutual
               THEN setClientCertificate(https.context, config.clientCertificate,
                                         config.revocationLists)
               ELSE Done(TRUE, https.context)
  BY <1>1 DEF SecuredServer, setMutualSSLConfiguration
<1>8. /\ config.certificate \in KeyPairs /\ config.privateKey \in KeyPairs
      /\ a \in Algorithms /\ b \in Algorithms
  BY <1>4, <1>6, AlgorithmAssumption DEF Configuration
<1>. HIDE DEF certificate, key, https, made, a, b
<1>. DEFINE Fresh(c) == /\ c \in Context
                        /\ c.certificate = [Empty EXCEPT ![a] = config.certificate]
                        /\ c.verifyPeer = FALSE
                        /\ c.authorities = {}
<1>9. Empty \in [Algorithms -> KeyPairs \cup {None}] /\ \A c \in Algorithms : Empty[c] = None
  BY DEF Empty
<1>10. Fresh(certificate.context) /\ certificate.context.privateKey = Empty
  <2>1. NewContext.certificate = Empty /\ NewContext.privateKey = Empty
    BY DEF NewContext
  <2>2. NewContext.privateKey[a] = None
    BY <1>8, <1>9, <2>1
  <2>3. [Empty EXCEPT ![a] = None] = Empty
    BY <1>8, <1>9 DEF Empty
  <2>4. NewContext \in Context
    BY <1>9 DEF NewContext, Context
  <2>5. certificate.context =
          [NewContext EXCEPT !.certificate = [Empty EXCEPT ![a] = config.certificate],
                             !.privateKey = Empty]
    BY <1>4, <1>5, <2>1, <2>2, <2>3 DEF NewContext
  <2>6. [Empty EXCEPT ![a] = config.certificate] \in [Algorithms -> KeyPairs \cup {None}]
    BY <1>8, <1>9
  <2>. QED BY <1>9, <2>4, <2>5, <2>6 DEF NewContext, Context
<1>11. a = b => config.certificate = config.privateKey
  BY <1>6, <1>8, <1>9, <1>10, <1>4
<1>12. Fresh(key.context) /\ key.context.privateKey = [Empty EXCEPT ![b] = config.privateKey]
  <2>1. [Empty EXCEPT ![b] = config.privateKey] \in [Algorithms -> KeyPairs \cup {None}]
    BY <1>8, <1>9
  <2>2. key.context =
          [certificate.context EXCEPT !.privateKey = [Empty EXCEPT ![b] = config.privateKey]]
    BY <1>6, <1>10
  <2>. QED BY <1>10, <2>1, <2>2 DEF Context
<1>13. Fresh(https.context) /\ https.context.privateKey = [Empty EXCEPT ![b] = config.privateKey]
  <2>1. /\ https.context \in Context
        /\ https.context.certificate = key.context.certificate
        /\ https.context.privateKey = key.context.privateKey
        /\ https.context.verifyPeer = key.context.verifyPeer
        /\ https.context.authorities = key.context.authorities
    <3>. HIDE DEF Fresh
    <3>1. key.context \in Context
      BY <1>12 DEF Fresh
    <3>. QED BY <1>3, <3>1 DEF Context
  <2>. QED BY <1>12, <2>1
<1>14. CASE config.mutual
  <2>1. made.context = [https.context EXCEPT !.verifyPeer = TRUE,
                                             !.authorities = @ \cup config.clientCertificate]
    BY <1>7, <1>14, DoneFields DEF setClientCertificate
  <2>2. https.context.authorities \cup config.clientCertificate = config.clientCertificate
    BY <1>13
  <2>3. /\ made.context \in Context
        /\ made.context.certificate = https.context.certificate
        /\ made.context.privateKey = https.context.privateKey
        /\ made.context.verifyPeer = TRUE
        /\ made.context.authorities = config.clientCertificate
    BY <1>13, <2>1, <2>2 DEF Context, Configuration
  <2>. QED BY <1>8, <1>11, <1>13, <1>14, <2>3 DEF made, a, b
<1>15. CASE ~config.mutual
  <2>1. made.context = https.context
    BY <1>7, <1>15, DoneFields
  <2>. QED BY <1>8, <1>11, <1>13, <1>15, <2>1 DEF made, a, b
<1>. QED BY <1>14, <1>15

-----------------------------------------------------------------------------
(* The inductive invariant *)

\* Every initial state satisfies it.
LEMMA WebInitIInv == WebInit => WebIInv
<1>. SUFFICES ASSUME WebInit PROVE WebIInv
  OBVIOUS
<1>1. IInv /\ TypeOK
  BY InitIInv DEF WebInit, IInv
<1>2. WebTypeOK
  BY <1>1 DEF WebInit, WebTypeOK, NewContext, Context, Empty
<1>3. OneOperation /\ CurrentInHandler /\ FreshUntilStarted
  BY ConnsAssumption DEF WebInit, Init, OneOperation, CurrentInHandler, FreshUntilStarted
<1>4. Authenticated /\ ServerAsBuilt
  BY DEF WebInit, Init, Authenticated, ServerAsBuilt
<1>. QED BY <1>1, <1>2, <1>3, <1>4 DEF WebIInv

\* The factory is called before anything runs.
LEMMA BuildPreserves == WebIInv /\ BuildServer => WebIInv'
<1>. SUFFICES ASSUME WebIInv, BuildServer PROVE WebIInv'
  OBVIOUS
<1>1. IInv'
  BY StepIInv, StepOfBaseServer DEF WebIInv, WebNext, WebOwnerStep
<1>2. UNCHANGED <<worker, cur, pending, m_newConnection, m_running, config, connectionVars>>
  BY DEF BuildServer, Destroy, vars, ownerVars, socketVars, acceptVars, threadVars, workerVars
<1>3. config \in Configuration
  BY ConfigurationsAssumption DEF WebIInv, WebTypeOK
<1>4. /\ server' = "none" => FALSE
      /\ server' = "secured" => SecuredServer(config).result /\ config.https
      /\ server' \in {"plain", "secured", "threw"}
  BY DEF BuildServer, buildServer
<1>5. OneOperation' /\ CurrentInHandler' /\ FreshUntilStarted'
  BY <1>2 DEF WebIInv, connectionVars, OneOperation, CurrentInHandler, FreshUntilStarted, Handled
<1>6. WebTypeOK'
  BY <1>1, <1>2, <1>3, <1>4, Constructor DEF WebIInv, WebTypeOK, IInv, connectionVars, BuildServer
<1>7. ServerAsBuilt'
  BY <1>2, <1>4 DEF BuildServer, ServerAsBuilt
<1>8. Authenticated'
  BY <1>2 DEF WebIInv, BuildServer, ServerAsBuilt, Authenticated, connectionVars
<1>. QED BY <1>1, <1>5, <1>6, <1>7, <1>8 DEF WebIInv

\* The calls of the owner.
LEMMA CallsPreserve == WebIInv /\ OwnerCalls => WebIInv'
<1>. SUFFICES ASSUME WebIInv, OwnerCalls PROVE WebIInv'
  OBVIOUS
<1>. USE DEF ownerVars, socketVars, acceptVars, threadVars, workerVars
<1>1. IInv' /\ WebTypeOK'
  BY StepIInv, StepOfBaseServer
     DEF WebIInv, WebTypeOK, IInv, WebNext, WebOwnerStep, OwnerCalls, serverVars, connectionVars
<1>2. UNCHANGED <<cur, pending, serverVars, connectionVars>>
  BY DEF OwnerCalls, Start, StartThrows, StartAcceptorThrows, SpawnThread, StartEnds, Stop, StopThrows, Join,
         StopReturns, Destroy
<1>3. OneOperation' /\ Authenticated' /\ ServerAsBuilt'
  BY <1>2 DEF WebIInv, OneOperation, Authenticated, ServerAsBuilt, serverVars, connectionVars,
              OwnerCalls
<1>4. \A w \in Workers : \/ worker'[w] = worker[w]
                         \/ worker'[w] = "run" /\ worker[w] = "none"
  <2>1. CASE SpawnThread
    BY <2>1 DEF SpawnThread, WebIInv, IInv, TypeOK, ThreadsInOrder, Workers
  <2>2. CASE UNCHANGED worker
    BY <2>2
  <2>. QED BY <2>1, <2>2
           DEF OwnerCalls, Start, StartThrows, StartAcceptorThrows, StartEnds, Stop, StopThrows, Join, StopReturns,
               Destroy
<1>5. CurrentInHandler'
  BY <1>2, <1>4 DEF WebIInv, CurrentInHandler
<1>6. FreshUntilStarted'
  <2>1. CASE Start \/ StartAcceptorThrows
    <3>1. \A w \in Workers : worker[w] # "accept"
      BY <2>1, IdleWorkers DEF Start, StartAcceptorThrows, WebIInv, IInv, RunningUntilJoined
    <3>. QED BY <1>4, <3>1 DEF FreshUntilStarted
  <2>2. CASE UNCHANGED m_newConnection
    BY <1>2, <1>4, <2>2 DEF WebIInv, FreshUntilStarted, Handled
  <2>. QED BY <2>1, <2>2
           DEF OwnerCalls, StartThrows, SpawnThread, StartEnds, Stop, StopThrows, Join,
               StopReturns, Destroy
<1>. QED BY <1>1, <1>3, <1>5, <1>6 DEF WebIInv

\* The end of the server takes its connections with it.
LEMMA ReleasePreserves == WebIInv /\ ReleaseServer => WebIInv'
<1>. SUFFICES ASSUME WebIInv, ReleaseServer PROVE WebIInv'
  OBVIOUS
<1>1. IInv'
  BY StepIInv, StepOfBaseServer DEF WebIInv, WebNext, WebOwnerStep
<1>2. WebTypeOK'
  BY <1>1 DEF WebIInv, WebTypeOK, IInv, ReleaseServer, serverVars
<1>3. ~m_running
  BY DEF ReleaseServer, Release, OwnerAt, WebIInv, IInv, RunningUntilJoined
<1>4. /\ UNCHANGED <<worker, cur, m_running, serverVars>>
      /\ pending' = {}
      /\ place' = [c \in Conns |-> "none"]
  BY DEF ReleaseServer, Release, ownerVars, socketVars, threadVars
<1>5. \A w \in Workers : worker[w] # "accept" /\ cur[w] = NoConn
  BY <1>3, IdleWorkers DEF WebIInv, CurrentInHandler
<1>6. OneOperation' /\ CurrentInHandler' /\ FreshUntilStarted'
  BY <1>4, <1>5, ConnsAssumption DEF OneOperation, CurrentInHandler, FreshUntilStarted
<1>7. Authenticated' /\ ServerAsBuilt'
  BY <1>4 DEF WebIInv, Authenticated, ServerAsBuilt, serverVars
<1>. QED BY <1>1, <1>2, <1>6, <1>7 DEF WebIInv

\* A worker takes the completion of the accept.
LEMMA AcceptPreserves == ASSUME WebIInv, NEW w \in Workers, AcceptClient(w) PROVE WebIInv'
<1>1. IInv'
  BY StepIInv, StepOfBaseServer DEF WebIInv, WebNext
<1>2. WebTypeOK'
  BY <1>1 DEF WebIInv, WebTypeOK, IInv, AcceptClient, serverVars, connectionVars
<1>3. /\ UNCHANGED <<cur, pending, m_newConnection, m_running, serverVars, connectionVars>>
      /\ worker[w] = "run" /\ accepting # NoConn
      /\ worker' \in {[worker EXCEPT ![w] = "accept"], [worker EXCEPT ![w] = "rearm"]}
  BY DEF AcceptClient, AcceptConnection, AcceptError, TakeAccept, At, ownerVars, socketVars,
         threadVars
<1>4. OneOperation' /\ Authenticated' /\ ServerAsBuilt'
  BY <1>3 DEF WebIInv, OneOperation, Authenticated, ServerAsBuilt, serverVars, connectionVars
<1>5. CurrentInHandler'
  BY <1>3 DEF WebIInv, IInv, TypeOK, CurrentInHandler
<1>6. FreshUntilStarted'
  BY <1>3 DEF WebIInv, IInv, TypeOK, AcceptTarget, FreshUntilStarted, Handled
<1>. QED BY <1>1, <1>2, <1>4, <1>5, <1>6 DEF WebIInv

\* The new connection is started.  No worker used it, and no other is in handleAccept.
LEMMA StartPreserves == ASSUME WebIInv, NEW w \in Workers, StartClient(w) PROVE WebIInv'
<1>1. IInv'
  BY StepIInv, StepOfBaseServer DEF WebIInv, WebNext, WebHandler
<1>2. /\ worker[w] = "accept"
      /\ worker' = [worker EXCEPT ![w] = "rearm"]
      /\ pending' = pending \cup {m_newConnection}
      /\ UNCHANGED <<cur, m_newConnection, m_running, serverVars, issuer, client>>
  BY DEF StartClient, StartConnection, At, acceptVars, socketVars
<1>3. /\ m_running /\ AcceptHandlers = {w}
      /\ m_newConnection \in Conns /\ m_newConnection \notin pending \cup Handled
  BY <1>2, AcceptHandlerAlone
     DEF WebIInv, IInv, TypeOK, RunningUntilJoined, FreshUntilStarted
<1>4. \A v \in Workers : cur[v] # m_newConnection
  BY <1>3 DEF Handled
<1>5. /\ place' = [place EXCEPT ![m_newConnection] = place'[m_newConnection]]
      /\ place'[m_newConnection] \in {"handshake", "read"}
      /\ server = "secured" => place'[m_newConnection] = "handshake"
  BY <1>3 DEF StartClient, WebIInv, WebTypeOK
<1>6. WebTypeOK'
  BY <1>1, <1>2, <1>5 DEF WebIInv, WebTypeOK, IInv, serverVars
<1>7. OneOperation'
  BY <1>2, <1>3, <1>4, <1>5 DEF WebIInv, WebTypeOK, OneOperation
<1>8. Authenticated' /\ ServerAsBuilt'
  BY <1>2, <1>3, <1>5 DEF WebIInv, WebTypeOK, Authenticated, ServerAsBuilt, serverVars
<1>9. CurrentInHandler'
  BY <1>2 DEF WebIInv, IInv, TypeOK, CurrentInHandler
<1>10. FreshUntilStarted'
  BY <1>2, <1>3 DEF WebIInv, IInv, TypeOK, FreshUntilStarted, AcceptHandlers
<1>. QED BY <1>1, <1>6, <1>7, <1>8, <1>9, <1>10 DEF WebIInv

\* The rest of handleAccept, and the end of run().
LEMMA RearmPreserves == ASSUME WebIInv, NEW w \in Workers, RearmOrExit(w) PROVE WebIInv'
<1>1. IInv'
  BY StepIInv, StepOfBaseServer DEF WebIInv, WebNext, WebHandler
<1>2. WebTypeOK'
  BY <1>1 DEF WebIInv, WebTypeOK, IInv, RearmOrExit, serverVars, connectionVars
<1>3. /\ UNCHANGED <<cur, pending, m_running, serverVars, connectionVars>>
      /\ worker[w] # "handler"
      /\ \/ worker' = worker
         \/ \E next \in {"run", "build", "exited"} : worker' = [worker EXCEPT ![w] = next]
  BY DEF RearmOrExit, Rearm, PureVirtualCall, StartAcceptor, AcceptThrows, DestroyedMember, RunReturns, At,
         ownerVars, socketVars, acceptVars, threadVars, workerVars
<1>4. OneOperation' /\ Authenticated' /\ ServerAsBuilt'
  BY <1>3 DEF WebIInv, OneOperation, Authenticated, ServerAsBuilt, serverVars, connectionVars
<1>5. CurrentInHandler'
  BY <1>3 DEF WebIInv, IInv, TypeOK, CurrentInHandler
<1>6. \A v \in Workers : worker'[v] = "accept" => worker[v] = "accept"
  BY <1>3 DEF WebIInv, IInv, TypeOK
<1>7. FreshUntilStarted'
  <2>1. CASE StartAcceptor(w)
    <3>1. worker[w] = "build" /\ AcceptHandlers = {w}
      BY <2>1, AcceptHandlerAlone DEF StartAcceptor, At, WebIInv
    <3>. QED BY <1>6, <3>1 DEF FreshUntilStarted, AcceptHandlers
  <2>2. CASE UNCHANGED m_newConnection
    BY <1>3, <1>6, <2>2 DEF WebIInv, FreshUntilStarted, Handled
  <2>. QED BY <2>1, <2>2
           DEF RearmOrExit, Rearm, PureVirtualCall, AcceptThrows, DestroyedMember, RunReturns, acceptVars
<1>. QED BY <1>1, <1>2, <1>4, <1>5, <1>7 DEF WebIInv

\* An operation completes and its handler begins.
LEMMA ServePreserves ==
  ASSUME WebIInv, NEW w \in Workers, NEW c \in Conns, Serve(w, c) PROVE WebIInv'
<1>1. IInv'
  BY StepIInv, StepOfBaseServer DEF WebIInv, WebNext
<1>2. WebTypeOK'
  BY <1>1 DEF WebIInv, WebTypeOK, IInv, Serve, serverVars, connectionVars
<1>3. /\ UNCHANGED <<m_newConnection, m_running, serverVars, connectionVars>>
      /\ worker[w] = "run" /\ c \in pending
      /\ worker' = [worker EXCEPT ![w] = "handler"]
      /\ cur' = [cur EXCEPT ![w] = c]
      /\ pending' = pending \ {c}
  BY DEF Serve, ServeConnection, At, acceptVars, socketVars
<1>4. OneOperation'
  <2>1. cur[w] = NoConn /\ \A v \in Workers : cur[v] # c
    BY <1>3 DEF WebIInv, CurrentInHandler, OneOperation
  <2>2. \A v \in Workers : cur'[v] = IF v = w THEN c ELSE cur[v]
    BY <1>3 DEF WebIInv, IInv, TypeOK
  <2>3. c # NoConn
    BY ConnsAssumption
  <2>. QED BY <1>3, <2>1, <2>2, <2>3, ConnsAssumption DEF WebIInv, OneOperation, connectionVars
<1>5. Authenticated' /\ ServerAsBuilt'
  BY <1>3 DEF WebIInv, Authenticated, ServerAsBuilt, serverVars, connectionVars
<1>6. CurrentInHandler'
  BY <1>3 DEF WebIInv, IInv, TypeOK, CurrentInHandler
<1>7. FreshUntilStarted'
  BY <1>3 DEF WebIInv, IInv, TypeOK, FreshUntilStarted, Handled
<1>. QED BY <1>1, <1>2, <1>4, <1>5, <1>6, <1>7 DEF WebIInv

\* A handler ends: its connection waits for another operation, or is released.
LEMMA HandlerEnds ==
  ASSUME WebIInv, NEW w \in Workers, HandlerReturns(w),
         NEW next \in {"none", "handshake", "read", "write", "shutdown"},
         place' = [place EXCEPT ![cur[w]] = next], next = "none" <=> cur[w] \notin pending'
  PROVE  OneOperation' /\ CurrentInHandler' /\ FreshUntilStarted'
<1>1. /\ worker[w] = "handler"
      /\ worker' = [worker EXCEPT ![w] = "run"]
      /\ cur' = [cur EXCEPT ![w] = NoConn]
      /\ pending' = (IF next = "none" THEN pending ELSE pending \cup {cur[w]})
      /\ UNCHANGED m_newConnection
  BY DEF HandlerReturns, At, acceptVars
<1>2. cur[w] \in Conns /\ cur[w] \notin pending /\ cur[w] \in Handled
  BY <1>1 DEF WebIInv, IInv, TypeOK, ThreadsInOrder, OneOperation, Handled
<1>3. \A v \in Workers : /\ cur'[v] = IF v = w THEN NoConn ELSE cur[v]
                         /\ v # w => cur[v] # cur[w]
  BY <1>1, <1>2 DEF WebIInv, IInv, TypeOK, OneOperation
<1>4. \A c \in Conns : place'[c] = IF c = cur[w] THEN next ELSE place[c]
  BY DEF WebIInv, WebTypeOK
<1>5. OneOperation'
  BY <1>1, <1>2, <1>3, <1>4, ConnsAssumption DEF WebIInv, OneOperation
<1>6. CurrentInHandler'
  BY <1>1, <1>3 DEF WebIInv, IInv, TypeOK, CurrentInHandler
<1>7. FreshUntilStarted'
  <2>1. Handled' \subseteq Handled \cup {NoConn}
    BY <1>3 DEF Handled
  <2>2. ASSUME NEW v \in Workers, worker'[v] = "accept"
        PROVE  m_newConnection \in Conns /\ m_newConnection \notin pending \cup Handled
    <3>1. worker[v] = "accept"
      BY <1>1, <2>2 DEF WebIInv, IInv, TypeOK
    <3>. QED BY <3>1, AcceptHandlerAlone
             DEF WebIInv, IInv, TypeOK, RunningUntilJoined, FreshUntilStarted
  <2>. QED BY <1>1, <1>2, <2>1, <2>2, ConnsAssumption DEF FreshUntilStarted
<1>. QED BY <1>5, <1>6, <1>7

\* The handlers of the connections.
LEMMA HandlerPreserves ==
  ASSUME WebIInv, NEW w \in Workers, WebHandler(w), ~StartClient(w), ~RearmOrExit(w)
  PROVE  WebIInv'
<1>1. IInv'
  BY StepIInv, StepOfBaseServer DEF WebIInv, WebNext
<1>. USE DEF Handles, At
<1>2. CASE HandleWriteSecured(w)
  <2>1. cur[w] \in Conns
    BY <1>2 DEF HandleWriteSecured, WebIInv, IInv, TypeOK, ThreadsInOrder
  <2>2. /\ UNCHANGED <<worker, cur, pending, m_newConnection, m_running, serverVars, issuer, client>>
        /\ place[cur[w]] = "write"
        /\ place' = [place EXCEPT ![cur[w]] = "shutdown"]
    BY <1>2 DEF HandleWriteSecured, vars, workerVars, acceptVars, socketVars
  <2>3. WebTypeOK'
    BY <1>1, <2>1, <2>2 DEF WebIInv, WebTypeOK, IInv, serverVars
  <2>4. OneOperation' /\ CurrentInHandler' /\ FreshUntilStarted'
    BY <2>1, <2>2 DEF WebIInv, WebTypeOK, OneOperation, CurrentInHandler, FreshUntilStarted, Handled
  <2>5. Authenticated' /\ ServerAsBuilt'
    BY <2>1, <2>2 DEF WebIInv, WebTypeOK, Authenticated, ServerAsBuilt, serverVars
  <2>. QED BY <1>1, <2>3, <2>4, <2>5 DEF WebIInv
<1>3. CASE HandleReadThrows(w)
  <2>1. UNCHANGED <<worker, cur, pending, m_newConnection, m_running, serverVars, connectionVars>>
    BY <1>3 DEF HandleReadThrows, HandlerThrows, workerVars, acceptVars, socketVars
  <2>2. WebTypeOK'
    BY <1>1, <2>1 DEF WebIInv, WebTypeOK, IInv, serverVars, connectionVars
  <2>3. OneOperation' /\ CurrentInHandler' /\ FreshUntilStarted' /\ Authenticated' /\ ServerAsBuilt'
    BY <2>1 DEF WebIInv, OneOperation, CurrentInHandler, FreshUntilStarted, Handled,
                Authenticated, ServerAsBuilt, serverVars, connectionVars
  <2>. QED BY <1>1, <2>2, <2>3 DEF WebIInv
<1>4. CASE Ends(w)
  <2>1. cur[w] \in Conns
    BY <1>4 DEF Ends, HandlerReturns, WebIInv, IInv, TypeOK, ThreadsInOrder
  <2>2. OneOperation' /\ CurrentInHandler' /\ FreshUntilStarted'
    BY <1>4, HandlerEnds DEF Ends
  <2>3. UNCHANGED <<m_running, serverVars>>
    BY <1>4 DEF Ends, HandlerReturns, socketVars
  <2>4. WebTypeOK'
    BY <1>1, <1>4, <2>3 DEF Ends, WebIInv, WebTypeOK, IInv, serverVars
  <2>5. Authenticated' /\ ServerAsBuilt'
    BY <1>4, <2>1, <2>3 DEF Ends, WebIInv, WebTypeOK, Authenticated, ServerAsBuilt, serverVars
  <2>. QED BY <1>1, <2>2, <2>4, <2>5 DEF WebIInv
<1>5. CASE HandleRead(w) \/ HandleHandshake(w)
  <2>1. PICK next \in {"read", "write"} : GoesOn(w, next)
    BY <1>5 DEF HandleRead, HandleHandshake
  <2>2. /\ cur[w] \in Conns
        /\ UNCHANGED <<m_running, serverVars>>
        /\ place' = [place EXCEPT ![cur[w]] = next]
    BY <2>1 DEF GoesOn, HandlerReturns, socketVars, WebIInv, IInv, TypeOK, ThreadsInOrder
  <2>3. OneOperation' /\ CurrentInHandler' /\ FreshUntilStarted'
    BY <2>1, HandlerEnds DEF GoesOn
  <2>4. client' \in [Conns -> {"silent", "sent", "left"}]
    BY <2>1 DEF GoesOn, ReadAll, WebIInv, WebTypeOK
  <2>5. /\ issuer' \in [Conns -> Authorities \cup {None}]
        /\ Authenticated'
    <3>1. CASE HandleRead(w)
      BY <2>2, <3>1 DEF HandleRead, WebIInv, WebTypeOK, Authenticated, serverVars
    <3>2. CASE HandleHandshake(w)
      <4>1. PICK certificate \in Authorities \cup {None} :
              /\ HandshakeSucceeds(context, certificate)
              /\ issuer' = [issuer EXCEPT ![cur[w]] = IF context.verifyPeer THEN certificate ELSE None]
        BY <3>2 DEF HandleHandshake
      <4>2. ASSUME server = "secured", config.mutual
            PROVE  issuer'[cur[w]] \in config.clientCertificate
        <5>1. context.verifyPeer /\ context.authorities = config.clientCertificate
          BY <4>2, Constructor, ConfigurationsAssumption DEF WebIInv, WebTypeOK, ServerAsBuilt
        <5>. QED BY <2>2, <4>1, <5>1 DEF HandshakeSucceeds, WebIInv, WebTypeOK
      <4>3. issuer' \in [Conns -> Authorities \cup {None}]
        BY <4>1 DEF WebIInv, WebTypeOK
      <4>. QED BY <2>2, <4>1, <4>2, <4>3 DEF WebIInv, WebTypeOK, Authenticated, serverVars
    <3>. QED BY <1>5, <3>1, <3>2
  <2>6. WebTypeOK'
    BY <1>1, <2>2, <2>4, <2>5 DEF WebIInv, WebTypeOK, IInv, serverVars
  <2>7. ServerAsBuilt'
    <3>1. m_running
      BY <1>5, IdleWorkers DEF HandleRead, HandleHandshake, WebIInv
    <3>. QED BY <2>2, <3>1 DEF WebIInv, ServerAsBuilt, serverVars
  <2>. QED BY <1>1, <2>3, <2>5, <2>6, <2>7 DEF WebIInv
<1>. QED BY <1>2, <1>3, <1>4, <1>5 DEF WebHandler, HandleError, HandleWrite, ShutdownReturns

\* The clients.
LEMMA ClientPreserves ==
  ASSUME WebIInv, NEW c \in Conns, Send(c) \/ Leave(c) PROVE WebIInv'
<1>1. IInv'
  BY StepIInv, StepOfBaseServer DEF WebIInv, WebNext
<1>2. UNCHANGED <<worker, cur, pending, m_newConnection, m_running, serverVars, place, issuer>>
  BY DEF Send, Leave, vars, workerVars, acceptVars, socketVars
<1>3. client' \in [Conns -> {"silent", "sent", "left"}]
  BY DEF Send, Leave, WebIInv, WebTypeOK
<1>4. WebTypeOK'
  BY <1>1, <1>2, <1>3 DEF WebIInv, WebTypeOK, IInv, serverVars
<1>5. OneOperation' /\ CurrentInHandler' /\ FreshUntilStarted' /\ Authenticated' /\ ServerAsBuilt'
  BY <1>2 DEF WebIInv, OneOperation, CurrentInHandler, FreshUntilStarted, Handled, Authenticated,
              ServerAsBuilt, serverVars
<1>. QED BY <1>1, <1>4, <1>5 DEF WebIInv

-----------------------------------------------------------------------------
LEMMA WebStepIInv == WebIInv /\ [WebNext]_webVars => WebIInv'
<1>. SUFFICES ASSUME WebIInv, [WebNext]_webVars PROVE WebIInv'
  OBVIOUS
<1>1. CASE WebOwnerStep
  BY <1>1, BuildPreserves, CallsPreserve, ReleasePreserves DEF WebOwnerStep
<1>2. ASSUME NEW w \in Workers, AcceptClient(w) \/ WebHandler(w) PROVE WebIInv'
  BY <1>2, AcceptPreserves, StartPreserves, RearmPreserves, HandlerPreserves
<1>3. ASSUME NEW w \in Workers, NEW c \in Conns, Serve(w, c) PROVE WebIInv'
  BY <1>3, ServePreserves
<1>4. ASSUME NEW c \in Conns, Send(c) \/ Leave(c) PROVE WebIInv'
  BY <1>4, ClientPreserves
<1>5. CASE UNCHANGED webVars
  <2>1. IInv'
    BY <1>5, StepIInv, StepOfBaseServer DEF WebIInv
  <2>2. UNCHANGED <<worker, cur, pending, m_newConnection, m_running, serverVars, connectionVars>>
    BY <1>5 DEF webVars, vars, workerVars, acceptVars, socketVars
  <2>3. WebTypeOK'
    BY <2>1, <2>2 DEF WebIInv, WebTypeOK, IInv, serverVars, connectionVars
  <2>. QED BY <2>1, <2>2, <2>3
           DEF WebIInv, OneOperation, CurrentInHandler, FreshUntilStarted, Handled, Authenticated,
               ServerAsBuilt, serverVars, connectionVars
<1>. QED BY <1>1, <1>2, <1>3, <1>4, <1>5 DEF WebNext, Ended, webVars

\* The inductive invariant holds in every reachable state.
THEOREM WebInvariance == WebSpec => []WebIInv
<1>. QED BY WebInitIInv, WebStepIInv, PTL DEF WebSpec

\* Every variable of the composition keeps its type.
THEOREM WebTypeCorrect == WebSpec => []WebTypeOK
<1>1. WebIInv => WebTypeOK
  BY DEF WebIInv
<1>. QED BY <1>1, WebInvariance, PTL

\* A connection never has two operations, and its handlers never overlap, even without the
\* strand that they are wrapped in.
THEOREM NeverTwoHandlers == WebSpec => []OneOperation
<1>1. WebIInv => OneOperation
  BY DEF WebIInv
<1>. QED BY <1>1, WebInvariance, PTL

\* With mutual SSL no request is read from a client without a certificate of a configured
\* authority.
THEOREM OnlyAuthenticatedClients == WebSpec => []Authenticated
<1>1. WebIInv => Authenticated
  BY DEF WebIInv
<1>. QED BY <1>1, WebInvariance, PTL

\* Whether a secured server serves anybody is decided by its configuration alone, and the
\* constructor catches a key of the algorithm of the certificate that does not fit it.
THEOREM UsableCredentials == WebSpec => []CredentialsMatch
<1>1. WebIInv => CredentialsMatch
  <2>. SUFFICES ASSUME WebIInv, server = "secured" PROVE CredentialsMatch
    BY DEF CredentialsMatch
  <2>. DEFINE a == Algorithm[config.certificate]
              b == Algorithm[config.privateKey]
  <2>1. config \in Configuration /\ SecuredServer(config).result
        /\ context = SecuredServer(config).context
    BY ConfigurationsAssumption DEF WebIInv, WebTypeOK, ServerAsBuilt
  <2>2. /\ config.certificate \in KeyPairs /\ config.privateKey \in KeyPairs
        /\ a = b => config.certificate = config.privateKey
        /\ context.certificate = [Empty EXCEPT ![a] = config.certificate]
        /\ context.privateKey = [Empty EXCEPT ![b] = config.privateKey]
        /\ config.mutual => context.verifyPeer /\ context.authorities = config.clientCertificate
        /\ ~config.mutual => ~context.verifyPeer
        /\ config.clientCertificate \subseteq Authorities
    BY <2>1, Constructor DEF Configuration
  <2>3. a \in Algorithms /\ b \in Algorithms
        /\ config.certificate # None /\ config.privateKey # None
    BY <2>2, AlgorithmAssumption, NoneAssumption
  <2>4. \A c \in UsableAlgorithms :
          /\ context.certificate[c] = IF c = a THEN config.certificate ELSE None
          /\ context.privateKey[c] = IF c = b THEN config.privateKey ELSE None
    BY <2>2, <2>3, AlgorithmAssumption DEF Empty
  <2>5. (\E c \in UsableAlgorithms : /\ context.certificate[c] # None
                                    /\ context.privateKey[c] = context.certificate[c])
          <=> config.certificate = config.privateKey /\ a \in UsableAlgorithms
    BY <2>2, <2>3, <2>4
  <2>6. (\E issuedBy \in Authorities \cup {None} :
            context.verifyPeer => issuedBy \in context.authorities)
          <=> (config.mutual => config.clientCertificate # {})
    BY <2>2
  <2>7. (\E issuedBy \in Authorities \cup {None} : HandshakeSucceeds(context, issuedBy))
          <=> /\ config.certificate = config.privateKey /\ a \in UsableAlgorithms
              /\ config.mutual => config.clientCertificate # {}
    BY <2>5, <2>6 DEF HandshakeSucceeds
  <2>. QED BY <2>2, <2>7 DEF CredentialsMatch
<1>. QED BY <1>1, WebInvariance, PTL

\* What BaseServer promises its owner, the server with its connections promises too.
THEOREM WebLifecycle == WebSpec => LifecycleSpec
<1>. QED BY Composition, Refinement, PTL

==============================================================================
