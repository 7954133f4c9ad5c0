-------------------------- MODULE BaseServer_proofs --------------------------
(* Safety of BaseServer, for every size of the pool and every set of connections. *)
EXTENDS BaseServer, TLAPS

\* A server that does not run has no worker inside run(): each was joined, or was never
\* spawned.
LEMMA IdleWorkers ==
  ASSUME IInv, ~m_running, NEW w \in Workers
  PROVE  worker[w] \in {"none", "exited"}
BY PoolSizeAssumption
   DEF IInv, TypeOK, ThreadsInOrder, RunningUntilJoined, Workers

\* A worker that is not "none" was spawned.
LEMMA SpawnedWorker ==
  ASSUME IInv, NEW w \in Workers, worker[w] # "none"
  PROVE  m_threads > 0
BY PoolSizeAssumption DEF IInv, TypeOK, ThreadsInOrder, Workers

\* Handlers execute only while the server runs.
LEMMA QuietWhenStopped == IInv => HandlersOnlyWhileRunning
BY IdleWorkers DEF HandlersOnlyWhileRunning, Busy

\* A worker in handleAccept is the only one, and no async_accept is outstanding.
LEMMA AcceptHandlerAlone ==
  ASSUME IInv, NEW w \in Workers, worker[w] \in {"accept", "rearm", "build"}
  PROVE  /\ m_running /\ Opened
         /\ accepting = NoConn
         /\ AcceptHandlers = {w}
<1>1. m_running
  BY IdleWorkers
<1>2. w \in AcceptHandlers
  BY DEF AcceptHandlers
<1>3. Opened
  BY <1>1, SpawnedWorker DEF Opened
<1>. QED BY <1>1, <1>2, <1>3 DEF IInv, OneAccept, AcceptHandlers

\* Every initial state satisfies the invariant.
LEMMA InitIInv == Init => IInv
<1>. SUFFICES ASSUME Init PROVE IInv
  OBVIOUS
<1>1. TypeOK
  <2>1. 0 \in 0 .. PoolSize
    BY PoolSizeAssumption
  <2>. QED BY <2>1 DEF Init, TypeOK
<1>2. ThreadsInOrder
  BY PoolSizeAssumption DEF Init, ThreadsInOrder, Workers
<1>3. RunningUntilJoined
  BY DEF Init, RunningUntilJoined, Opened
<1>4. OneAccept /\ AcceptTarget
  BY DEF Init, OneAccept, Opened, AcceptTarget, AcceptHandlers
<1>. QED BY <1>1, <1>2, <1>3, <1>4 DEF IInv

\* A step that leaves the acceptor, handleAccept and the connections alone preserves what
\* the invariant says of them.
LEMMA AcceptUntouched ==
  ASSUME IInv, UNCHANGED <<accepting, m_newConnection, pending, cur>>,
         Opened' => Opened,
         \A w \in Workers : worker'[w] \in {"accept", "rearm", "build"}
                             <=> worker[w] \in {"accept", "rearm", "build"}
  PROVE  OneAccept' /\ AcceptTarget'
<1>1. AcceptHandlers' = AcceptHandlers
  BY DEF AcceptHandlers, Workers
<1>2. Handled' = Handled
  BY DEF Handled, Workers
<1>. QED BY <1>1, <1>2 DEF IInv, OneAccept, AcceptTarget

\* The steps of the owner.
LEMMA OwnerPreserves == IInv /\ OwnerStep => IInv'
<1>. SUFFICES ASSUME IInv, OwnerStep PROVE IInv'
  OBVIOUS
<1>. USE PoolSizeAssumption, ConnsAssumption
     DEF IInv, TypeOK, ThreadsInOrder, RunningUntilJoined, Opened, OwnerAt, StopCalled, ownerVars,
         socketVars, acceptVars, threadVars, workerVars, vars
<1>1. CASE StartThrows
  BY <1>1, AcceptUntouched DEF StartThrows, Workers
<1>11. CASE StartAcceptorThrows
  <2>1. ~m_running /\ m_threads = 0
    BY <1>11 DEF StartAcceptorThrows
  <2>2. m_newConnection' \in Conns \cup {NoConn}
    BY <1>11 DEF StartAcceptorThrows, Free
  <2>3. ~Opened' /\ AcceptHandlers' = AcceptHandlers
    BY <1>11, <2>1 DEF StartAcceptorThrows, Opened, AcceptHandlers
  <2>4. accepting = NoConn
    BY <1>11 DEF StartAcceptorThrows
  <2>5. TypeOK' /\ ThreadsInOrder' /\ RunningUntilJoined'
    BY <1>11, <2>1, <2>2, <2>3 DEF StartAcceptorThrows, Workers
  <2>6. OneAccept' /\ AcceptTarget'
    BY <1>11, <2>3, <2>4 DEF StartAcceptorThrows, OneAccept, AcceptTarget
  <2>. QED BY <2>5, <2>6
<1>2. CASE SpawnThread
  BY <1>2, AcceptUntouched DEF SpawnThread, Workers
<1>3. CASE StartEnds
  BY <1>3, AcceptUntouched DEF StartEnds, Workers
<1>4. CASE Stop
  BY <1>4, AcceptUntouched DEF Stop, Workers
<1>5. CASE StopThrows
  BY <1>5, AcceptUntouched DEF StopThrows, Workers
<1>6. CASE Join
  BY <1>6, AcceptUntouched DEF Join, Workers
<1>7. CASE StopReturns
  BY <1>7, AcceptUntouched DEF StopReturns, Workers
<1>8. CASE Destroy
  BY <1>8, AcceptUntouched DEF Destroy, Workers
<1>9. CASE Release
  <2>1. AcceptHandlers' = AcceptHandlers
    BY <1>9 DEF Release, AcceptHandlers
  <2>2. OneAccept' /\ AcceptTarget'
    BY <1>9, <2>1 DEF Release, OneAccept, AcceptTarget
  <2>3. TypeOK' /\ ThreadsInOrder' /\ RunningUntilJoined'
    BY <1>9 DEF Release, Workers
  <2>. QED BY <2>2, <2>3
<1>10. CASE Start
  <2>1. PICK c \in Free : m_newConnection' = c /\ accepting' = c
    BY <1>10 DEF Start, startAcceptor
  <2>2. c \in Conns /\ c # NoConn /\ c \notin pending \cup Handled
    BY <2>1 DEF Free
  <2>3. AcceptHandlers' = {}
    BY <1>10, IdleWorkers DEF Start, AcceptHandlers, Workers
  <2>4. OneAccept'
    BY <2>1, <2>2, <2>3 DEF OneAccept
  <2>5. AcceptTarget'
    BY <1>10, <2>1, <2>2 DEF Start, AcceptTarget, Handled, Workers
  <2>6. TypeOK' /\ ThreadsInOrder' /\ RunningUntilJoined'
    BY <1>10, <2>1, <2>2 DEF Start, Workers
  <2>. QED BY <2>4, <2>5, <2>6
<1>. QED BY <1>1, <1>2, <1>3, <1>4, <1>5, <1>6, <1>7, <1>8, <1>9, <1>10, <1>11
         DEF OwnerStep

\* The steps of a worker.
LEMMA WorkerPreserves == ASSUME IInv, NEW w \in Workers, WorkerStep(w) PROVE IInv'
<1>. USE PoolSizeAssumption, ConnsAssumption
     DEF IInv, TypeOK, ThreadsInOrder, RunningUntilJoined, Opened, At, ownerVars, socketVars, acceptVars,
         threadVars, workerVars
<1>1. CASE AcceptConnection(w) \/ AcceptError(w)
  <2>1. Opened /\ AcceptHandlers = {}
    BY <1>1, IdleWorkers, SpawnedWorker DEF AcceptConnection, AcceptError, TakeAccept, OneAccept
  <2>2. AcceptHandlers' = {w}
    BY <1>1, <2>1 DEF AcceptConnection, AcceptError, TakeAccept, AcceptHandlers
  <2>3. OneAccept' /\ AcceptTarget'
    BY <1>1, <2>1, <2>2 DEF AcceptConnection, AcceptError, TakeAccept, OneAccept, AcceptTarget
  <2>4. TypeOK' /\ ThreadsInOrder' /\ RunningUntilJoined'
    BY <1>1 DEF AcceptConnection, AcceptError, TakeAccept, Workers
  <2>. QED BY <2>3, <2>4
<1>2. CASE StartConnection(w)
  <2>1. Opened /\ accepting = NoConn /\ AcceptHandlers = {w}
    BY <1>2, AcceptHandlerAlone DEF StartConnection
  <2>2. m_newConnection \in Conns
    BY <2>1
  <2>3. AcceptHandlers' = {w}
    BY <1>2, <2>1 DEF StartConnection, AcceptHandlers
  <2>4. OneAccept' /\ AcceptTarget'
    BY <1>2, <2>1, <2>3 DEF StartConnection, OneAccept, AcceptTarget
  <2>5. TypeOK'
    BY <1>2, <2>2 DEF StartConnection
  <2>6. ThreadsInOrder' /\ RunningUntilJoined'
    BY <1>2 DEF StartConnection, Workers
  <2>. QED BY <2>4, <2>5, <2>6
<1>3. CASE StartAcceptor(w)
  <2>1. m_running /\ AcceptHandlers = {w}
    BY <1>3, AcceptHandlerAlone DEF StartAcceptor
  <2>2. PICK c \in Free : m_newConnection' = c /\ accepting' = c
    BY <1>3, <2>1 DEF StartAcceptor, startAcceptor
  <2>3. c \in Conns /\ c # NoConn /\ c \notin pending \cup Handled
    BY <2>2 DEF Free
  <2>4. AcceptHandlers' = {}
    BY <1>3, <2>1 DEF StartAcceptor, AcceptHandlers
  <2>5. OneAccept'
    BY <2>2, <2>3, <2>4 DEF OneAccept
  <2>6. AcceptTarget'
    BY <1>3, <2>2, <2>3 DEF StartAcceptor, AcceptTarget, Handled
  <2>7. TypeOK' /\ ThreadsInOrder' /\ RunningUntilJoined'
    BY <1>3, <2>2, <2>3 DEF StartAcceptor, Workers
  <2>. QED BY <2>5, <2>6, <2>7
<1>9. CASE Rearm(w)
  <2>1. m_running
    BY <1>9, AcceptHandlerAlone DEF Rearm
  <2>. QED BY <1>9, <2>1, AcceptUntouched DEF Rearm, Workers
<1>11. CASE AcceptThrows(w)
  BY <1>11, AcceptUntouched DEF AcceptThrows
<1>10. CASE DestroyedMember(w)
  BY <1>10, AcceptUntouched DEF DestroyedMember
<1>4. CASE PureVirtualCall(w)
  BY <1>4, AcceptUntouched DEF PureVirtualCall
<1>5. ASSUME NEW c \in Conns, ServeConnection(w, c) PROVE IInv'
  <2>1. AcceptHandlers' = AcceptHandlers
    BY <1>5 DEF ServeConnection, AcceptHandlers
  <2>2. OneAccept'
    BY <1>5, <2>1 DEF ServeConnection, OneAccept
  <2>3. Handled' \subseteq Handled \cup {c}
    BY <1>5 DEF ServeConnection, Handled
  <2>4. AcceptTarget'
    BY <1>5, <2>3 DEF ServeConnection, AcceptTarget
  <2>5. TypeOK' /\ ThreadsInOrder' /\ RunningUntilJoined'
    BY <1>5 DEF ServeConnection, Workers
  <2>. QED BY <2>2, <2>4, <2>5
<1>6. CASE HandlerReturns(w)
  <2>1. cur[w] \in Conns /\ cur[w] \in Handled
    BY <1>6 DEF HandlerReturns, Handled
  <2>2. AcceptHandlers' = AcceptHandlers
    BY <1>6 DEF HandlerReturns, AcceptHandlers
  <2>3. OneAccept'
    BY <1>6, <2>2 DEF HandlerReturns, OneAccept
  <2>4. Handled' \subseteq Handled \cup {NoConn}
    BY <1>6 DEF HandlerReturns, Handled
  <2>5. AcceptTarget'
    BY <1>6, <2>1, <2>4 DEF HandlerReturns, AcceptTarget
  <2>6. TypeOK'
    <3>1. pending' \in SUBSET Conns
      BY <1>6, <2>1 DEF HandlerReturns
    <3>. QED BY <1>6, <3>1 DEF HandlerReturns
  <2>7. ThreadsInOrder' /\ RunningUntilJoined'
    BY <1>6 DEF HandlerReturns, Workers
  <2>. QED BY <2>3, <2>5, <2>6, <2>7
<1>7. CASE HandlerThrows(w)
  BY <1>7, AcceptUntouched DEF HandlerThrows
<1>8. CASE RunReturns(w)
  BY <1>8, AcceptUntouched DEF RunReturns, Workers
<1>. QED BY <1>1, <1>2, <1>3, <1>4, <1>5, <1>6, <1>7, <1>8, <1>9, <1>10, <1>11
         DEF WorkerStep, WorkerInHandler

-----------------------------------------------------------------------------
LEMMA StepIInv == IInv /\ [Next]_vars => IInv'
<1>. SUFFICES ASSUME IInv, [Next]_vars PROVE IInv'
  OBVIOUS
<1>1. CASE OwnerStep
  BY <1>1, OwnerPreserves
<1>2. ASSUME NEW w \in Workers, WorkerStep(w) PROVE IInv'
  BY <1>2, WorkerPreserves
<1>3. CASE UNCHANGED vars
  BY <1>3 DEF IInv, TypeOK, ThreadsInOrder, RunningUntilJoined, OneAccept, AcceptTarget,
              AcceptHandlers,
              Handled, Opened, vars, ownerVars, socketVars, acceptVars, threadVars, workerVars
<1>. QED BY <1>1, <1>2, <1>3 DEF Next, Ended

\* The inductive invariant holds in every reachable state.
THEOREM Invariance == Spec => []IInv
<1>. QED BY InitIInv, StepIInv, PTL DEF Spec

\* Every variable keeps its type.
THEOREM TypeCorrect == Spec => []TypeOK
<1>1. IInv => TypeOK
  BY DEF IInv
<1>. QED BY <1>1, Invariance, PTL

\* The chain of handleAccept and startAcceptor never breaks and never forks, whatever the
\* size of the pool.
THEOREM AcceptChain == Spec => []OneAccept
<1>1. IInv => OneAccept
  BY DEF IInv
<1>. QED BY <1>1, Invariance, PTL

\* async_accept never refers to the socket of a connection that is in use or destroyed.
THEOREM AcceptIntoFreshConnection == Spec => []AcceptTarget
<1>1. IInv => AcceptTarget
  BY DEF IInv
<1>. QED BY <1>1, Invariance, PTL

\* No handler executes when the server does not run: in particular, none after stop().
THEOREM NoHandlerAfterStop == Spec => []HandlersOnlyWhileRunning
<1>. QED BY QuietWhenStopped, Invariance, PTL

\* No worker is inside run() when the members of the server are destroyed.
THEOREM ThreadsEndFirst == Spec => []NoThreadOutlives
<1>1. IInv => NoThreadOutlives
  BY IdleWorkers DEF IInv, RunningUntilJoined, NoThreadOutlives
<1>. QED BY <1>1, Invariance, PTL

\* The io_service never runs out of work while a worker waits in it, so only a stop() of the
\* owner stops it.
THEOREM ServiceStopsOnDemand == Spec => OnlyOwnerStops
<1>1. ASSUME IInv, [Next]_vars, ~io_stopped, io_stopped'
      PROVE  owner # "join" /\ owner' = "join"
  <2>. USE DEF ownerVars, socketVars, acceptVars, threadVars, workerVars, vars
  <2>1. CASE UNCHANGED vars
    BY <1>1, <2>1
  <2>2. CASE OwnerStep
    <3>1. ~StopThrows
      BY <1>1, PoolSizeAssumption
         DEF StopThrows, IInv, TypeOK, ThreadsInOrder, Workers
    <3>2. Stop
      BY <1>1, <2>2, <3>1
         DEF OwnerStep, Start, StartThrows, StartAcceptorThrows, SpawnThread, StartEnds, Join,
             StopReturns, Destroy, Release
    <3>. QED BY <3>2 DEF Stop, StopCalled, OwnerAt
  <2>3. ASSUME NEW w \in Workers, WorkerStep(w) PROVE FALSE
    <3>1. RunReturns(w)
      BY <1>1, <2>3
         DEF WorkerStep, WorkerInHandler, AcceptConnection, AcceptError, TakeAccept,
             StartConnection, Rearm, StartAcceptor, DestroyedMember, AcceptThrows,
             PureVirtualCall, ServeConnection, HandlerReturns, HandlerThrows
    <3>2. Opened
      BY <1>1, <3>1, IdleWorkers, SpawnedWorker DEF RunReturns, At, Opened
    <3>3. HasWork
      BY <1>1, <3>2 DEF IInv, OneAccept, HasWork, AcceptHandlers, Busy
    <3>. QED BY <1>1, <3>1, <3>3 DEF RunReturns
  <2>. QED BY <1>1, <2>1, <2>2, <2>3 DEF Next, Ended
<1>2. IInv /\ [Next]_vars => [~io_stopped /\ io_stopped' => owner # "join" /\ owner' = "join"]_vars
  BY <1>1
<1>. QED BY <1>2, Invariance, PTL DEF Spec, OnlyOwnerStops

-----------------------------------------------------------------------------
(* BaseServer implements ServerLifecycle. *)

\* The initial state is that of a new server.
LEMMA InitRefines == Init => Lifecycle!Init
BY DEF Init, Lifecycle!Init, phase, Busy

\* A step that the abstract server does not see.
LEMMA Unseen ==
  ASSUME UNCHANGED <<m_running, m_acceptor, terminated>>, owner # "gone", owner' # "gone",
         \A w \in Workers : worker'[w] \in {"accept", "rearm", "build", "handler"}
                             <=> worker[w] \in {"accept", "rearm", "build", "handler"}
  PROVE  UNCHANGED Lifecycle!vars
<1>1. Busy' = Busy
  BY DEF Busy, Workers
<1>. QED BY <1>1 DEF Lifecycle!vars, phase

\* A worker that executes a handler, or is about to, belongs to a server that serves.
LEMMA ServingWorker ==
  ASSUME IInv, terminated = "no", NEW w \in Workers, worker[w] \notin {"none", "exited"}
  PROVE  phase = "serving" /\ owner # "gone"
<1>1. m_running
  BY IdleWorkers
<1>. QED BY <1>1 DEF phase, IInv, RunningUntilJoined

\* Every step of the owner is a step of the abstract server, or is not seen.
LEMMA OwnerRefines ==
  ASSUME IInv, OwnerStep
  PROVE  [Lifecycle!Next]_Lifecycle!vars
<1>. USE DEF OwnerAt, StopCalled, ownerVars, socketVars, acceptVars, threadVars, workerVars, vars
<1>1. CASE Start
  <2>1. phase = "new" /\ phase' = "serving"
    BY <1>1 DEF Start, phase, IInv, RunningUntilJoined
  <2>2. Busy' = Busy
    BY <1>1 DEF Start, Busy
  <2>. QED BY <2>1, <2>2 DEF Lifecycle!Next, Lifecycle!Start
<1>9. CASE StartAcceptorThrows
  <2>1. phase = "new" /\ phase' = "serving"
    BY <1>9 DEF StartAcceptorThrows, phase, IInv, RunningUntilJoined
  <2>2. Busy' = Busy
    BY <1>9 DEF StartAcceptorThrows, Busy
  <2>. QED BY <2>1, <2>2 DEF Lifecycle!Next, Lifecycle!Start
<1>2. CASE StartThrows
  <2>1. phase' = phase
    BY <1>2 DEF StartThrows, phase
  <2>2. Busy' = Busy
    BY <1>2 DEF StartThrows, Busy
  <2>. QED BY <2>1, <2>2 DEF Lifecycle!vars
<1>3. CASE StopReturns
  <2>1. Busy' = Busy
    BY <1>3 DEF StopReturns, Busy
  <2>2. CASE ~m_running
    <3>1. phase' = phase
      BY <1>3, <2>2 DEF StopReturns, phase
    <3>. QED BY <2>1, <3>1 DEF Lifecycle!vars
  <2>3. CASE m_running
    <3>1. phase = "serving" /\ phase' = "stopped"
      BY <1>3, <2>3 DEF StopReturns, phase, IInv, RunningUntilJoined
    <3>2. Busy = {}
      BY <1>3, PoolSizeAssumption DEF StopReturns, Busy, IInv, TypeOK, ThreadsInOrder, Workers
    <3>. QED BY <2>1, <3>1, <3>2 DEF Lifecycle!Next, Lifecycle!Stop
  <2>. QED BY <2>2, <2>3 DEF IInv, TypeOK
<1>4. CASE Release
  <2>1. Busy = {} /\ Busy' = Busy
    BY <1>4, IdleWorkers DEF Release, Busy, IInv, RunningUntilJoined
  <2>2. phase \in {"new", "stopped"} /\ phase' = "destroyed"
    BY <1>4 DEF Release, phase, IInv, RunningUntilJoined
  <2>. QED BY <2>1, <2>2 DEF Lifecycle!Next, Lifecycle!Destroy
<1>5. CASE StopThrows /\ owner = "destroy"
  <2>1. phase \in {"serving", "stopped"}
    BY <1>5 DEF StopThrows, phase, IInv, TypeOK, ThreadsInOrder, RunningUntilJoined
  <2>2. phase' = "terminated" /\ Busy' = Busy
    BY <1>5 DEF StopThrows, phase, Busy
  <2>. QED BY <2>1, <2>2 DEF Lifecycle!Next, Lifecycle!Terminate
<1>6. CASE SpawnThread
  BY <1>6, Unseen DEF SpawnThread, IInv, TypeOK, ThreadsInOrder, Workers
<1>7. CASE StopThrows /\ owner # "destroy"
  BY <1>7, Unseen DEF StopThrows
<1>8. CASE StartEnds \/ Stop \/ Join \/ Destroy
  BY <1>8, Unseen DEF StartEnds, Stop, Join, Destroy
<1>. QED BY <1>1, <1>2, <1>3, <1>4, <1>5, <1>6, <1>7, <1>8, <1>9 DEF OwnerStep

\* Every step of a worker is a step of the abstract server, or is not seen.
LEMMA WorkerRefines ==
  ASSUME IInv, NEW w \in Workers, WorkerStep(w)
  PROVE  [Lifecycle!Next]_Lifecycle!vars
<1>. USE DEF At, ownerVars, socketVars, acceptVars, threadVars, workerVars
<1>1. CASE AcceptConnection(w) \/ AcceptError(w) \/ \E c \in Conns : ServeConnection(w, c)
  <2>1. phase = "serving" /\ w \notin Busy
    BY <1>1, ServingWorker DEF AcceptConnection, AcceptError, TakeAccept, ServeConnection, Busy
  <2>2. phase' = phase /\ Busy' = Busy \cup {w}
    BY <1>1 DEF AcceptConnection, AcceptError, TakeAccept, ServeConnection, phase, Busy, IInv,
                TypeOK
  <2>. QED BY <2>1, <2>2 DEF Lifecycle!Next, Lifecycle!Take
<1>2. CASE StartAcceptor(w) \/ HandlerReturns(w)
  <2>1. phase = "serving" /\ w \in Busy
    BY <1>2, ServingWorker DEF StartAcceptor, HandlerReturns, Busy
  <2>2. phase' = phase /\ Busy' = Busy \ {w}
    BY <1>2 DEF StartAcceptor, HandlerReturns, phase, Busy, IInv, TypeOK
  <2>. QED BY <2>1, <2>2 DEF Lifecycle!Next, Lifecycle!Finish
<1>3. CASE PureVirtualCall(w) \/ DestroyedMember(w) \/ HandlerThrows(w) \/ AcceptThrows(w)
  <2>1. phase = "serving"
    BY <1>3, ServingWorker DEF PureVirtualCall, DestroyedMember, HandlerThrows, AcceptThrows
  <2>2. phase' = "terminated" /\ Busy' = Busy
    BY <1>3 DEF PureVirtualCall, DestroyedMember, HandlerThrows, AcceptThrows, phase, Busy
  <2>. QED BY <2>1, <2>2 DEF Lifecycle!Next, Lifecycle!Terminate
<1>4. CASE StartConnection(w) \/ RunReturns(w)
  <2>1. owner # "gone"
    BY <1>4, ServingWorker DEF StartConnection, RunReturns
  <2>. QED BY <1>4, <2>1, Unseen DEF StartConnection, RunReturns, IInv, TypeOK
<1>5. CASE Rearm(w)
  <2>1. m_running /\ owner # "gone"
    BY <1>5, IdleWorkers, ServingWorker DEF Rearm
  <2>. QED BY <1>5, <2>1, Unseen DEF Rearm, IInv, TypeOK
<1>. QED BY <1>1, <1>2, <1>3, <1>4, <1>5 DEF WorkerStep, WorkerInHandler

\* The server implements ServerLifecycle: it serves at most once, its workers execute handlers
\* only while it serves, and it is destroyed when none does.
THEOREM Refinement == Spec => LifecycleSpec
<1>1. IInv /\ [Next]_vars => [Lifecycle!Next]_Lifecycle!vars
  <2>1. CASE UNCHANGED vars
    BY <2>1 DEF vars, ownerVars, socketVars, acceptVars, threadVars, workerVars, Lifecycle!vars,
                phase, Busy
  <2>. QED BY <2>1, OwnerRefines, WorkerRefines DEF Next, Ended
<1>. QED BY <1>1, InitRefines, Invariance, PTL DEF Spec, LifecycleSpec, Lifecycle!Spec

==============================================================================
