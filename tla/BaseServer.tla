------------------------------ MODULE BaseServer ------------------------------
(***************************************************************************)
(* BaseServer: the acceptor, the io_service, the thread pool that runs it  *)
(* and the life of the server object.                                      *)
(*                                                                         *)
(* Two kinds of threads take steps.  The owner is the one thread that      *)
(* calls start(), stop() and the destructor.  A worker is a thread of      *)
(* m_threads: it is inside m_io_service.run(), where it takes the          *)
(* completion of an outstanding operation and runs its handler, until the  *)
(* io_service is stopped or has nothing outstanding.                       *)
(*                                                                         *)
(* A connection is abstract here: after Connection::start() it has one     *)
(* outstanding operation, each of its handlers either starts another one   *)
(* or ends the connection.  The handlers of one connection never overlap   *)
(* because they are wrapped in its strand.  Module Connection opens them.  *)
(***************************************************************************)
EXTENDS Naturals, FiniteSets

CONSTANTS
  PoolSize,           \* m_configuration->getThreadPoolSize()
  Conns,              \* the connection objects that may exist at one time (a bound)
  NoConn,             \* the null connection
  SingleHostAddress   \* m_configuration->hasSingleHostAddress()

ASSUME PoolSizeAssumption == PoolSize \in Nat
ASSUME ConnsAssumption == NoConn \notin Conns
ASSUME AddressAssumption == SingleHostAddress \in BOOLEAN

Workers == 1 .. PoolSize

VARIABLES
  owner,            \* where the owner is: "idle" between calls, "spawn" in the loop of start(),
                    \* "join" in the loop of stop(), "destroy" in the destructor before it calls
                    \* stop(), "release" after it, "gone" once the members are destroyed
  dynamicType,      \* the class whose virtual functions the object has: "derived", or "base"
                    \* from the moment ~BaseServer() runs
  m_acceptor,       \* "closed", "open" (no bind yet) or "listening"
  endpoint,         \* what the acceptor is bound to: "none", "any" address or the "host" address
  m_running,
  m_threads,        \* m_threads.size()
  joined,           \* how many of them, in order, were joined
  io_stopped,       \* m_io_service.stopped()
  worker,           \* where each worker is: "none", "run" (waiting inside run()), "accept"
                    \* (handleAccept, before start()), "rearm" (before `if (m_running)'), "build"
                    \* (in buildConnection()), "handler" (a handler of a connection) or "exited"
  cur,              \* the connection whose handler a worker executes
  accepting,        \* the connection whose socket the outstanding async_accept refers to
  m_newConnection,
  pending,          \* the connections with an outstanding operation of their own
  terminated        \* "no", or what called std::terminate

ownerVars == <<owner, dynamicType, terminated>>
socketVars == <<m_acceptor, endpoint, m_running>>
acceptVars == <<m_newConnection, accepting>>
threadVars == <<m_threads, joined>>
workerVars == <<worker, cur, pending>>
vars == <<ownerVars, io_stopped, socketVars, acceptVars, threadVars, workerVars>>

AcceptHandlers == {w \in Workers : worker[w] \in {"accept", "rearm", "build"}}
Busy == {w \in Workers : worker[w] \in {"accept", "rearm", "build", "handler"}}
Handled == {cur[w] : w \in Workers}

\* Connection objects that are not alive: m_newConnection and the handlers hold the
\* shared pointers that keep the others alive.
Free == Conns \ ({m_newConnection} \cup pending \cup Handled)

TypeOK ==
  /\ owner \in {"idle", "spawn", "join", "destroy", "release", "gone"}
  /\ dynamicType \in {"derived", "base"}
  /\ m_acceptor \in {"closed", "open", "listening"}
  /\ endpoint \in {"none", "any", "host"}
  /\ m_running \in BOOLEAN
  /\ m_threads \in 0 .. PoolSize
  /\ joined \in 0 .. PoolSize
  /\ io_stopped \in BOOLEAN
  /\ worker \in [Workers -> {"none", "run", "accept", "rearm", "build", "handler", "exited"}]
  /\ cur \in [Workers -> Conns \cup {NoConn}]
  /\ accepting \in Conns \cup {NoConn}
  /\ m_newConnection \in Conns \cup {NoConn}
  /\ pending \in SUBSET Conns
  /\ terminated \in {"no", "pure_virtual", "destroyed_member", "destructor_throw", "handler_throw"}

Init ==
  /\ owner = "idle"
  /\ dynamicType = "derived"
  /\ m_acceptor = "closed"
  /\ endpoint = "none"
  /\ m_running = FALSE
  /\ m_threads = 0
  /\ joined = 0
  /\ io_stopped = FALSE
  /\ worker = [w \in Workers |-> "none"]
  /\ cur = [w \in Workers |-> NoConn]
  /\ accepting = NoConn
  /\ m_newConnection = NoConn
  /\ pending = {}
  /\ terminated = "no"

\* Where a thread of a live process is.
OwnerAt(place) == terminated = "no" /\ owner = place
At(w, place) == terminated = "no" /\ worker[w] = place

-----------------------------------------------------------------------------
(* start() *)

\* A defect: the connection is built once, and accepted into again.
startAcceptorReusing ==
  \E c \in Free :
    LET connection == IF m_newConnection = NoConn THEN c ELSE m_newConnection
    IN  m_newConnection' = connection /\ accepting' = connection

\* startAcceptor(): a fresh connection, and an async_accept into its socket.
startAcceptor ==
  \E c \in Free : m_newConnection' = c /\ accepting' = c

\* openAcceptor() on an acceptor that nobody opened before, with the first
\* startAcceptor().  No worker exists yet.
Start ==
  /\ OwnerAt("idle")
  /\ m_acceptor = "closed"
  /\ m_acceptor' = "listening"
  /\ endpoint' = IF SingleHostAddress THEN "any" ELSE "host"
  /\ m_running' = TRUE
  /\ startAcceptor
  /\ owner' = "spawn"
  /\ UNCHANGED <<dynamicType, terminated, io_stopped, threadVars, workerVars>>

\* openAcceptor() throws before it sets m_running.  The acceptor stays as it was when the
\* address does not resolve or open() throws, which it always does on an acceptor that is open:
\* neither a second start() nor one after stop() or after a failed bind succeeds.  When bind()
\* or listen() throws, nothing closes the acceptor.
StartThrows ==
  /\ OwnerAt("idle")
  /\ m_acceptor' \in {m_acceptor} \cup (IF m_acceptor = "closed" THEN {"open"} ELSE {})
  /\ UNCHANGED <<ownerVars, io_stopped, endpoint, m_running, acceptVars, threadVars, workerVars>>

\* The first startAcceptor() throws, in buildConnection() or in async_accept: m_running is set
\* by then, and start() leaves without an accept and without a worker.
StartAcceptorThrows ==
  /\ OwnerAt("idle")
  /\ m_acceptor = "closed"
  /\ m_acceptor' = "listening"
  /\ endpoint' = IF SingleHostAddress THEN "any" ELSE "host"
  /\ m_running' = TRUE
  /\ m_newConnection' \in {m_newConnection} \cup Free
  /\ UNCHANGED <<ownerVars, io_stopped, accepting, threadVars, workerVars>>

\* A defect: the loop makes one thread too many.
SpawnOneMore ==
  /\ OwnerAt("spawn")
  /\ m_threads <= PoolSize
  /\ m_threads' = m_threads + 1
  /\ worker' = [w \in Workers |-> IF w = m_threads + 1 THEN "run" ELSE worker[w]]
  /\ UNCHANGED <<ownerVars, io_stopped, socketVars, acceptVars, joined, cur, pending>>

SpawnThread ==
  /\ OwnerAt("spawn")
  /\ m_threads < PoolSize
  /\ m_threads' = m_threads + 1
  /\ worker' = [worker EXCEPT ![m_threads + 1] = "run"]
  /\ UNCHANGED <<ownerVars, io_stopped, socketVars, acceptVars, joined, cur, pending>>

\* The loop is over, or the constructor of a std::thread throws and start() leaves with the
\* workers made so far.
StartEnds ==
  /\ OwnerAt("spawn")
  /\ owner' = "idle"
  /\ UNCHANGED <<dynamicType, terminated, io_stopped, socketVars, acceptVars, threadVars, workerVars>>

-----------------------------------------------------------------------------
(* stop() and the destructor *)

StopCalled == OwnerAt("idle") \/ OwnerAt("destroy")

\* A defect: m_running is cleared before the workers are joined.
StopClearsRunningFirst ==
  /\ StopCalled
  /\ joined = 0
  /\ io_stopped' = TRUE
  /\ m_running' = FALSE
  /\ owner' = "join"
  /\ UNCHANGED <<dynamicType, terminated, m_acceptor, endpoint, acceptVars, threadVars, workerVars>>

\* A defect: stop() waits for the workers and does not stop the io_service.
StopJoinsOnly ==
  /\ StopCalled
  /\ joined = 0
  /\ owner' = "join"
  /\ UNCHANGED <<dynamicType, terminated, io_stopped, socketVars, acceptVars, threadVars, workerVars>>

\* stop(), called by the owner or by ~BaseServer(), up to the loop that joins.
Stop ==
  /\ StopCalled
  /\ joined = 0
  /\ io_stopped' = TRUE
  /\ owner' = "join"
  /\ UNCHANGED <<dynamicType, terminated, socketVars, acceptVars, threadVars, workerVars>>

\* m_threads is never cleared: a second stop() joins a joined thread, which throws, and a
\* destructor is noexcept.
StopThrows ==
  /\ StopCalled
  /\ joined > 0
  /\ io_stopped' = TRUE
  /\ terminated' = IF owner = "destroy" THEN "destructor_throw" ELSE "no"
  /\ UNCHANGED <<owner, dynamicType, socketVars, acceptVars, threadVars, workerVars>>

Join ==
  /\ OwnerAt("join")
  /\ joined < m_threads
  /\ worker[joined + 1] = "exited"
  /\ joined' = joined + 1
  /\ UNCHANGED <<ownerVars, io_stopped, socketVars, acceptVars, m_threads, workerVars>>

\* A defect: the loop leaves the last thread out.
StopReturnsEarly ==
  /\ OwnerAt("join")
  /\ joined + 1 >= m_threads
  /\ m_running' = FALSE
  /\ owner' = IF dynamicType = "base" THEN "release" ELSE "idle"
  /\ UNCHANGED <<dynamicType, terminated, io_stopped, m_acceptor, endpoint, acceptVars, threadVars,
                 workerVars>>

\* The end of stop(): back to the caller, which may be the destructor.
StopReturns ==
  /\ OwnerAt("join")
  /\ joined = m_threads
  /\ m_running' = FALSE
  /\ owner' = IF dynamicType = "base" THEN "release" ELSE "idle"
  /\ UNCHANGED <<dynamicType, terminated, io_stopped, m_acceptor, endpoint, acceptVars, threadVars,
                 workerVars>>

\* The destructor of the derived class is done: the object is a BaseServer from now on.
Destroy ==
  /\ OwnerAt("idle")
  /\ owner' = "destroy"
  /\ dynamicType' = "base"
  /\ UNCHANGED <<terminated, io_stopped, socketVars, acceptVars, threadVars, workerVars>>

\* The members are destroyed: the last connections go with m_newConnection and with the
\* handlers that the io_service still holds.
Release ==
  /\ OwnerAt("release")
  /\ owner' = "gone"
  /\ m_acceptor' = "closed"
  /\ m_newConnection' = NoConn
  /\ accepting' = NoConn
  /\ pending' = {}
  /\ UNCHANGED <<dynamicType, terminated, io_stopped, endpoint, m_running, threadVars, worker, cur>>

-----------------------------------------------------------------------------
(* The workers *)

\* What keeps run() from returning: an outstanding operation or a handler in execution.
HasWork == accepting # NoConn \/ pending # {} \/ Busy # {}

\* Worker w goes from run() to the accept handler.  (Free # {} is the bound on the
\* connections: the handler needs one more.)
TakeAccept(w, place) ==
  /\ ~io_stopped
  /\ At(w, "run")
  /\ accepting # NoConn
  /\ Free # {}
  /\ accepting' = NoConn
  /\ worker' = [worker EXCEPT ![w] = place]
  /\ UNCHANGED <<ownerVars, io_stopped, socketVars, m_newConnection, threadVars, cur, pending>>

\* A defect: handleAccept returns at an error.
AcceptErrorReturns(w) == TakeAccept(w, "run")

\* async_accept completes with a client, or with an error: handleAccept does not start the
\* connection then.
AcceptConnection(w) == TakeAccept(w, "accept")
AcceptError(w) == TakeAccept(w, "rearm")

\* m_newConnection->start(): its first operation is outstanding, and another worker may
\* run its handler before this one goes on.
StartConnection(w) ==
  /\ At(w, "accept")
  /\ pending' = pending \cup {m_newConnection}
  /\ worker' = [worker EXCEPT ![w] = "rearm"]
  /\ UNCHANGED <<ownerVars, io_stopped, socketVars, acceptVars, threadVars, cur>>

\* The end of handleAccept.  startAcceptor() calls the virtual buildConnection(), which is
\* pure in BaseServer.
Rearm(w) ==
  /\ At(w, "rearm")
  /\ m_running => dynamicType = "derived"
  /\ worker' = [worker EXCEPT ![w] = IF m_running THEN "build" ELSE "run"]
  /\ UNCHANGED <<ownerVars, io_stopped, socketVars, acceptVars, threadVars, cur, pending>>

PureVirtualCall(w) ==
  /\ At(w, "rearm")
  /\ m_running
  /\ dynamicType = "base"
  /\ terminated' = "pure_virtual"
  /\ UNCHANGED <<owner, dynamicType, io_stopped, socketVars, acceptVars, threadVars, workerVars>>

\* buildConnection() of the derived class returns and the next accept is outstanding.
StartAcceptor(w) ==
  /\ At(w, "build")
  /\ startAcceptor
  /\ worker' = [worker EXCEPT ![w] = "run"]
  /\ UNCHANGED <<ownerVars, io_stopped, socketVars, threadVars, cur, pending>>

\* buildConnection() of a SecuredServer uses m_context after the destructor of SecuredServer
\* destroyed it.  That is undefined: it ends the process, or goes unnoticed (StartAcceptor).
DestroyedMember(w) ==
  /\ At(w, "build")
  /\ dynamicType = "base"
  /\ terminated' = "destroyed_member"
  /\ UNCHANGED <<owner, dynamicType, io_stopped, socketVars, acceptVars, threadVars, workerVars>>

\* m_newConnection->start(), buildConnection() or async_accept throws: the exception leaves
\* handleAccept, run() and the function of the thread.
AcceptThrows(w) ==
  /\ At(w, "accept") \/ At(w, "build")
  /\ terminated' = "handler_throw"
  /\ UNCHANGED <<owner, dynamicType, io_stopped, socketVars, acceptVars, threadVars, workerVars>>

\* An operation of connection c completes and w runs its handler.
ServeConnection(w, c) ==
  /\ ~io_stopped
  /\ At(w, "run")
  /\ c \in pending
  /\ pending' = pending \ {c}
  /\ cur' = [cur EXCEPT ![w] = c]
  /\ worker' = [worker EXCEPT ![w] = "handler"]
  /\ UNCHANGED <<ownerVars, io_stopped, socketVars, acceptVars, threadVars>>

\* The handler ends: it started another operation of its connection, or it did not and
\* the shared pointer it held is released.
HandlerReturns(w) ==
  /\ At(w, "handler")
  /\ pending' \in {pending, pending \cup {cur[w]}}
  /\ cur' = [cur EXCEPT ![w] = NoConn]
  /\ worker' = [worker EXCEPT ![w] = "run"]
  /\ UNCHANGED <<ownerVars, io_stopped, socketVars, acceptVars, threadVars>>

\* An exception of a web service, or of a reply that cannot be built, leaves run() and
\* the function of the thread.
HandlerThrows(w) ==
  /\ At(w, "handler")
  /\ terminated' = "handler_throw"
  /\ UNCHANGED <<owner, dynamicType, io_stopped, socketVars, acceptVars, threadVars, workerVars>>

\* run() returns; when nothing is outstanding it stops the io_service first.
RunReturns(w) ==
  /\ At(w, "run")
  /\ HasWork => io_stopped
  /\ io_stopped' = TRUE
  /\ worker' = [worker EXCEPT ![w] = "exited"]
  /\ UNCHANGED <<ownerVars, socketVars, acceptVars, threadVars, cur, pending>>

-----------------------------------------------------------------------------
OwnerStep ==
  \/ Start \/ StartThrows \/ StartAcceptorThrows \/ SpawnThread \/ StartEnds
  \/ Stop \/ StopThrows \/ Join \/ StopReturns
  \/ Destroy \/ Release

WorkerInHandler(w) ==
  \/ StartConnection(w) \/ Rearm(w) \/ PureVirtualCall(w)
  \/ StartAcceptor(w) \/ DestroyedMember(w) \/ AcceptThrows(w)
  \/ HandlerReturns(w) \/ HandlerThrows(w)
  \/ RunReturns(w)

WorkerStep(w) ==
  \/ AcceptConnection(w) \/ AcceptError(w)
  \/ \E c \in Conns : ServeConnection(w, c)
  \/ WorkerInHandler(w)

Ended == (owner = "gone" \/ terminated # "no") /\ UNCHANGED vars

Next ==
  \/ OwnerStep
  \/ \E w \in Workers : WorkerStep(w)
  \/ Ended

Spec == Init /\ [][Next]_vars

\* A call that the owner is in goes on, a handler that a worker executes ends, and a
\* worker sees that the io_service was stopped.  The operating system gives every thread
\* time; nothing obliges a client to connect or to send.
Fairness ==
  /\ WF_vars(owner # "idle" /\ OwnerStep)
  /\ \A w \in Workers : WF_vars(WorkerInHandler(w))

FairSpec == Spec /\ Fairness

-----------------------------------------------------------------------------
(* Properties *)

\* The server runs, and openAcceptor() returned: start() got to its loop, or made a thread.
Opened == m_running /\ (owner = "spawn" \/ m_threads > 0)

\* While such a server runs, either the acceptor waits for a client or exactly one worker is
\* in handleAccept on the way to make it wait again: the chain of handleAccept and
\* startAcceptor never breaks, and it never forks.
OneAccept ==
  /\ \A v, w \in AcceptHandlers : v = w
  /\ Opened => (accepting # NoConn <=> AcceptHandlers = {})

\* The socket that an outstanding async_accept refers to belongs to the connection that
\* m_newConnection keeps alive, and no operation or handler uses that connection yet:
\* handleAccept holds no shared pointer to it.
AcceptTarget ==
  accepting # NoConn => /\ accepting = m_newConnection
                        /\ accepting \notin pending \cup Handled

\* Handlers execute only while isRunning() holds: after stop() no web service is called,
\* and the `if (m_running)' of handleAccept never sees false.
HandlersOnlyWhileRunning == Busy # {} => m_running

\* No thread outlives the object whose members it uses.
NoThreadOutlives ==
  owner \in {"release", "gone"} => \A w \in Workers : worker[w] \in {"none", "exited"}

(* The inductive invariant behind them *)

\* Threads are spawned and joined in order, a joined thread has left run(), and none leaves it
\* before the io_service is stopped.
ThreadsInOrder ==
  /\ joined <= m_threads
  /\ \A w \in Workers : /\ worker[w] = "none" <=> w > m_threads
                        /\ w <= joined => worker[w] = "exited"
                        /\ worker[w] = "exited" => io_stopped
                        /\ worker[w] = "handler" => cur[w] # NoConn

\* m_running is written where no worker runs: before the first is spawned, and after the
\* last is joined.  An accept is outstanding only on an acceptor that listens.
RunningUntilJoined ==
  /\ ~m_running => joined = m_threads
  /\ owner = "spawn" => m_running
  /\ owner \in {"release", "gone"} => ~m_running
  /\ m_running => m_acceptor = "listening"
  /\ Opened => m_newConnection # NoConn
  /\ m_acceptor # "listening" => accepting = NoConn
  /\ m_threads > 0 => m_acceptor = "listening" \/ owner = "gone"

IInv == TypeOK /\ ThreadsInOrder /\ RunningUntilJoined /\ OneAccept /\ AcceptTarget

\* The io_service is stopped by the step in which the owner enters stop(), never by a worker
\* that found it out of work: not while the server serves and no call of the owner is in
\* progress, and not during start().
OnlyOwnerStops == [][~io_stopped /\ io_stopped' => owner # "join" /\ owner' = "join"]_vars

\* A stop(), called by the owner or by the destructor, returns.
StopTerminates == owner = "join" ~> owner # "join" \/ terminated # "no"

\* The server keeps the promises of ServerLifecycle.
phase ==
  IF terminated # "no" THEN "terminated"
  ELSE IF owner = "gone" THEN "destroyed"
  ELSE IF m_running THEN "serving"
  ELSE IF m_acceptor = "listening" THEN "stopped"
  ELSE "new"

Lifecycle == INSTANCE ServerLifecycle WITH Workers <- Workers, phase <- phase, busy <- Busy

LifecycleSpec == Lifecycle!Spec

(* What the repository says, and the code does not do *)

\* Destroying a server that runs is how the tests end: no worker is then on its way into, or
\* inside, the buildConnection() of the class that was destroyed.
NoCallOfDestroyedClass == terminated \notin {"pure_virtual", "destroyed_member"}

\* stop() is public, and the destructor calls it again: that is harmless.
DestructorNeverThrows == terminated # "destructor_throw"

\* "configuring web server as using a single IP address or binding to all IP addresses":
\* with a single host address the acceptor is bound to that address.
BoundAsConfigured ==
  endpoint # "none" => (endpoint = "host" <=> SingleHostAddress)
===============================================================================
