# A formal model of the Boost.Asio web server adapter

TLA+ modules for `src/BoostAsioWebServerAdapter`, model-checked with TLC and, for the core,
proved with TLAPS. Paths below are relative to the repository; `BaseServer.cpp` and the like are
under `src/BoostAsioWebServerAdapter`.

    tlc -config BaseServer.cfg BaseServer.tla      # a run
    tlapm BaseServer_proofs.tla                    # the proofs of a module

`PROJECT.json` lists the runs, the code that each definition models, the mutant that shows that a
property can fail, the findings, the hazards and the theorems.

## 1. Inventory

| Part | State it keeps | Operations | Interacts with |
|---|---|---|---|
| `BaseServer` | `m_acceptor`, `m_io_service`, `m_threads`, `m_running`, `m_newConnection` | `start`, `stop`, destructor (owner); `runThread`, `handleAccept`, `startAcceptor` (workers) | builds connections through a virtual function, and starts them |
| `Server`, `SecuredServer` | `m_context` (secured only) | `buildConnection`, forwarding | the derived half of the object that `BaseServer` calls back |
| `Connection`, `SecuredConnection` | `m_socket`, `m_strand`, two buffers, `m_request`, `m_reply` | `start`, `handleHandshake`, `handleRead`, `handleWrite` | the parsers, the request handling, the reply builders |
| `RequestParserAgent` | `m_state`, `m_header`, `m_contentLength`, `m_contentCharSize` | `parseBuffer`, `consume` | one per connection; fills in `m_request` |
| `WebServicesMgr` and `RequestHandlingService` | the vector of services | `addWebService` (owner); `processRequest` (workers) | shared by all connections, without a lock |
| `RequestURIParserService` | none | `parse` | decodes `m_request`'s URI |
| `ReplyCORSHeadersBuilderService`, `ReplyBufferBuilderService` | none | `addCORSHeaders`, `buildBuffer` | the reply, before it is written |
| `SecuredContext` | the OpenSSL context | certificate, key, DH parameters, client CA | configured once, by `SecuredServer`'s constructor |
| `ServerFactory` | none | `buildServer` | |

**Threads.** The *owner* creates, starts, stops and destroys the server. The *workers*, as many as
the configuration says, run `io_service::run()` and execute every handler. The owner and the workers
share the members of `BaseServer` without a mutex; the handlers of one connection are serialised by
its strand, and the accept handler, which has none, by there being one outstanding accept.

**What is hard here**, and what makes each part correct:

* *The accept chain.* Each `handleAccept` must start the next `async_accept`, once, into the socket of
  a connection that is alive, while other workers already serve the connection it has just started.
* *The end.* `stop()` and the destructor run against workers that are anywhere in their handlers. No
  handler may execute after `stop()`, no thread may outlive the members, and `stop()` must return.
* *A connection.* A request arrives in pieces of any size, with bytes after it, from a client that may
  leave at any moment. It must be answered as a whole, once, and its memory be released.
* *The parser.* Its progress lives across buffers. What it accepts must be what was sent.
* *The registry.* A registration writes the vector that workers index, and moves it. The reply must be the one
  of the first service that has one.
* *The pool.* A few workers share the handlers of all connections and the accept handler, and the shutdown
  of a TLS stream blocks one for as long as its client likes.
* *The TLS context.* Its setters depend on their order, and each may fail. The constructor of `SecuredServer`
  must catch a key that does not fit, as far as OpenSSL looks, and with mutual SSL the server must know its clients.
* *From the URI to the bytes of the reply.* The checks of the URI look at what was decoded, and the query
  is cut off after them. What the client reads must be what the service replied, and what CORS grants.

## 2. Modules

| Module | Models | Role |
|---|---|---|
| `ServerLifecycle` | | what a server promises its owner: an abstract specification |
| `BaseServer` | `BaseServer.cpp` | owner, workers, accept chain, life of the object |
| `BaseServer_proofs` | | its theorems |
| `SecuredContext` | `SecuredContext.cpp`, `SecuredServer.cpp`, `ServerFactory.cpp` | the construction of a server and its TLS context, as operators |
| `WebServer` | the same, `BaseServer.cpp` and `Connections/*.cpp` | `BaseServer` composed with its connections, their clients and the TLS context |
| `MCWebServer` | | configurations for it |
| `WebServer_proofs` | | its theorems, and that it implements `BaseServer` |
| `RequestReply` | | what a connection promises its client: an abstract specification |
| `Connection` | `Connections/*.cpp` | one connection, plain or secured, and its client |
| `Accumulation`, `Accumulation_proofs` | | the loop over a sequence that accumulates a result, and what can be proved of it |
| `RequestParser` | `Agents/RequestParserAgent.cpp`, `Connection.cpp:58-73` | the parser, byte by byte, and the reads that feed it |
| `MCRequestParser` | | messages for it, and what arrives of them |
| `RequestParser_proofs` | | its theorems |
| `WebServices` | `Model/WebServicesMgr.cpp`, `Services/RequestHandlingService.cpp` | the registry and the loop over it |
| `Connection_proofs`, `WebServices_proofs` | | the theorems of those modules |
| `RequestURIParser` | `Services/RequestURIParserService.cpp` | the decoding and the checks of a URI, and its query |
| `ReplyBuilders` | `Services/Reply*BuilderService.cpp` | the CORS headers and the buffer of a reply, as operators, and how a client reads it |
| `Exchange` | `Connection.cpp:75-92`, `SecuredConnection.cpp:87-104` | the two in the order in which `handleRead` calls them |
| `MCExchange` | | URIs, configurations of CORS and replies for it |
| `ReplyBuilders_proofs` | | what a client reads of lists, lines and buffers, as lemmas |
| `Exchange_proofs` | | the theorems of `Exchange`, which include those of the URI parser |

Definitions that start with "A defect:" in their comment are not part of a specification. They are
the mutated forms that `PROJECT.json` puts in the place of a definition, to show that the property
is violated by such a bug.

### BaseServer

The owner is a program counter, `owner`. `Start` is `openAcceptor()` with the first `startAcceptor()`:
it is one step, since no worker exists yet. `SpawnThread` and `StartEnds` are the loop that fills the
pool, which an exception of `std::thread` may cut short; `StartThrows` is every way in which
`openAcceptor()` throws before it sets `m_running`, with what it leaves behind, and `StartAcceptorThrows` what it
leaves when `buildConnection()` or `async_accept` throws after that: a server that says it runs, without an accept
and without a worker. `Opened` sets such a server apart. `Stop`, `Join` and `StopReturns` are `stop()`, one
join at a time; `StopThrows` is the second `stop()`, which joins joined threads. `Destroy` is the moment
when the derived class is gone and `~BaseServer()` begins, and `Release` the destruction of the members.

A worker takes the completion of the accept (`AcceptConnection`, `AcceptError`), starts the connection
(`StartConnection`) and re-arms the acceptor (`Rearm`, then `StartAcceptor` when the virtual
`buildConnection()` has returned), in separate steps: in between, other workers may run the handlers of the
connection, and the owner may destroy the object. `PureVirtualCall` is the call on an object whose derived
half is gone. `AcceptThrows` is an exception inside `handleAccept`, which leaves the thread and ends the process.
`DestroyedMember` is `buildConnection()` of a `SecuredServer` that uses `m_context` after it was
destroyed; as that is undefined, it may also go unnoticed. `ServeConnection`, `HandlerReturns` and `HandlerThrows` are the handlers of a connection, which is
abstract here: it has one outstanding operation or ends. `RunReturns` is the end of `run()`, when the
`io_service` was stopped or, as Boost.Asio does, when nothing is outstanding. The latter stops it.
`OnlyOwnerStops` is the action property that it never happens: the step that stops the `io_service` is the one in
which the owner enters `stop()`, so that no step of a worker does, in whatever state the owner is.

`m_running` is a plain `bool` that workers read and the owner writes. `HandlersOnlyWhileRunning` shows
more than a flag: since the owner writes it only before the first worker exists and after the last was
joined, the unsynchronised read never races, and the `if (m_running)` of `handleAccept` never sees
false. (`Rearm` has that branch, and it is never taken.)

### WebServer

`WebServer` extends `BaseServer`: every action of it is one of `BaseServer` together with what it does to the
connections, or one that `BaseServer` does not see. A handler of a connection, which in `BaseServer` may return
in any way, is `HandleHandshake`, `HandleRead`, `HandleWrite` and so on here. `place` is the operation that a
connection waits for or the handler that a worker runs for it; of its client it keeps whether there is
something to read and whether it has left. A client that left may still have data in the socket, and one that
completed its handshake before it left goes on to the read, as in `Connection`. After
`HandleWriteSecured`, the worker stays in the place `shutdown` until the client closes its side or sends
something (`ShutdownReturns`). The pieces of the request and the contents of the reply are in `Connection`.

`BuildServer` is the factory. With HTTPS it evaluates `SecuredServer` of `SecuredContext`, which calls the
setters in the order of the constructor and passes the context from one to the next. What OpenSSL does to
the context is external. A context has a slot for the certificate and the key of each algorithm:
`SSL_CTX_use_certificate` drops a key in its slot that does not fit, `SSL_CTX_use_PrivateKey` rejects one and drops
the certificate, and neither looks at the other slots. So the constructor builds a server whose key is of another
algorithm than its certificate. `CredentialsMatch` says which servers are built and which of them complete handshakes:
those with the certificate and the key of one pair, whose algorithm the connections can use (`UsableAlgorithms`: the
cipher list of `SecuredConnection::start()` has suites for RSA only, where TLS 1.2 is the latest version), and, with
mutual SSL, an authority. Revocation lists count as certificates of clients when the text is read, and let nobody in.
A certificate and a key are represented by their key pair, a client's certificate by its issuer. A constructor that throws destroys the `BaseServer` that was made before.

### Connection

`place` is the outstanding operation. The client sends a request of some number of pieces, and more
after it, and may close or reset. Each read delivers as many pieces as have arrived and fit. What the
parsers say of the whole request is part of the request: an optional Boolean, as in the code, where
`Engaged` is the value of such an optional as a condition. `Shutdown` of a secured connection waits for
its client, as the synchronous `ssl::stream::shutdown` does.

### RequestParser

`ReadBuffer` is a read that delivers a buffer, and `ConsumeByte` an iteration of the loop of `parseBuffer()`, which
ends with the buffer or with a verdict. `consume` is the switch of the code, one operator for each group of its
states; `consumeCharByte` is what its four states of the content have in common. A byte is what the parser
tells apart: a digit, a letter, a control, a separator, or the kind of UTF-8 byte. The header name
`content-length`, in any case, is one symbol, because the code compares it only at the end of its line.
`lexicalCast` and `ContentLength` keep the width of the integers (`UnsignedValues` is how many values an
`unsigned int` has), so that a negative length wraps as it does in the code. The agent keeps the two numbers
of the HTTP version but not how they were written: `version` is a history variable with their digits, which no
action reads except to extend it. `Encode` writes a request down and is the reference of the properties: it
is independent of the parser. `headers` is the sequence of the calls of `addHeader()`, and the `query` of
`RequestURIParser` that of the calls of `addItem()`: what the classes of the interface make of a repeated name is not
in this repository. A transmission is what a client means to send and the bytes that arrive, any bytes at all; that
the two differ is a way to make bad inputs, not something that the code would do.

### WebServices

The vector is its size, its capacity, and the number of the block of memory it uses. `processRequest` is
a program counter for each worker: it reads the count, then for each service the address of the block,
then the element. `push_back` takes time: `AddWebService` is its beginning and `Registered` its end, when the size is
written and a block that was full is freed. In between, a worker that reads what it writes (the size always; the
address and the elements when it moves them) reads something undefined, `TornRead`, or does not notice. An undefined
read ends the behaviour: `freed`, `past` and `torn` are what it was of.

So `FirstServiceReplies` is a property of programs that register nothing on a started server (`~late`), and
`EarlyRegistrationIsSafe` says that such a program never reads anything undefined. Of the others, only the run
`services_late` speaks.

### RequestURIParser, ReplyBuilders and Exchange

A character of a URI is its code. `parse()` is a state machine: `DecodeEscape` and `DecodeCharacter` are
iterations of its loop, `CheckDecoded` is what follows it up to the split at the first `?`, and `AddItem` is one
match of the regular expression. It could be one function; as a machine its invariants can be proved.
`ItemsOfFields` says what the matches find without reference to them: cut the decoded query at every `&`, take in
each field the first `=` behind a character of `[\w+%]`, the longest name before it, and all behind it. A field
without such a sign has no item. An escaped `&` cuts too, since it was decoded before.
`readHex` is what `operator>>` makes of two characters, which is more than two hexadecimal digits: `%2G` is
read as 2, `%-1` as 255, and white space before a digit is skipped. `Written` and the operators on it say how a client escapes a target, and are the
reference of `TargetReadBack`. They know nothing of the parser. `IsTarget` says which targets can be told apart by
a parser that splits a URI after it has decoded it.

A reply is a sequence of `Words`, in which the separators are words too. A header's value is any sequence of
words without CRLF, a content any sequence of words. `Order` gives the order of `std::map` and `std::set`; the
loops over them are `Accumulated` over it, one iteration at a time (`NextItem`, `NextLine`). The client's side,
`Pieces` and what follows it, reads a reply without reference to how it was built. `Exchange` goes on with the
web services when the URI was rejected, as the code does.

## 3. Runs

| Run | Instance | Checks |
|---|---|---|
| `server` | 3 workers, 4 connections, fairness | `TypeOK`, `OneAccept`, `AcceptTarget`, `HandlersOnlyWhileRunning`, `NoThreadOutlives`, `IInv`, `OnlyOwnerStops`, `StopTerminates`, and the refinement of `ServerLifecycle` |
| `connection` | plain or secured, requests of 1 to 3 pieces, up to 2 more, 2 in a buffer | `WholeRequest`, `ProcessedOnce`, `IInv`, the refinement of `RequestReply`, `Answered`, `ReleasedAfterLeave` |
| `webserver` | 2 workers, 3 connections, 21 configurations, fairness | `WebTypeOK`, `OneOperation`, `Authenticated`, `CredentialsMatch`, `WebIInv`, `StopReturnsUnlessHeld`, `NoClientStarves` |
| `parser` | 21 messages with 2 trailers, intact or with any one byte replaced or lost, in buffers of 3 and 40 in any order | `TypeOK`, `WellFormedAccepted`, `NothingInvented`, `ContentWhole`, `IInv` |
| `exchange` | 10,100 URIs, among them 4 paths with 6 queries in every way to write them, 552 settings | `TypeOK`, `ConfinedPath`, `ItemsOfFields`, `TargetReadBack`, `ReplyReadBack`, `CORSReadBack` |
| `services` | 2 workers, 3 services registered at any time | `TypeOK`, `FirstServiceReplies`, `EarlyRegistrationIsSafe`, `IInv` |

**Bounds.** Connections are interchangeable objects and at most `Conns` of them are alive at a time: with
three workers, four are enough for one that is being accepted while every worker is in a handler. A
worker that accepts waits until an object is free, which is the bound (`Free # {}`). Three workers are the
least with which one is joined, one is in a handler and one re-arms. For the connection, three pieces
with buffers of two are the least with which a request ends in the middle of a buffer, or in a second
one. The messages of the parser have every kind of line, lengths that are no number, out of range,
negative and repeated, and contents that straddle their length by one to three bytes. With integers of 16
values, 15 bytes are the content of length -1. Buffers of 3 end at every byte of a character and inside every
line, those of 40 hold a whole request. Two registered services are the least with which a
block is freed under a worker; with three there are a registration that moves the vector and one that finds room, and
a service between the first and the last.

In `webserver`, two workers are the least with which one is held by a silent client while the other serves, and
three connections the least with one accepted beside them. The configurations are a plain server;
secured ones with and without a certificate, with its key, another one of its algorithm, one of another algorithm and
none, with and without DH parameters; a pair of an algorithm that the cipher suites do not know; and mutual SSL with
nothing readable, with revocation lists alone and with an authority. Clients have a certificate of that authority, of
another one, or none. In `exchange`, the URIs are every sequence of up to two of 17 tokens (the separators, whole and
broken escapes, escaped separators and escaped escapes), of three behind `/`, queries of four characters
behind `/a?` and of five with escaped `&` among them (three fields at most, each with, without or with several signs),
and the targets in every way to write them. Two URIs, one accepted and one rejected, run with
every setting: each status and an unknown one, no, one and two headers, contents that begin with an empty line
or look like headers, and the configurations of CORS.

**Fairness.** In `BaseServer`, weak fairness of the owner inside a call, and of each worker inside a
handler or on its way out of `run()`: these are threads that the operating system schedules, and the
handlers of the model end (a web service that never returns is outside it). The owner is not obliged
to call, nor a client to connect or to send. In `Connection`, weak fairness of the handler whose operation
can complete, which some worker then runs. The client is not obliged to send, to leave, or to complete a
handshake. That it reads its reply is assumed. In `WebServer`, weak
fairness of the owner inside a call and of each worker outside the blocking shutdown, and strong fairness of
`Serve` for each connection: the queue of an `io_service` is first in, first out, so that an operation which is
complete is not passed over for ever by workers that come back to the queue. A client is never obliged to
send, nor to close its side of a TLS stream. The run of `Connection` is for a server that is not
stopped, with a worker left to run its handlers.

**Deadlock** is checked in every passing run. The final states (`Ended`, `Released`, `Finished`) stutter
explicitly.

**What the runs of the composition show.** `StopReturnsUnlessHeld`: `stop()` returns whenever it is not true
that from some moment on silent TLS clients always hold a worker. `NoClientStarves`: as long as one worker is
not held, no client whose data has arrived waits for ever, neither behind other clients nor behind the accept
handler. Both fail as soon as a read or a handshake blocks its worker as the shutdown does
(`CompleteAtOnce`). They also say what the code does not promise: as many silent TLS clients as workers, after
their reply, stop the service and keep `stop()` from returning.

### What the code does not do

Each of these runs violates one property, which states what a doc or a test of the repository says.

| Run | What it shows |
|---|---|
| `connection_invalid_request` | `if (result)` on a `boost::optional<bool>` asks whether there is a verdict, not which. A request or a URI that the parsers reject is handed to the web services, and the code that replies `BAD_REQUEST` is never reached. |
| `server_destroy_running` | A running server is destroyed, as the test fixtures do, while a worker is in `handleAccept`: it calls the pure virtual `buildConnection()`, or uses the destroyed `m_context` of a `SecuredServer` in it. |
| `server_stop_then_destroy` | After an explicit `stop()`, the destructor joins the same threads again, and the exception terminates the process. |
| `server_bind_address` | The two branches of the endpoint are the reverse of what the release notes say of a single address. |
| `parser_content_length` | A content that should be truncated to its declared length has more bytes, if a UTF-8 character straddles the length. |
| `services_late` | A service registered on a started server, as the fixtures do, may free the block that a worker reads. |

## 4. Proofs

`BaseServer_proofs` proves the safety of `BaseServer` for every size of the pool (zero included), every
set of connections, finite or not, and both settings of the address. The assumptions are those that the
module declares: `PoolSize` is a natural number, `NoConn` is not a connection, `SingleHostAddress` is
Boolean.

The properties are not inductive. Nothing in `OneAccept` prevents, for instance, a server that is not
running with a worker in `handleAccept`. The inductive invariant `IInv` adds to the types, `OneAccept` and
`AcceptTarget`:

* `ThreadsInOrder`: workers are spawned and joined in order, the ones beyond `m_threads` do not exist, and
  a joined one has left `run()`, which none leaves before the `io_service` is stopped;
* `RunningUntilJoined`: `m_running` is false only when every worker was joined, a running server
  listens, and one that is `Opened` has a `m_newConnection`.

Together they say that a server that does not run has no worker inside `run()` (`IdleWorkers`), which is
what the rest follows from.

| Theorem | States |
|---|---|
| `Invariance` | `Spec => []IInv` |
| `TypeCorrect`, `AcceptChain`, `AcceptIntoFreshConnection` | `TypeOK`, `OneAccept`, `AcceptTarget` always hold |
| `NoHandlerAfterStop`, `ThreadsEndFirst` | `HandlersOnlyWhileRunning` and `NoThreadOutlives` always hold |
| `ServiceStopsOnDemand` | `Spec => OnlyOwnerStops`: a worker inside `run()` finds work as long as the `io_service` was not stopped, because the accept chain is unbroken |
| `Refinement` | `Spec => LifecycleSpec`: each step is a step of the abstract server, or is not seen |

`InitIInv`, `OwnerPreserves` and `WorkerPreserves` (one step for each action) give `StepIInv`, from which
`Invariance` follows by temporal logic. `AcceptUntouched` serves the actions that leave the acceptor and
the connections alone. `OwnerRefines` and `WorkerRefines` do the same for the refinement.

`Connection_proofs` proves `WholeRequest`, `ProcessedOnce` and the refinement of `RequestReply`, for requests
of every size, any number of pieces after them, and buffers of every size, from the assumptions that these
are natural numbers and that a request and a buffer hold at least one piece. `IInv` adds to the properties
`ReplyFollowsPlace`: while the connection may still read, its request is incomplete and nothing was
processed or replied, and its reply was delivered exactly when it is about to shut down. Without it a second
read after a reply would not be excluded.

`WebServices_proofs` proves `FirstServiceReplies` and `EarlyRegistrationIsSafe` (`FirstReply`, `EarlyIsSafe`) for every
number of services and every set of workers: an owner that registers nothing after `start()` is safe without a lock,
which is the counterpart of the run `services_late`. `IInv` adds `RegistrationFits` (a registration has the room that it
began with), `AskedInOrder` (the services asked are those before `i`, which is short of the count wherever an element
is read) and `UpToDate` (without late registrations, the count that a worker has is the size, and the address that it
has is that of the block in use). Without the last, nothing would keep the index inside the vector.

`WebServer_proofs` proves `Composition`, `WebSpec => Spec`: each step of the composition is one of `BaseServer` or
leaves its variables alone, so that the theorems of `BaseServer_proofs` hold of the server with its connections,
and `WebLifecycle` follows at once. `WebIInv` adds to `IInv` and the properties `CurrentInHandler` (a worker refers
to a connection only in a handler of it), `FreshUntilStarted` (the connection that `handleAccept` is about to start
is nobody's) and `ServerAsBuilt` (the context is what the constructor made). `UsableCredentials` proves `CredentialsMatch` for
every set of key pairs, of algorithms and of those that can be used. Without the second, a connection
could be started twice, and have two operations. The assumptions are those of `BaseServer`, that `None` is no
key pair and no authority, that every key pair has an algorithm, and that the configurations are ones.

`Accumulation_proofs` makes induction over sequences available. The library's induction theorems take an
operator as a parameter, which the provers here cannot instantiate; `SequenceInduction` takes a *set* of
sequences instead, and `AccumulatedAppend` says how `Accumulated` goes on with one more element. The numbers of
the HTTP version and the lines of the headers are accumulated this way in `RequestParser`, and so are the lists and
the lines of `ReplyBuilders`, the query of a target, and the ways to write one.

`RequestParser_proofs` proves all properties of the parser for every transmission, buffers of every size, and
integers of every width; the assumptions are that sizes are positive, the number of values of an integer even, and
that what clients mean to send is in the grammar, `WellFormed` (what arrives may be anything). The properties
speak of accepting agents only, so none is inductive. `IInv` says where an agent without a verdict is:

* `ReadSoFar`: the bytes consumed are exactly the fields that it has, written down, up to the separators that
  its state has seen. `FieldsInOrder`: fields are empty before their state;
* `contentLength` is the `DeclaredLength` of the headers, the last one that declares one, and the numbers of the
  version are those of `version`;
* `PartOfContent`: the content is whole characters, each begun before the declared length, and the last one as
  far as the state says;
* `OnItsWay`: if the message arrives intact, what the agent has is a part of it (`PartOf`).

| Theorem | States |
|---|---|
| `ByteConsumed` | the first three are kept by every byte in every state: an agent that accepts has read the request it reports, and one that does not rejects or is further on |
| `ByteGoesOn` | inside a message there is a next byte, and the agent takes it to its field, or accepts with the whole message if it is the last |
| `Invariance` | `Spec => []IInv` |
| `NothingIsInvented`, `ContentIsWhole` | `NothingInvented` and `ContentWhole` always hold, whatever arrives |
| `WellFormedRequestsAccepted` | `WellFormedAccepted` always holds: no request of the grammar is rejected, or accepted early, or changed, however long it is and wherever the buffers end |

Each group of states has three lemmas: `...Outcomes` (what `consume` does there), `...Consumed` (which gives
`ByteConsumed`) and `...GoesOn` (which gives `ByteGoesOn`). `ContentGoesOn` is the one about UTF-8: in a whole
content, the agent finds each byte that it expects, and where it accepts, nothing of the content is left.

`Exchange_proofs` proves every property of `Exchange`, for URIs, targets, headers, contents and lists of every
length. The assumptions are that URIs are bytes (`URIsAssumption`), that targets have no part that the split of a
decoded URI could not tell apart (`TargetsAssumption`), that the separators are words and that no name or item of
a list is CRLF or a comma (`WordsAssumption`), and that the values of headers have no CRLF (`CasesAssumption`). The
last two are what the code trusts its web services and its configuration with; it checks neither.

| Theorem | States |
|---|---|
| `Invariance`, `TypeCorrect` | `Spec => []IInv`, and `TypeOK` always holds |
| `PathsAreConfined` | `ConfinedPath` always holds, whatever was received |
| `ItemsAreThoseOfFields` | `ItemsOfFields` always holds, whatever was received |
| `TargetsAreReadBack` | `TargetReadBack`: every target, in every way to write it, is accepted and read as it was meant |
| `RepliesAreReadBack` | `ReplyReadBack`: what a client reads is the reply of the web service |
| `CORSIsReadBack` | `CORSReadBack`: what it reads besides is what the configuration of CORS grants, no more and no less |

`IInv` is the types, `ConfinedPath` and `Replied`, which says what the calls so far have made of the
reply. `ChecksConfine` is the heart of the second: the two checks of the decoded URI and the split at its first
`?` leave a confined path, however the characters were written. `EscapeIsByte` says the same of the types.

*Replies.* `HeadRead` is an induction over `Order`: the lines of the headers are parts between two CRLF, none of them
empty, and each is a name, a separator and a value that holds no CRLF. Hence the first empty line is the one that
`buildBuffer` wrote (`EmptyLineFound`), also when the content has others, and the three parts of a reply are found
(`ReplyRead`). `StatusesDiffer` is needed to read the status. `ListRead` and `ItemsOfList` say the same of a list: its
items are the set it was made of, the empty one included. `CORSAdded` gives the headers that `addCORSHeaders`
leaves, and `FoundIs` what a client finds of them under a name.

*Items.* `Searched` says how far the search is in a query: up to a place `p` that is the beginning, the end or the end
of a field (`FieldBegins`), the items found are those of the signs up to `p` (`Placed`), and `rest` is what is behind.
`MatchIsItem` is the step: the next match in `rest`, which knows nothing of what is before it, has its sign at the next
sign of an item in the whole query, and ends at the end of its field. A name cannot begin before `p`, because an `&` is
no part of one. `NoneLeft` is the end: where no match is left, neither is a sign, since the least beginning of a name
and the least end behind it would be one.

*Targets.* No property of the state says how far the parser is in a target, so `TargetsRead` does: as long as
`parse()` decodes, `out` is the beginning of the target's text and what is left of `received` is a way to write
the rest; after the checks, `uri` is the path, `query` the first items, and `rest` the text behind them. Three steps
lead there:

* *Decoding* (`CutsExist`, `CharacterRead`, `TextDecoded`): a way to write a text can be cut into ways to write its
  characters, and an iteration of the loop consumes exactly one of these pieces and appends its character. For an
  escape, this is `EscapeReadBack`: `readHex` is the inverse of two hexadecimal digits in either case.
* *The checks* (`TargetPasses`): the text of a target is never rejected, and its first `?` is the one behind the path.
  `..` in a value is behind it and does no harm.
* *Matching* (`FirstMatch`, `NextItemBegins`): in the text behind an item, the only match of the regular expression
  is the next item. A value may have `=` and `?`, and a name `%` and `+`; what keeps them apart is that an
  unescaped `&` ends a value, and begins no name.

`TargetsRead` quantifies over all ways to cut a URI, and is not a predicate that TLC can evaluate; what follows from it,
`TargetReadBack`, is checked by the run `exchange`.

**Only model-checked**: `StopTerminates`, `Answered`, `ReleasedAfterLeave`, `StopReturnsUnlessHeld` and
`NoClientStarves`: liveness under fairness is out of the prover's reach. Every invariant and every action property
of a passing run, and both refinements, are proved.

## 5. What is not modelled, and the plan

Every part of the server is modelled. Left out of the parts:

* ports and addresses beyond which branch of the endpoint is taken, and time (the code has no timers);
* protocol versions of the TLS context, and of its cipher suites everything but the algorithm they need;
* the overflow of HTTP version numbers, and URIs of requests that the request parser itself rejects;
* a web service that calls the server it belongs to, or that sets headers of CORS: what `addHeader()` and
  `addItem()` do with a name that is there is in another repository;
* the contents of requests and replies in `WebServer`, and the threads in `Connection` and `Exchange`. The strand
  of a connection is `OneOperation` there: the composition shows that it is never needed.

The plan: done are `BaseServer`, `Connection`, `WebServices`, `WebServer`, `RequestParser` and `Exchange` with their
proofs. What is left:

1. That the connections of `WebServer` implement `RequestReply`, by keeping the number of requests handed over.
