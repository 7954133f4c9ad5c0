------------------------------ MODULE Connection ------------------------------
(***************************************************************************)
(* One connection, from the moment its client is accepted until its last   *)
(* shared pointer is released: a Connection or, if `secured', a            *)
(* SecuredConnection.  They differ in the handshake and in the shutdown.   *)
(*                                                                         *)
(* The connection has one asynchronous operation outstanding at a time,    *)
(* whose handler holds the shared pointer that keeps it alive; a handler   *)
(* that starts no operation ends the connection.  Handlers run one at a    *)
(* time, in the strand.  The client sends a request in pieces, and each    *)
(* read delivers as many of them as have arrived and fit in the buffer.    *)
(*                                                                         *)
(* A request is a number of pieces, what the request parser says of it,    *)
(* and what the URI parser does.  The verdict of a parser is an optional   *)
(* Boolean, as in the code: "none", "false" or "true".                     *)
(***************************************************************************)
EXTENDS Naturals

CONSTANTS
  MaxSize,      \* the largest request, in pieces (a bound)
  MaxExtra,     \* how many pieces a client sends after its request (a bound)
  BufferSize    \* how many pieces fit in m_requestBuffer

ASSUME SizeAssumption == MaxSize \in Nat \ {0} /\ MaxExtra \in Nat
ASSUME BufferAssumption == BufferSize \in Nat \ {0}

\* A request ends with piece `size': there the parser says `syntax', and the URI parser, if
\* it is asked, says `uri'.
Requests == [size : 1 .. MaxSize, syntax : {"true", "false"}, uri : {"true", "false"}]

VARIABLES
  secured,    \* whether it is a SecuredConnection
  place,      \* the operation that is outstanding or, for "accepted" and "shutdown", what the
              \* connection does next: "handshake", "read", "write", or "released"
  request,    \* the request of the client
  sent,       \* how many pieces the client has sent
  client,     \* "open", "closed" (it sends no more) or "reset"
  received,   \* how many pieces were read from m_socket and given to the parser
  m_reply,    \* "none", "service" (the reply of a web service), "not_found" or "bad_request"
  processed,  \* how many times processRequest was called
  delivered   \* whether async_write sent the whole m_replyBuffer

clientVars == <<request, sent, client>>
vars == <<secured, place, clientVars, received, m_reply, processed, delivered>>

Places == {"accepted", "handshake", "read", "write", "shutdown", "released"}

TypeOK ==
  /\ secured \in BOOLEAN
  /\ place \in Places
  /\ request \in Requests
  /\ sent \in 0 .. request.size + MaxExtra
  /\ client \in {"open", "closed", "reset"}
  /\ received \in 0 .. sent
  /\ m_reply \in {"none", "service", "not_found", "bad_request"}
  /\ processed \in Nat
  /\ delivered \in BOOLEAN

Init ==
  /\ secured \in BOOLEAN
  /\ place = "accepted"
  /\ request \in Requests
  /\ sent = 0
  /\ client = "open"
  /\ received = 0
  /\ m_reply = "none"
  /\ processed = 0
  /\ delivered = FALSE

-----------------------------------------------------------------------------
(* The client *)

Send ==
  /\ client = "open"
  /\ sent < request.size + MaxExtra
  /\ sent' = sent + 1
  /\ UNCHANGED <<secured, place, request, client, received, m_reply, processed, delivered>>

Leave ==
  /\ client = "open"
  /\ client' \in {"closed", "reset"}
  /\ UNCHANGED <<secured, place, request, sent, received, m_reply, processed, delivered>>

-----------------------------------------------------------------------------
(* The handlers *)

\* start()
Start ==
  /\ place = "accepted"
  /\ place' = IF secured THEN "handshake" ELSE "read"
  /\ UNCHANGED <<secured, clientVars, received, m_reply, processed, delivered>>

\* handleHandshake(): the handshake may fail for a client that stays, for want of a
\* certificate, and may be complete for one that left since.  It takes as long as the client
\* likes.
HandleHandshake ==
  /\ place = "handshake"
  /\ place' \in {"read", "released"}
  /\ UNCHANGED <<secured, clientVars, received, m_reply, processed, delivered>>

\* What parseBuffer answers to a buffer that ends with piece n.
parseBuffer(n) == IF n < request.size THEN "none" ELSE request.syntax

\* A boost::optional<bool> as the condition of an if: whether there is a verdict, not
\* which one it is.
Engaged(verdict) == verdict # "none"

\* A defect: what was parsed is answered before the parser comes to a verdict.
HandlePrefix(n) ==
  /\ place' = "write"
  /\ m_reply' \in {"service", "not_found"}
  /\ processed' = processed + 1

\* A defect: no read is started for the rest of the request.
HandleOneBuffer(n) ==
  IF Engaged(parseBuffer(n)) THEN HandlePrefix(n)
  ELSE place' = "released" /\ UNCHANGED <<m_reply, processed>>

\* handleRead() without an error, after the n-th piece: read on, or reply.
HandleBuffer(n) ==
  LET parsed == parseBuffer(n)
      result == IF Engaged(parsed) THEN request.uri ELSE parsed
  IN  \/ /\ ~Engaged(parsed)
         /\ place' = "read"
         /\ UNCHANGED <<m_reply, processed>>
      \/ /\ Engaged(parsed)
         /\ place' = "write"
         /\ IF Engaged(result)
              THEN m_reply' \in {"service", "not_found"} /\ processed' = processed + 1
              ELSE m_reply' = "bad_request" /\ UNCHANGED processed

\* A defect: the whole buffer is parsed, not the bytes that were transferred.
HandleWholeBuffer ==
  /\ place = "read"
  /\ client # "reset"
  /\ received < sent
  /\ received' = received + BufferSize
  /\ HandleBuffer(received')
  /\ UNCHANGED <<secured, clientVars, delivered>>

HandleRead ==
  /\ place = "read"
  /\ client # "reset"
  /\ \E n \in received + 1 .. sent :
       /\ n <= received + BufferSize
       /\ received' = n
       /\ HandleBuffer(n)
  /\ UNCHANGED <<secured, clientVars, delivered>>

\* A defect: the read is started again after an error.
HandleReadErrorRetries ==
  /\ place = "read"
  /\ client = "reset" \/ (client = "closed" /\ received = sent)
  /\ UNCHANGED vars

\* handleRead() with an error, or at the end of the stream: no new operation.
HandleReadError ==
  /\ place = "read"
  /\ client = "reset" \/ (client = "closed" /\ received = sent)
  /\ place' = "released"
  /\ UNCHANGED <<secured, clientVars, received, m_reply, processed, delivered>>

\* A defect: the connection is kept for another request.
HandleWriteKeepsAlive ==
  /\ place = "write"
  /\ client # "reset"
  /\ place' = "read"
  /\ delivered' = TRUE
  /\ UNCHANGED <<secured, clientVars, received, m_reply, processed>>

\* handleWrite() without an error.
HandleWrite ==
  /\ place = "write"
  /\ client # "reset"
  /\ place' = "shutdown"
  /\ delivered' = TRUE
  /\ UNCHANGED <<secured, clientVars, received, m_reply, processed>>

HandleWriteError ==
  /\ place = "write"
  /\ client # "open"
  /\ place' = "released"
  /\ UNCHANGED <<secured, clientVars, received, m_reply, processed, delivered>>

\* The call of shutdown() in handleWrite().  The one of ssl::stream is synchronous: the
\* worker waits in it until the client closes its side, or sent more than was read.
Shutdown ==
  /\ place = "shutdown"
  /\ secured => client # "open" \/ received < sent
  /\ place' = "released"
  /\ UNCHANGED <<secured, clientVars, received, m_reply, processed, delivered>>

-----------------------------------------------------------------------------
Server ==
  \/ Start \/ HandleHandshake
  \/ HandleRead \/ HandleReadError
  \/ HandleWrite \/ HandleWriteError \/ Shutdown

\* The last shared pointer is released.
Released == place = "released" /\ UNCHANGED vars

Next == Server \/ Send \/ Leave \/ Released

Spec == Init /\ [][Next]_vars

\* A handler whose operation can complete is run by a worker.  The client does as it likes: it
\* may leave a handshake unfinished, or send nothing more, for ever; what it is sent it reads.
FairSpec == Spec /\ WF_vars((place = "handshake" => client # "open") /\ Server)

-----------------------------------------------------------------------------
(* Properties *)

\* A reply is made only when the parser has come to a verdict, whatever pieces the request
\* arrived in: not of a prefix of the request.
WholeRequest == m_reply # "none" => received >= request.size

\* The web services see at most one request of a connection, also when the client sends
\* more than one.
ProcessedOnce == processed <= 1

\* A client that sent its whole request is answered, unless it leaves or its handshake fails.
Answered ==
  sent >= request.size /\ place = "read" ~> delivered \/ client # "open"

\* The connection of a client that left is released.
ReleasedAfterLeave == client # "open" ~> place = "released"

\* The connection keeps the promises of RequestReply.
stage ==
  IF place = "released" THEN "closed"
  ELSE IF place = "write" THEN "handed"
  ELSE IF delivered THEN "answered"
  ELSE "open"

Protocol == INSTANCE RequestReply WITH stage <- stage

RequestReplySpec == Protocol!Spec

\* The inductive invariant behind them: until the last piece of the request was read nothing
\* was replied, and what was processed or delivered follows from the place.
ReplyFollowsPlace ==
  /\ place \in {"accepted", "handshake", "read"} =>
       received < request.size /\ m_reply = "none" /\ processed = 0
  /\ place # "released" => (delivered <=> place = "shutdown")

IInv == TypeOK /\ WholeRequest /\ ProcessedOnce /\ ReplyFollowsPlace

(* What the repository says, and the code does not do *)

\* The tests call some requests invalid, by syntax or by URI, and handleRead() has a branch
\* that answers them with BAD_REQUEST.
InvalidIsBadRequest ==
  m_reply # "none" =>
    (m_reply = "bad_request" <=> request.syntax = "false" \/ request.uri = "false")
===============================================================================
