-------------------------- MODULE Connection_proofs --------------------------
(* Safety of Connection, for requests and buffers of every size. *)
EXTENDS Connection, TLAPS

\* What the type invariant says of the numbers.
LEMMA Numbers ==
  ASSUME TypeOK
  PROVE  /\ request.size \in Nat \ {0}
         /\ sent \in Nat /\ received \in Nat /\ received <= sent
         /\ request.syntax \in {"true", "false"} /\ request.uri \in {"true", "false"}
BY SizeAssumption DEF TypeOK, Requests

\* Every initial state satisfies the invariant.
LEMMA InitIInv == Init => IInv
<1>. SUFFICES ASSUME Init PROVE IInv
  OBVIOUS
<1>1. request.size \in Nat \ {0}
  BY SizeAssumption DEF Init, Requests
<1>2. TypeOK
  <2>1. sent \in 0 .. request.size + MaxExtra /\ received \in 0 .. sent
    BY <1>1, SizeAssumption DEF Init
  <2>. QED BY <2>1 DEF Init, TypeOK, Places
<1>. QED BY <1>1, <1>2 DEF Init, IInv, WholeRequest, ProcessedOnce, ReplyFollowsPlace

\* A read: on a prefix of the request it reads on, and on the rest it replies.
LEMMA ReadPreserves == IInv /\ HandleRead => IInv'
<1>. SUFFICES ASSUME IInv, HandleRead PROVE IInv'
  OBVIOUS
<1>1. PICK n \in received + 1 .. sent : received' = n /\ HandleBuffer(n)
  BY DEF HandleRead
<1>2. n \in Nat /\ n <= sent /\ received < n
  BY <1>1, Numbers DEF IInv
<1>3. place = "read" /\ UNCHANGED <<secured, clientVars, delivered>>
  BY DEF HandleRead
<1>4. Engaged(parseBuffer(n)) <=> n >= request.size
  BY <1>2, Numbers DEF IInv, Engaged, parseBuffer
<1>5. CASE ~Engaged(parseBuffer(n))
  <2>1. place' = "read" /\ UNCHANGED <<m_reply, processed>>
    BY <1>1, <1>5 DEF HandleBuffer
  <2>2. n < request.size
    BY <1>2, <1>4, <1>5, Numbers DEF IInv
  <2>. QED BY <1>1, <1>2, <1>3, <2>1, <2>2
           DEF IInv, TypeOK, WholeRequest, ProcessedOnce, ReplyFollowsPlace, clientVars, Places
<1>6. CASE Engaged(parseBuffer(n))
  <2>1. place' = "write" /\ m_reply' \in {"service", "not_found", "bad_request"}
    BY <1>1, <1>6 DEF HandleBuffer
  <2>2. processed' \in {0, 1}
    BY <1>1, <1>3, <1>6 DEF HandleBuffer, IInv, ReplyFollowsPlace
  <2>. QED BY <1>1, <1>2, <1>3, <1>4, <1>6, <2>1, <2>2
           DEF IInv, TypeOK, WholeRequest, ProcessedOnce, ReplyFollowsPlace, clientVars, Places
<1>. QED BY <1>5, <1>6

\* Every step preserves the invariant.
LEMMA StepIInv == IInv /\ [Next]_vars => IInv'
<1>. SUFFICES ASSUME IInv, [Next]_vars PROVE IInv'
  OBVIOUS
<1>. USE Numbers
     DEF IInv, TypeOK, Places, WholeRequest, ProcessedOnce, ReplyFollowsPlace, clientVars, vars
<1>1. CASE Start
  BY <1>1 DEF Start
<1>2. CASE HandleHandshake
  BY <1>2 DEF HandleHandshake
<1>3. CASE HandleRead
  BY <1>3, ReadPreserves
<1>4. CASE HandleReadError
  BY <1>4 DEF HandleReadError
<1>5. CASE HandleWrite
  BY <1>5 DEF HandleWrite
<1>6. CASE HandleWriteError
  BY <1>6 DEF HandleWriteError
<1>7. CASE Shutdown
  BY <1>7 DEF Shutdown
<1>8. CASE Send
  BY <1>8, SizeAssumption DEF Send
<1>9. CASE Leave
  BY <1>9 DEF Leave
<1>10. CASE UNCHANGED vars
  BY <1>10
<1>. QED BY <1>1, <1>2, <1>3, <1>4, <1>5, <1>6, <1>7, <1>8, <1>9, <1>10
         DEF Next, Server, Released

\* The inductive invariant holds in every reachable state.
THEOREM Invariance == Spec => []IInv
<1>. QED BY InitIInv, StepIInv, PTL DEF Spec

\* Every variable keeps its type.
THEOREM TypeCorrect == Spec => []TypeOK
<1>1. IInv => TypeOK
  BY DEF IInv
<1>. QED BY <1>1, Invariance, PTL

\* No reply is made of a prefix of a request, whatever pieces it arrives in and however large
\* the buffer is.
THEOREM RepliesToWholeRequests == Spec => []WholeRequest
<1>1. IInv => WholeRequest
  BY DEF IInv
<1>. QED BY <1>1, Invariance, PTL

\* At most one request of a connection is given to the web services.
THEOREM OneRequest == Spec => []ProcessedOnce
<1>1. IInv => ProcessedOnce
  BY DEF IInv
<1>. QED BY <1>1, Invariance, PTL

-----------------------------------------------------------------------------
(* Connection implements RequestReply. *)

\* Every step of a connection is a step of the abstract one, or is not seen.
LEMMA StepRefines == IInv /\ [Next]_vars => [Protocol!Next]_stage
<1>. SUFFICES ASSUME IInv, [Next]_vars PROVE [Protocol!Next]_stage
  OBVIOUS
<1>. USE DEF IInv, ReplyFollowsPlace, stage, clientVars, vars
<1>1. CASE Start \/ HandleHandshake
  <2>1. CASE place' = "released"
    BY <1>1, <2>1 DEF Start, HandleHandshake, Protocol!Next, Protocol!Close
  <2>2. CASE place' # "released"
    BY <1>1, <2>2 DEF Start, HandleHandshake
  <2>. QED BY <2>1, <2>2
<1>2. CASE HandleRead
  <2>1. PICK n \in received + 1 .. sent : HandleBuffer(n)
    BY <1>2 DEF HandleRead
  <2>2. place' \in {"read", "write"}
    BY <2>1 DEF HandleBuffer
  <2>. QED BY <1>2, <2>2 DEF HandleRead, Protocol!Next, Protocol!Hand
<1>3. CASE HandleReadError
  BY <1>3 DEF HandleReadError, Protocol!Next, Protocol!Close
<1>4. CASE HandleWrite
  BY <1>4 DEF HandleWrite, Protocol!Next, Protocol!Answer
<1>5. CASE HandleWriteError \/ Shutdown
  BY <1>5 DEF HandleWriteError, Shutdown, Protocol!Next, Protocol!Close
<1>6. CASE Send \/ Leave \/ UNCHANGED vars
  BY <1>6 DEF Send, Leave
<1>. QED BY <1>1, <1>2, <1>3, <1>4, <1>5, <1>6 DEF Next, Server, Released

\* The connection keeps the promises of RequestReply: one request handed over at most, one
\* reply at most, and only to it.
THEOREM Refinement == Spec => RequestReplySpec
<1>1. Init => Protocol!Init
  BY DEF Init, Protocol!Init, stage
<1>. QED BY <1>1, StepRefines, Invariance, PTL DEF Spec, RequestReplySpec, Protocol!Spec
==============================================================================
