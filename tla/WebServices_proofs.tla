------------------------- MODULE WebServices_proofs -------------------------
(* WebServices, for every number of services and every set of workers. *)
EXTENDS WebServices, TLAPS

\* Every initial state satisfies the invariant.
LEMMA InitIInv == Init => IInv
<1>. SUFFICES ASSUME Init PROVE IInv
  OBVIOUS
<1>1. 0 \in 0 .. MaxServices /\ 0 \in 0 .. 2 * MaxServices /\ NoReply \in 0 .. MaxServices + 1
  BY MaxServicesAssumption DEF NoReply
<1>2. request \in [Workers -> Progress]
  BY <1>1 DEF Init, Progress
<1>3. TypeOK
  BY <1>1, <1>2 DEF Init, TypeOK
<1>4. \A w \in Workers : request[w].place = "idle" /\ request[w].reply = NoReply
  BY DEF Init
<1>5. RegistrationFits
  BY <1>1 DEF Init, RegistrationFits
<1>6. AskedInOrder /\ UpToDate /\ FirstServiceReplies /\ EarlyRegistrationIsSafe
  BY <1>4
     DEF Init, AskedInOrder, UpToDate, FirstServiceReplies, EarlyRegistrationIsSafe, Defined,
         Undefined, At
<1>. QED BY <1>3, <1>5, <1>6 DEF IInv

-----------------------------------------------------------------------------
(* The owner *)

\* The beginning of a registration: the vector is as it was.
LEMMA AddPreserves == IInv /\ AddWebService => IInv'
<1>. SUFFICES ASSUME IInv, AddWebService PROVE IInv'
  OBVIOUS
<1>1. TypeOK' /\ RegistrationFits'
  BY DEF AddWebService, IInv, TypeOK, RegistrationFits
<1>2. UNCHANGED <<size, block, serving, request>> /\ (late' <=> late \/ serving)
  BY DEF AddWebService
<1>3. AskedInOrder'
  BY <1>2 DEF IInv, AskedInOrder
<1>4. UpToDate' /\ FirstServiceReplies' /\ EarlyRegistrationIsSafe'
  BY <1>2 DEF IInv, UpToDate, FirstServiceReplies, EarlyRegistrationIsSafe, Defined, At
<1>. QED BY <1>1, <1>3, <1>4 DEF IInv

\* The end of a registration stays in the bounds of the vector: each one that moves it adds a
\* service.
LEMMA RegisteredFits == IInv /\ Registered => TypeOK' /\ RegistrationFits'
<1>. SUFFICES ASSUME IInv, Registered PROVE TypeOK' /\ RegistrationFits'
  OBVIOUS
<1>1. /\ size \in Nat /\ capacity \in Nat /\ block \in Nat
      /\ size <= capacity /\ block <= size /\ size < MaxServices /\ capacity <= 2 * MaxServices
  BY MaxServicesAssumption DEF IInv, TypeOK, RegistrationFits, Registered
<1>2. size' = size + 1 /\ size' \in 0 .. MaxServices /\ registering' = "no"
  BY <1>1, MaxServicesAssumption DEF Registered
<1>3. CASE registering = "append"
  <2>1. UNCHANGED <<capacity, block>> /\ size < capacity
    BY <1>3 DEF Registered, IInv, RegistrationFits
  <2>. QED BY <1>1, <1>2, <2>1, MaxServicesAssumption
           DEF Registered, serverVars, IInv, TypeOK, RegistrationFits
<1>4. CASE registering # "append"
  <2>1. capacity' = (IF capacity = 0 THEN 1 ELSE 2 * capacity) /\ block' = block + 1
    BY <1>4 DEF Registered
  <2>2. CASE capacity = 0
    BY <1>1, <1>2, <2>1, <2>2, MaxServicesAssumption
       DEF Registered, serverVars, IInv, TypeOK, RegistrationFits
  <2>3. CASE capacity # 0
    <3>1. size = capacity
      BY <1>4 DEF Registered, IInv, TypeOK, RegistrationFits
    <3>. QED BY <1>1, <1>2, <2>1, <2>3, <3>1, MaxServicesAssumption
             DEF Registered, serverVars, IInv, TypeOK, RegistrationFits
  <2>. QED BY <2>2, <2>3
<1>. QED BY <1>3, <1>4

\* It ends before start(), when nothing was handled, or it is late.
LEMMA RegisteredPreserves == IInv /\ Registered => IInv'
<1>. SUFFICES ASSUME IInv, Registered PROVE IInv'
  OBVIOUS
<1>1. TypeOK' /\ RegistrationFits'
  BY RegisteredFits
<1>2. UNCHANGED <<serving, late, request>> /\ (serving => late)
  BY DEF Registered, serverVars, IInv, UpToDate, TypeOK
<1>3. AskedInOrder' /\ EarlyRegistrationIsSafe'
  BY <1>2 DEF IInv, AskedInOrder, EarlyRegistrationIsSafe, Defined
<1>4. UpToDate' /\ FirstServiceReplies'
  BY <1>2 DEF IInv, UpToDate, FirstServiceReplies, At
<1>. QED BY <1>1, <1>3, <1>4 DEF IInv

LEMMA StartPreserves == IInv /\ Start => IInv'
<1>. SUFFICES ASSUME IInv, Start PROVE IInv'
  OBVIOUS
<1>1. UNCHANGED <<vectorVars, late, request>> /\ ~serving /\ serving' /\ registering = "no"
  BY DEF Start
<1>2. TypeOK' /\ RegistrationFits' /\ FirstServiceReplies' /\ EarlyRegistrationIsSafe'
  BY <1>1
     DEF Start, IInv, TypeOK, RegistrationFits, FirstServiceReplies, EarlyRegistrationIsSafe,
         Defined, At, vectorVars
<1>3. AskedInOrder' /\ UpToDate'
  BY <1>1 DEF IInv, AskedInOrder, UpToDate, At, vectorVars
<1>. QED BY <1>2, <1>3 DEF IInv

-----------------------------------------------------------------------------
(* The workers *)

\* What the invariant asks of the progress r of one request.
Sound(r) ==
  /\ r.place \in {"loop", "index", "process"} => r.asked = 1 .. r.i
  /\ r.place = "loop" => r.i <= r.nWebServices
  /\ r.place \in {"index", "process"} => r.i < r.nWebServices
  /\ ~late => /\ r.place # "idle" => r.nWebServices = size
              /\ r.place = "index" => r.base = block
              /\ r.place \notin Undefined
              /\ r.place = "idle" /\ r.reply # NoReply
                   => r.asked = 1 .. (IF r.reply = 0 THEN size ELSE r.reply)

\* A step of a worker that takes its own progress to what the invariant asks of it.
LEMMA ProgressPreserves ==
  ASSUME IInv, serving, NEW w \in Workers, NEW r \in Progress, Sound(r),
         request' = [request EXCEPT ![w] = r],
         UNCHANGED <<vectorVars, serverVars>>
  PROVE  IInv'
<1>1. request' \in [Workers -> Progress]
  BY DEF IInv, TypeOK
<1>2. \A v \in Workers : request'[v] = IF v = w THEN r ELSE request[v]
  BY DEF IInv, TypeOK
<1>3. TypeOK' /\ RegistrationFits'
  BY <1>1 DEF IInv, TypeOK, RegistrationFits, vectorVars, serverVars
<1>4. AskedInOrder'
  BY <1>2 DEF Sound, IInv, AskedInOrder, serverVars
<1>5. UpToDate'
  BY <1>2 DEF Sound, IInv, UpToDate, At, vectorVars, serverVars
<1>6. EarlyRegistrationIsSafe'
  BY <1>2 DEF Sound, IInv, EarlyRegistrationIsSafe, Defined, serverVars
<1>7. FirstServiceReplies'
  BY <1>2 DEF Sound, IInv, FirstServiceReplies, At, NoReply, vectorVars, serverVars
<1>. QED BY <1>3, <1>4, <1>5, <1>6, <1>7 DEF IInv

\* The steps of processRequest.
LEMMA WorkerPreserves ==
  ASSUME IInv, Defined, NEW w \in Workers, HandleRequest(w) PROVE IInv'
<1>. DEFINE r == request[w]
<1>1. /\ r \in Progress /\ size \in 0 .. MaxServices /\ block \in 0 .. MaxServices
      /\ request \in [Workers -> Progress]
  BY DEF IInv, TypeOK
<1>2. /\ r.nWebServices \in 0 .. MaxServices /\ r.i \in 0 .. MaxServices
      /\ r.asked \in SUBSET (1 .. MaxServices) /\ r.reply \in 0 .. MaxServices + 1
      /\ r.base \in 0 .. MaxServices
  BY <1>1 DEF Progress
<1>3. Sound(r)
  BY DEF IInv, AskedInOrder, UpToDate, EarlyRegistrationIsSafe, FirstServiceReplies, Defined, At,
         Sound
<1>4. serving
  <2>1. CASE r.place = "idle"
    BY <2>1 DEF HandleRequest, ProcessRequest, NextService, GetWebService, TornRead, Process,
                NotFound, At
  <2>2. CASE r.place # "idle"
    BY <2>2 DEF IInv, UpToDate, At
  <2>. QED BY <2>1, <2>2
<1>5. CASE ProcessRequest(w)
  <2>1. 0 \in 0 .. MaxServices /\ NoReply \in 0 .. MaxServices + 1
    BY MaxServicesAssumption DEF NoReply
  <2>. DEFINE q == [r EXCEPT !.place = "loop", !.nWebServices = size, !.i = 0, !.asked = {},
                             !.reply = NoReply]
  <2>2. q \in Progress
    BY <1>1, <2>1 DEF Progress
  <2>3. request' = [request EXCEPT ![w] = q] /\ UNCHANGED <<vectorVars, serverVars>>
    BY <1>1, <1>5 DEF ProcessRequest
  <2>4. q.place = "loop" /\ q.i = 0 /\ q.asked = {} /\ q.nWebServices = size
    BY <1>1 DEF Progress
  <2>5. 0 <= size /\ {} = 1 .. 0
    BY <1>1, MaxServicesAssumption
  <2>. HIDE DEF q
  <2>6. Sound(q)
    BY <2>4, <2>5 DEF Sound, Undefined
  <2>. QED BY <1>4, <2>2, <2>3, <2>6, ProgressPreserves
<1>6. CASE NextService(w)
  <2>. DEFINE q == [r EXCEPT !.place = "index", !.base = block]
  <2>1. q \in Progress
    BY <1>1 DEF Progress
  <2>2. request' = [request EXCEPT ![w] = q] /\ UNCHANGED <<vectorVars, serverVars>>
    BY <1>1, <1>6 DEF NextService
  <2>3. /\ q.place = "index" /\ q.base = block
        /\ q.i = r.i /\ q.asked = r.asked /\ q.nWebServices = r.nWebServices
    BY <1>1 DEF Progress
  <2>4. r.place = "loop" /\ r.i < r.nWebServices
    BY <1>6 DEF NextService, At
  <2>. HIDE DEF q
  <2>5. Sound(q)
    BY <1>3, <2>3, <2>4 DEF Sound, Undefined
  <2>. QED BY <1>4, <2>1, <2>2, <2>5, ProgressPreserves
<1>7. CASE GetWebService(w)
  <2>. DEFINE next == IF r.base # block THEN "freed"
                      ELSE IF r.i >= size THEN "past" ELSE "process"
              q == [r EXCEPT !.place = next]
  <2>1. q \in Progress
    BY <1>1 DEF Progress, Undefined
  <2>2. request' = [request EXCEPT ![w] = q] /\ UNCHANGED <<vectorVars, serverVars>>
    BY <1>1, <1>7 DEF GetWebService
  <2>3. /\ q.place = next
        /\ q.i = r.i /\ q.asked = r.asked /\ q.nWebServices = r.nWebServices
    BY <1>1 DEF Progress
  <2>4. r.place = "index"
    BY <1>7 DEF GetWebService, At
  <2>5. next \in {"process", "freed", "past"}
    OBVIOUS
  <2>6. ~late => next = "process"
    BY <1>1, <1>2, <1>3, <2>4, MaxServicesAssumption DEF Sound
  <2>. HIDE DEF q, next
  <2>7. Sound(q)
    BY <1>3, <2>3, <2>4, <2>5, <2>6 DEF Sound, Undefined
  <2>. QED BY <1>4, <2>1, <2>2, <2>7, ProgressPreserves
<1>8. CASE TornRead(w)
  <2>. DEFINE q == [r EXCEPT !.place = "torn"]
  <2>1. q \in Progress
    BY <1>1 DEF Progress, Undefined
  <2>2. request' = [request EXCEPT ![w] = q] /\ UNCHANGED <<vectorVars, serverVars>>
    BY <1>1, <1>8 DEF TornRead
  <2>3. q.place = "torn"
    BY <1>1 DEF Progress
  <2>4. late
    BY <1>4, <1>8 DEF TornRead, IInv, UpToDate
  <2>. HIDE DEF q
  <2>5. Sound(q)
    BY <2>3, <2>4 DEF Sound
  <2>. QED BY <1>4, <2>1, <2>2, <2>5, ProgressPreserves
<1>9. CASE Process(w)
  <2>1. r.place = "process" /\ r.i < r.nWebServices /\ r.asked = 1 .. r.i
    BY <1>3, <1>9 DEF Process, At, Sound
  <2>2. /\ r.i + 1 \in 0 .. MaxServices /\ r.i + 1 \in 0 .. MaxServices + 1
        /\ r.asked \cup {r.i + 1} \in SUBSET (1 .. MaxServices)
        /\ r.asked \cup {r.i + 1} = 1 .. (r.i + 1)
    BY <1>2, <2>1, MaxServicesAssumption
  <2>. DEFINE p == [r EXCEPT !.place = "idle", !.reply = r.i + 1, !.asked = r.asked \cup {r.i + 1}]
              q == [r EXCEPT !.place = "loop", !.i = r.i + 1, !.asked = r.asked \cup {r.i + 1}]
  <2>3. p \in Progress /\ q \in Progress
    BY <1>1, <2>2 DEF Progress
  <2>4. /\ request' = [request EXCEPT ![w] = p] \/ request' = [request EXCEPT ![w] = q]
        /\ UNCHANGED <<vectorVars, serverVars>>
    BY <1>1, <1>9 DEF Process
  <2>5. p.place = "idle" /\ p.reply = r.i + 1 /\ p.asked = 1 .. (r.i + 1)
    BY <1>1, <2>2 DEF Progress
  <2>6. /\ q.place = "loop" /\ q.i = r.i + 1 /\ q.asked = 1 .. (r.i + 1)
        /\ q.nWebServices = r.nWebServices
    BY <1>1, <2>2 DEF Progress
  <2>7. r.i + 1 # 0 /\ r.i + 1 <= r.nWebServices /\ (~late => r.nWebServices = size)
    BY <1>2, <1>3, <2>1 DEF Sound
  <2>. HIDE DEF p, q
  <2>8. Sound(p) /\ Sound(q)
    BY <2>5, <2>6, <2>7 DEF Sound, Undefined
  <2>. QED BY <1>4, <2>3, <2>4, <2>8, ProgressPreserves
<1>10. CASE NotFound(w)
  <2>. DEFINE q == [r EXCEPT !.place = "idle", !.reply = 0]
  <2>1. q \in Progress
    <3>1. 0 \in 0 .. MaxServices + 1
      BY MaxServicesAssumption
    <3>. QED BY <1>1, <3>1 DEF Progress
  <2>2. request' = [request EXCEPT ![w] = q] /\ UNCHANGED <<vectorVars, serverVars>>
    BY <1>1, <1>10 DEF NotFound
  <2>3. q.place = "idle" /\ q.reply = 0 /\ q.asked = r.asked
    BY <1>1 DEF Progress
  <2>4. r.place = "loop" /\ r.i >= r.nWebServices
    BY <1>10 DEF NotFound, At
  <2>5. r.i = r.nWebServices /\ r.asked = 1 .. r.i /\ (~late => r.nWebServices = size)
    BY <1>2, <1>3, <2>4 DEF Sound
  <2>. HIDE DEF q
  <2>6. Sound(q)
    BY <2>3, <2>5 DEF Sound, Undefined
  <2>. QED BY <1>4, <2>1, <2>2, <2>6, ProgressPreserves
<1>. QED BY <1>5, <1>6, <1>7, <1>8, <1>9, <1>10 DEF HandleRequest

-----------------------------------------------------------------------------
\* Every step preserves the invariant.
LEMMA StepIInv == IInv /\ [Next]_vars => IInv'
<1>. SUFFICES ASSUME IInv, [Next]_vars PROVE IInv'
  OBVIOUS
<1>1. CASE UNCHANGED vars
  BY <1>1 DEF IInv, TypeOK, RegistrationFits, AskedInOrder, UpToDate, FirstServiceReplies,
              EarlyRegistrationIsSafe, Defined, At, vars, vectorVars, serverVars
<1>. QED BY <1>1, AddPreserves, RegisteredPreserves, StartPreserves, WorkerPreserves
         DEF Next, Ended

\* The inductive invariant holds in every reachable state.
THEOREM Invariance == Spec => []IInv
<1>. QED BY InitIInv, StepIInv, PTL DEF Spec

\* Every variable keeps its type.
THEOREM TypeCorrect == Spec => []TypeOK
<1>1. IInv => TypeOK
  BY DEF IInv
<1>. QED BY <1>1, Invariance, PTL

\* While nothing is registered after start(), a request is answered by the first service, in the
\* order of registration, that has a reply, however many workers there are.
THEOREM FirstReply == Spec => []FirstServiceReplies
<1>1. IInv => FirstServiceReplies
  BY DEF IInv
<1>. QED BY <1>1, Invariance, PTL

\* When every service is registered before start(), no worker ever reads what a registration is
\* writing, a block that was freed, or an element past the last one.
THEOREM EarlyIsSafe == Spec => []EarlyRegistrationIsSafe
<1>1. IInv => EarlyRegistrationIsSafe
  BY DEF IInv
<1>. QED BY <1>1, Invariance, PTL
=============================================================================
