------------------------------ MODULE WebServices ------------------------------
(***************************************************************************)
(* WebServicesMgr, the vector of registered web services, and the loop of  *)
(* RequestHandlingService::processRequest that workers run over it without *)
(* a lock.                                                                 *)
(*                                                                         *)
(* A service is the number of its registration.  The vector keeps its      *)
(* elements in one block of memory: when a registration does not fit, it   *)
(* moves them to a block of twice the size and frees the old one.  A       *)
(* registration takes time, and what a worker reads of the vector          *)
(* meanwhile may be half written.                                          *)
(***************************************************************************)
EXTENDS Naturals

CONSTANTS
  Workers,        \* the threads that handle requests
  MaxServices     \* how many services the owner registers (a bound)

ASSUME MaxServicesAssumption == MaxServices \in Nat

VARIABLES
  size,         \* m_webServices.size()
  capacity,     \* m_webServices.capacity()
  block,        \* the block that it uses: those with a lower number were freed
  registering,  \* the push_back in progress: "no", "append" when there is room, or "move"
  serving,      \* whether the server was started
  late,         \* whether a registration began after that: the code does not remember it
  request       \* the progress of processRequest in each worker

vectorVars == <<size, capacity, block, registering>>
serverVars == <<serving, late>>
vars == <<vectorVars, serverVars, request>>

\* The places of processRequest: "idle" before and after it, "loop" at the test of the loop,
\* "index" when it has the address of the block, "process" in a service; and, once what it read
\* was undefined, "freed" if that was in a block that was freed, "past" if it was past the last
\* element, and "torn" if a registration was writing it.
Undefined == {"freed", "past", "torn"}

Progress == [
  place : {"idle", "loop", "index", "process"} \cup Undefined,
  nWebServices : 0 .. MaxServices,
  i : 0 .. MaxServices,
  base : 0 .. MaxServices,
  asked : SUBSET (1 .. MaxServices),       \* the services that were asked
  reply : 0 .. MaxServices + 1]            \* the service that replied, or 0 for NOT_FOUND

NoReply == MaxServices + 1

TypeOK ==
  /\ size \in 0 .. MaxServices
  /\ capacity \in size .. 2 * MaxServices
  /\ block \in 0 .. MaxServices
  /\ registering \in {"no", "append", "move"}
  /\ serving \in BOOLEAN
  /\ late \in BOOLEAN
  /\ request \in [Workers -> Progress]

Init ==
  /\ size = 0 /\ capacity = 0 /\ block = 0 /\ registering = "no"
  /\ serving = FALSE /\ late = FALSE
  /\ request = [w \in Workers |-> [place |-> "idle", nWebServices |-> 0, i |-> 0, base |-> 0,
                                   asked |-> {}, reply |-> NoReply]]

-----------------------------------------------------------------------------
(* The owner *)

\* addWebService() is called, before start() or after it, and its push_back begins.
AddWebService ==
  /\ registering = "no"
  /\ size < MaxServices
  /\ registering' = IF size < capacity THEN "append" ELSE "move"
  /\ late' = (late \/ serving)
  /\ UNCHANGED <<size, capacity, block, serving, request>>

\* It returns.
Registered ==
  /\ registering # "no"
  /\ registering' = "no"
  /\ size' = size + 1
  /\ IF registering = "append" THEN UNCHANGED <<capacity, block>>
     ELSE capacity' = (IF capacity = 0 THEN 1 ELSE 2 * capacity) /\ block' = block + 1
  /\ UNCHANGED <<serverVars, request>>

\* start(), by the same thread.
Start ==
  /\ ~serving
  /\ registering = "no"
  /\ serving' = TRUE
  /\ UNCHANGED <<vectorVars, late, request>>

-----------------------------------------------------------------------------
(* The workers *)

At(w, place) == request[w].place = place

\* processRequest() is called for a new request, and reads the size.
ProcessRequest(w) ==
  /\ serving
  /\ At(w, "idle")
  /\ request' = [request EXCEPT ![w].place = "loop", ![w].nWebServices = size, ![w].i = 0,
                                ![w].asked = {}, ![w].reply = NoReply]
  /\ UNCHANGED <<vectorVars, serverVars>>

\* A defect: the test of the loop is off by one.
NextServicePastEnd(w) ==
  /\ At(w, "loop")
  /\ request[w].i <= request[w].nWebServices
  /\ request' = [request EXCEPT ![w].place = "index", ![w].base = block]
  /\ UNCHANGED <<vectorVars, serverVars>>

\* The test of the loop passes: the address of the block is read from the vector.
NextService(w) ==
  /\ At(w, "loop")
  /\ request[w].i < request[w].nWebServices
  /\ request' = [request EXCEPT ![w].place = "index", ![w].base = block]
  /\ UNCHANGED <<vectorVars, serverVars>>

\* The element is read in the block, and the service is called: process() of whatever a freed
\* block, or the memory after the last element, points to may be anything.
GetWebService(w) ==
  /\ At(w, "index")
  /\ request' = [request EXCEPT ![w].place =
       IF request[w].base # block THEN "freed"
       ELSE IF request[w].i >= size THEN "past"
       ELSE "process"]
  /\ UNCHANGED <<vectorVars, serverVars>>

\* Both read what push_back writes: the size always, the address of the block and the elements
\* in it when it moves them.  That is undefined, or goes unnoticed (the actions above).
TornRead(w) ==
  /\ serving
  /\ \/ At(w, "idle") /\ registering # "no"
     \/ At(w, "loop") /\ request[w].i < request[w].nWebServices /\ registering = "move"
     \/ At(w, "index") /\ registering = "move"
  /\ request' = [request EXCEPT ![w].place = "torn"]
  /\ UNCHANGED <<vectorVars, serverVars>>

\* A defect: the body of the loop increments i once more.
ProcessSkipping(w) ==
  /\ At(w, "process")
  /\ request' = [request EXCEPT ![w].place = "loop", ![w].i = @ + 2]
  /\ UNCHANGED <<vectorVars, serverVars>>

\* The service returns a reply, or a null pointer.
Process(w) ==
  /\ At(w, "process")
  /\ LET service == request[w].i + 1
     IN  \/ request' = [request EXCEPT ![w].place = "idle", ![w].reply = service,
                                       ![w].asked = @ \cup {service}]
         \/ request' = [request EXCEPT ![w].place = "loop", ![w].i = @ + 1,
                                       ![w].asked = @ \cup {service}]
  /\ UNCHANGED <<vectorVars, serverVars>>

\* A defect: the first null reply ends the loop.
GiveUp(w) ==
  /\ At(w, "loop")
  /\ request[w].i >= request[w].nWebServices \/ request[w].i = 1
  /\ request' = [request EXCEPT ![w].place = "idle", ![w].reply = 0]
  /\ UNCHANGED <<vectorVars, serverVars>>

\* No service replied.
NotFound(w) ==
  /\ At(w, "loop")
  /\ request[w].i >= request[w].nWebServices
  /\ request' = [request EXCEPT ![w].place = "idle", ![w].reply = 0]
  /\ UNCHANGED <<vectorVars, serverVars>>

HandleRequest(w) ==
  \/ ProcessRequest(w) \/ NextService(w) \/ GetWebService(w) \/ TornRead(w)
  \/ Process(w) \/ NotFound(w)

-----------------------------------------------------------------------------
Defined == \A w \in Workers : request[w].place \notin Undefined

\* What happens after an undefined read is not modelled.
Ended == ~Defined /\ UNCHANGED vars

Next ==
  \/ /\ Defined
     /\ AddWebService \/ Registered \/ Start \/ \E w \in Workers : HandleRequest(w)
  \/ Ended

Spec == Init /\ [][Next]_vars

-----------------------------------------------------------------------------
(* Properties *)

\* While nothing is registered after start(), the reply to a request is the one of the first
\* service, in the order of registration, that has one: NOT_FOUND is said only when every
\* registered service was asked, and none is asked after one that replied.
FirstServiceReplies ==
  ~late =>
    \A w \in Workers :
      LET r == request[w]
      IN  At(w, "idle") /\ r.reply # NoReply
            => r.asked = 1 .. (IF r.reply = 0 THEN size ELSE r.reply)

\* A program that registers its services before it calls start() needs no lock: no worker reads
\* what a registration is writing, a block that was freed, or past the last service.
EarlyRegistrationIsSafe == ~late => Defined

(* The inductive invariant behind them *)

\* A registration has the room that it was begun with.
RegistrationFits ==
  /\ registering # "no" => size < MaxServices
  /\ registering = "append" => size < capacity
  /\ registering = "move" => size = capacity
  /\ block <= size

\* The services that were asked are those before i, which is short of the count wherever an
\* element is read.
AskedInOrder ==
  \A w \in Workers :
    LET r == request[w]
    IN  /\ r.place \in {"loop", "index", "process"} => serving /\ r.asked = 1 .. r.i
        /\ r.place = "loop" => r.i <= r.nWebServices
        /\ r.place \in {"index", "process"} => r.i < r.nWebServices

\* Nothing is handled before start(); and while nothing is registered after it, what a worker
\* has read of the vector is what the vector is.
UpToDate ==
  /\ ~serving => \A w \in Workers : At(w, "idle") /\ request[w].reply = NoReply
  /\ ~late => /\ serving => registering = "no"
              /\ \A w \in Workers :
                   /\ request[w].place # "idle" => request[w].nWebServices = size
                   /\ At(w, "index") => request[w].base = block

IInv ==
  /\ TypeOK /\ RegistrationFits /\ AskedInOrder /\ UpToDate
  /\ FirstServiceReplies /\ EarlyRegistrationIsSafe

(* What the repository says, and the code does not do *)

\* The fixtures of the tests start a server and register the service on it afterwards: no
\* worker reads an element in a block that the registration has freed.
NoFreedBlock == \A w \in Workers : ~At(w, "freed")
===============================================================================
