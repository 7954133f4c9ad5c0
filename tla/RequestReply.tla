----------------------------- MODULE RequestReply -----------------------------
(***************************************************************************)
(* What a connection promises to its client, plain or secured: it hands at *)
(* most one request to the web services, sends at most one reply, and only *)
(* to a request it handed over, and sends nothing after that.  It may be   *)
(* closed at any moment.                                                   *)
(***************************************************************************)

VARIABLE stage   \* "open", "handed", "answered" or "closed"

Init == stage = "open"

Hand == stage = "open" /\ stage' = "handed"
Answer == stage = "handed" /\ stage' = "answered"
Close == stage # "closed" /\ stage' = "closed"

Next == Hand \/ Answer \/ Close

Spec == Init /\ [][Next]_stage
===============================================================================
