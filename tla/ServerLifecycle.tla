--------------------------- MODULE ServerLifecycle ---------------------------
(***************************************************************************)
(* What a web server promises to the program that owns it, with the        *)
(* acceptor, the io_service and the thread pool left out.                  *)
(*                                                                         *)
(* A server is new, serves at most once, is stopped for good, and is then  *)
(* destroyed.  Its workers execute handlers only while it serves, and it   *)
(* leaves the serving phase only when every handler has finished: once     *)
(* stop() has returned no web service is called ever again.  The process   *)
(* may be terminated by the server before it is destroyed, but never       *)
(* afterwards.                                                             *)
(***************************************************************************)

CONSTANT Workers   \* the threads of the pool

VARIABLES
  phase,   \* "new", "serving", "stopped", "destroyed" or "terminated"
  busy     \* the workers that execute a handler

vars == <<phase, busy>>

Init == phase = "new" /\ busy = {}

Start == phase = "new" /\ phase' = "serving" /\ UNCHANGED busy

Take(w) ==
  /\ phase = "serving"
  /\ w \notin busy
  /\ busy' = busy \cup {w}
  /\ UNCHANGED phase

Finish(w) ==
  /\ phase = "serving"
  /\ w \in busy
  /\ busy' = busy \ {w}
  /\ UNCHANGED phase

Stop ==
  /\ phase = "serving"
  /\ busy = {}
  /\ phase' = "stopped"
  /\ UNCHANGED busy

Destroy ==
  /\ phase \in {"new", "stopped"}
  /\ busy = {}
  /\ phase' = "destroyed"
  /\ UNCHANGED busy

Terminate ==
  /\ phase \in {"serving", "stopped"}
  /\ phase' = "terminated"
  /\ UNCHANGED busy

Next ==
  \/ Start \/ Stop \/ Destroy \/ Terminate
  \/ \E w \in Workers : Take(w) \/ Finish(w)

Spec == Init /\ [][Next]_vars
==============================================================================
