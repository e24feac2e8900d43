----------------------------- MODULE OcdSession -----------------------------
(* What the manager relies on when it runs OpenOCD: a session comes up or  *)
(* not, is asked to stop or not, and ends once. It is the process that     *)
(* Manager keeps in proc and ready; ocd/server.go implements it.           *)

VARIABLES
  proc,  \* "starting", "up", "stopping" or "exited"
  ready  \* it has reported its GDB port

vars == <<proc, ready>>

Init == proc = "starting" /\ ready = FALSE

Listens ==
  /\ proc = "starting"
  /\ proc' = "up"
  /\ ready' = TRUE

IsStopped ==
  /\ proc \in {"starting", "up"}
  /\ proc' = "stopping"
  /\ UNCHANGED ready

Exits ==
  /\ proc # "exited"
  /\ proc' = "exited"
  /\ UNCHANGED ready

Next == Listens \/ IsStopped \/ Exits

Spec == Init /\ [][Next]_vars
=============================================================================
