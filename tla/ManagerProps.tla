---------------------------- MODULE ManagerProps ----------------------------
(* What picohub's manager promises, over the steps of Manager.             *)
EXTENDS Manager

(* The request holds md.ctrl of its board. *)
Holds(o) == pc[o] \in {"claimed", "accepted", "owned", "draining", "work", "touch",
                       "write", "launch", "abort", "watch", "release", "unlock"}
(* It has the board to itself, its console closed. *)
OperationPcs == {"work", "touch", "write", "launch", "abort", "watch"}

RunHolds == runPc \in {"decide", "drain", "owned", "lastDrain"}

(* md.ctrl serializes attaching, detaching and exclusive operations        *)
(* (manager.go:61): whoever is inside such a section owns the board, so no *)
(* two goroutines are, and the mutex that StartDebug hands to watchDebug   *)
(* is still held by that session.                                          *)
BoardsAreOwned ==
  /\ \A o \in Requests : Holds(o) => ctrl[tgt[o]] = o
  /\ RunHolds => ctrl[cur] = Run

(* The activity the page shows is that of the request that owns the board: *)
(* busy is never left behind by a release, nor erased under an owner that  *)
(* came next (manager.go:80).                                              *)
BusyNamesOwner ==
  \A b \in Boards : busy[b] # NotBusy =>
    \E o \in Requests : /\ ctrl[b] = o
                        /\ tgt[o] = b
                        /\ Claims(o)
                        /\ busy[b] = Activity(o)

(* While a firmware is written, a board is put in boot mode or OpenOCD     *)
(* holds its probe, no pump of ours runs and our console port is closed.   *)
NoConsoleUnderOperation ==
  \A o \in Requests :
    pc[o] \in OperationPcs =>
      /\ ~attached[tgt[o]]
      /\ pump[tgt[o]] = "none"
      /\ port[tgt[o]] # "open"

(* A published debug session owns the board, shows as debugging and has    *)
(* no console next to it, until watchDebug takes it down.                  *)
SessionOwnsProbe ==
  \A b \in Boards : ocdSrv[b] # None =>
    /\ ctrl[b] = ocdSrv[b]
    /\ pc[ocdSrv[b]] = "watch" /\ tgt[ocdSrv[b]] = b
    /\ busy[b] = "debugging"

(* An attached board has a pump goroutine, and a board that nobody owns    *)
(* and that is not attached has none and no open port: every detach waited *)
(* for the pump it stopped.                                                *)
PumpFollowsAttached ==
  \A b \in Boards :
    /\ attached[b] => pump[b] # "none" /\ ~stop[b]
    /\ (~attached[b] /\ ctrl[b] = Free) => pump[b] = "none" /\ port[b] = "closed"

(* detach closes the port (manager.go:356): when nobody owns a board that  *)
(* is not attached, no descriptor of ours is open on its tty.              *)
ReleasedPortIsClosed ==
  \A b \in Boards :
    (~attached[b] /\ ctrl[b] = Free) => port[b] # "open" /\ others[b] = {}

(* Nothing is running or pending between two passes. *)
Quiet ==
  /\ runPc = "select"
  /\ ~poked
  /\ ~missed
  /\ \A o \in Requests : pc[o] \in {"idle", "done"}

(* No wake-up is lost: once every request is over and no poke is pending,  *)
(* every tracked board whose presence is up to date is attached exactly    *)
(* when the bus and the stored policy say so, without waiting for a tick.  *)
NoLostWakeup ==
  Quiet => \A b \in devices :
    presence[b] = PresenceOf(bus[b]) =>
      (attached[b] <=> (bus[b] = "console" /\ ~recIgnored[b]))

(* ignored mirrors DeviceRecord.Ignored (manager.go:79), at rest, for a    *)
(* board on the bus.                                                       *)
MirrorFollowsStore ==
  Quiet => \A b \in devices : presence[b] # "Gone" => ignored[b] = recIgnored[b]

(* After shutdown no board is attached and no pump is left to write to a   *)
(* store that main is about to close.                                      *)
StoppedHoldsNothing ==
  runPc = "stopped" => \A b \in Boards : ~attached[b] /\ pump[b] = "none"

-----------------------------------------------------------------------------

(* A board stays on the bus as a console, wanted and left alone. *)
Wanted(b) ==
  /\ bus[b] = "console"
  /\ ~recIgnored[b]
  /\ ~ctxDone
  /\ \A o \in Requests : pc[o] \in {"idle", "done"}

(* picohub continuously captures the output of a board it should hold: the *)
(* pump ends up reading and keeps reading.                                 *)
ConsoleCaptured == \A b \in Boards : <>[]Wanted(b) => <>[](pump[b] = "reading")

(* A board that stays ignored is let go of for good. *)
IgnoreHonoured ==
  \A b \in Boards : <>[](recIgnored[b] /\ ~ctxDone) => <>[]~attached[b]

(* A debug session that may last: its OpenOCD still runs. *)
InSession(b) == \E o \in Requests : pc[o] = "watch" /\ tgt[o] = b /\ proc[o] # "exited"

(* Every request returns unless a debug session keeps its board, and a     *)
(* session ends: once its process has exited, stopped or crashed, it gives *)
(* the board back (debug.go:198-213).                                      *)
RequestReturns ==
  \A o \in Requests :
    pc[o] # "idle" ~> pc[o] = "done" \/ InSession(tgt[o])

(* A StartDebug has not yet published its server. *)
DebugStarting ==
  \E o \in Requests : kind[o] = "debug" /\ pc[o] \notin {"watch", "release", "unlock", "poke", "done"}

(* Run returns after the context is cancelled. *)
RunReturns == ctxDone ~> runPc = "stopped"

(* Run returns after the context is cancelled, if no StartDebug is on its  *)
(* way once shutdown looks for sessions to stop.                           *)
RunReturnsWhenSettled ==
  [](runPc \in {"stopDebugs", "stopWait", "lock"} => ~DebugStarting) => RunReturns

(* SetIgnored: the port is free by the time the call that ignores the      *)
(* board returns (manager.go:626), for as long as the record says so.      *)
FreeOnReturn ==
  \A o \in Requests :
    (kind[o] = "ignore" /\ pc[o] = "done" /\ recIgnored[tgt[o]]) => ~attached[tgt[o]]

-----------------------------------------------------------------------------
(* The manager as a BoardOwner: md.ctrl says who owns a board, and what is *)
(* going on with it can be told from its pump and the requests.            *)

InOperation(b) == \E o \in Requests : tgt[o] = b /\ pc[o] \in OperationPcs

UseOf(b) == IF InOperation(b) THEN "operation"
            ELSE IF attached[b] THEN "console"
            ELSE IF pump[b] # "none" THEN "ending" ELSE "nothing"

Owned == INSTANCE BoardOwner
           WITH Users <- Requests, Loop <- Run, owner <- ctrl,
                use <- [b \in Boards |-> UseOf(b)]

(* ctrl serializes attaching, detaching and exclusive operations           *)
(* (manager.go:61): every step is that of one owner who takes a board,     *)
(* ends its capture, uses it once the capture is over, or gives it back.   *)
BoardsHaveOwners == Owned!Spec

-----------------------------------------------------------------------------
(* The inductive invariant behind the safety properties above. *)

(* A request that started has a board and a kind, and only the kinds that  *)
(* may be at a point are there; Run has a board where it works on one.     *)
Shape ==
  /\ \A o \in Requests :
       /\ pc[o] # "idle" => tgt[o] \in Boards /\ kind[o] \in AllKinds
       /\ pc[o] \in {"claimed", "accepted", "release"} => Claims(o)
       /\ pc[o] \in {"owned", "draining", "unlock"} => Claims(o) \/ kind[o] = "ignore"
       /\ pc[o] \in {"work", "touch", "write"} => kind[o] \in {"flash", "boot"}
       /\ pc[o] \in {"launch", "abort", "watch"} => kind[o] = "debug"
       /\ pc[o] = "lock" => kind[o] = "ignore"
  /\ (RunHolds \/ runPc \in {"observe", "tryLock"}) => cur \in Boards

(* busy is set from ClaimMark to ReleaseIdle, and by nobody else. *)
BusyExact ==
  /\ \A o \in Requests :
       /\ (Claims(o) /\ pc[o] \in {"owned", "draining", "work", "touch", "write",
                                   "launch", "abort", "watch", "release"})
            => busy[tgt[o]] = Activity(o)
       /\ pc[o] \in {"claimed", "accepted", "unlock"} => busy[tgt[o]] = NotBusy
       /\ (pc[o] \in {"owned", "draining"} /\ kind[o] = "ignore") => busy[tgt[o]] = NotBusy
  /\ \A b \in Boards : busy[b] # NotBusy => ctrl[b] \in Requests /\ tgt[ctrl[b]] = b /\ Holds(ctrl[b])

(* A server is published exactly while its request watches it. *)
ServerExact ==
  \A b \in Boards : ocdSrv[b] # None =>
    /\ ocdSrv[b] \in Requests
    /\ pc[ocdSrv[b]] = "watch"
    /\ tgt[ocdSrv[b]] = b

(* Someone has closed stop and waits for the pump of b. *)
Draining(b) ==
  \/ \E o \in Requests : pc[o] = "draining" /\ tgt[o] = b
  \/ runPc \in {"drain", "lastDrain"} /\ cur = b

(* A pump outlives attached only while its detach waits for it; a device   *)
(* without a pump is closed, and a Send that still has it knows no better. *)
PumpExact ==
  /\ \A b \in Boards :
       /\ attached[b] => pump[b] # "none" /\ ~stop[b]
       /\ (~attached[b] /\ pump[b] # "none") => Draining(b)
       /\ pump[b] = "none" => port[b] = "closed"
  /\ \A o \in Requests :
       /\ pc[o] = "draining" => ~attached[tgt[o]]
       /\ pc[o] \in OperationPcs
            => ~attached[tgt[o]] /\ pump[tgt[o]] = "none"
       /\ pc[o] = "send" => o \in closedDev \/ pump[tgt[o]] # "none"
  /\ runPc \in {"drain", "lastDrain"} => ~attached[cur]

ManagerInv ==
  /\ TypeOK
  /\ Shape
  /\ BoardsAreOwned
  /\ BusyExact
  /\ ServerExact
  /\ PumpExact
=============================================================================
