------------------------------ MODULE OcdServer ------------------------------
(***************************************************************************)
(* One OpenOCD process and the goroutines around it (ocd/server.go): Start *)
(* waiting for its GDB port, the goroutine that waits for its exit, and    *)
(* the calls of Stop, of which Start may make one itself.                  *)
(*                                                                         *)
(* OpenOCD leads a process group of its own. A process it spawned may      *)
(* outlive it, and keeps the output pipe open that cmd.Wait waits for.     *)
(***************************************************************************)
CONSTANTS
  Stoppers,  \* calls of Stop by StopDebug and shutdown
  Start      \* the call that Start makes when it gives up

ASSUME StartAssumption == Start \notin Stoppers

VARIABLES
  leader, child,  \* "none", "alive" or "dead"
  status,         \* how the leader exited: "none", "ok" or "error"
  foreign,        \* it runs as a user that we may not signal
  signal,         \* the strongest signal the group got: "none", "int", "kill"
  ready,          \* the buffered channel ready holds a port
  port,           \* Server.port is set
  stopping, exitErr, done, \* the other fields of Server; done is closed
  waitPc,         \* the goroutine of cmd.Wait
  startPc,        \* Start
  stopPc,         \* the calls of Stop
  said,           \* history: a port was reported before anyone asked to stop
  byUs            \* history: the leader died after our first signal

procVars == <<leader, child, status, foreign, signal>>
srvVars == <<port, stopping, exitErr, done>>
history == <<said, byUs>>
vars == <<procVars, ready, srvVars, waitPc, startPc, stopPc, history>>

Callers == Stoppers \cup {Start}

(* The types; only a Stop signals, and only a Start that succeeds has a    *)
(* port (ocd/server.go:125, 188).                                          *)
TypeOK ==
  /\ leader \in {"alive", "dead"}
  /\ child \in {"none", "alive", "dead"}
  /\ status \in {"none", "ok", "error"}
  /\ foreign \in BOOLEAN
  /\ signal \in {"none", "int", "kill"}
  /\ ready \in BOOLEAN /\ port \in BOOLEAN
  /\ stopping \in BOOLEAN /\ exitErr \in BOOLEAN /\ done \in BOOLEAN
  /\ waitPc \in {"wait", "record", "close", "over"}
  /\ startPc \in {"select", "served", "died", "stop", "failed"}
  /\ stopPc \in [Callers -> {"idle", "check", "int", "grace", "kill", "last", "join",
                             "nil", "error"}]
  /\ said \in BOOLEAN /\ byUs \in BOOLEAN
  /\ signal # "none" => stopping
  /\ port <=> startPc = "served"
  /\ done <=> waitPc = "over"

(* cmd.Start has succeeded. *)
Init ==
  /\ leader = "alive" /\ child = "none" /\ status = "none"
  /\ foreign \in BOOLEAN
  /\ signal = "none"
  /\ ready = FALSE
  /\ port = FALSE /\ stopping = FALSE /\ exitErr = FALSE /\ done = FALSE
  /\ waitPc = "wait"
  /\ startPc = "select"
  /\ stopPc = [c \in Callers |-> "idle"]
  /\ said = FALSE /\ byUs = FALSE

-----------------------------------------------------------------------------
(* OpenOCD. *)

(* It prints the line that parseGDBPort knows; a full channel is skipped. *)
Reports ==
  /\ leader = "alive"
  /\ ready' = TRUE
  /\ said' = (said \/ ~stopping)
  /\ UNCHANGED <<procVars, srvVars, waitPc, startPc, stopPc, byUs>>

Forks ==
  /\ leader = "alive" /\ child = "none"
  /\ child' = "alive"
  /\ UNCHANGED <<leader, status, foreign, signal, ready, srvVars, waitPc, startPc,
                 stopPc, history>>

LeaderExits ==
  /\ leader = "alive"
  /\ leader' = "dead"
  /\ status' \in {"ok", "error"}
  /\ signal = "kill" => status' = "error"
  /\ byUs' = (signal # "none")
  /\ UNCHANGED <<child, foreign, signal, ready, srvVars, waitPc, startPc, stopPc, said>>

ChildExits ==
  /\ child = "alive"
  /\ child' = "dead"
  /\ UNCHANGED <<leader, status, foreign, signal, ready, srvVars, waitPc, startPc,
                 stopPc, history>>

-----------------------------------------------------------------------------
(* The goroutine of cmd.Wait. *)

(* cmd.Wait has reaped OpenOCD and read its pipe to the end. *)
GroupIsGone == leader = "dead" /\ child # "alive"

WaitReturns ==
  /\ waitPc = "wait"
  /\ GroupIsGone
  /\ waitPc' = "record"
  /\ UNCHANGED <<procVars, ready, srvVars, startPc, stopPc, history>>

(* Mutant: an exit that was asked for counts as a failure. *)
RecordsAlways ==
  /\ waitPc = "record"
  /\ exitErr' = (status = "error")
  /\ waitPc' = "close"
  /\ UNCHANGED <<procVars, ready, port, stopping, done, startPc, stopPc, history>>

WaitRecords ==
  /\ waitPc = "record"
  /\ exitErr' = (status = "error" /\ ~stopping)
  /\ waitPc' = "close"
  /\ UNCHANGED <<procVars, ready, port, stopping, done, startPc, stopPc, history>>

WaitCloses ==
  /\ waitPc = "close"
  /\ done' = TRUE
  /\ waitPc' = "over"
  /\ UNCHANGED <<procVars, ready, port, stopping, exitErr, startPc, stopPc, history>>

-----------------------------------------------------------------------------
(* Start: one of the ready cases of its select, whichever comes first. *)

StartServes ==
  /\ startPc = "select"
  /\ ready
  /\ ready' = FALSE
  /\ port' = TRUE
  /\ startPc' = "served"
  /\ UNCHANGED <<procVars, stopping, exitErr, done, waitPc, stopPc, history>>

StartSeesExit ==
  /\ startPc = "select"
  /\ done
  /\ startPc' = "died"
  /\ UNCHANGED <<procVars, ready, srvVars, waitPc, stopPc, history>>

(* The context or startTimeout: Stop, whatever it answers, and fail. *)
StartGivesUp ==
  /\ startPc = "select"
  /\ startPc' = "stop"
  /\ UNCHANGED <<procVars, ready, srvVars, waitPc, stopPc, history>>

StartFails ==
  /\ startPc = "stop"
  /\ stopPc[Start] \in {"nil", "error"}
  /\ startPc' = "failed"
  /\ UNCHANGED <<procVars, ready, srvVars, waitPc, stopPc, history>>

-----------------------------------------------------------------------------
(* Stop. *)

At(c, p) == stopPc' = [stopPc EXCEPT ![c] = p]

MayStop(c) == IF c = Start THEN startPc = "stop" ELSE startPc = "served"

(* Mutant: nobody remembers that OpenOCD was asked to stop. *)
StopForgets(c) ==
  /\ stopPc[c] = "idle"
  /\ MayStop(c)
  /\ At(c, "check")
  /\ UNCHANGED <<procVars, ready, srvVars, waitPc, startPc, history>>

(* The first call does the work; later ones wait for the exit. *)
StopMarks(c) ==
  /\ stopPc[c] = "idle"
  /\ MayStop(c)
  /\ stopping' = TRUE
  /\ At(c, IF stopping THEN "join" ELSE "check")
  /\ UNCHANGED <<procVars, ready, port, exitErr, done, waitPc, startPc, history>>

StopChecks(c) ==
  /\ stopPc[c] = "check"
  /\ At(c, IF done THEN "nil" ELSE "int")
  /\ UNCHANGED <<procVars, ready, srvVars, waitPc, startPc, history>>

(* signalGroup reaches every process that is left. If OpenOCD may not be   *)
(* signalled, nor may it be killed on the spot.                            *)
StopInterrupts(c) ==
  /\ stopPc[c] = "int"
  /\ signal' = IF foreign THEN signal ELSE "int"
  /\ At(c, "grace")
  /\ UNCHANGED <<leader, child, status, foreign, ready, srvVars, waitPc, startPc, history>>

(* Mutant: the grace period is all the time OpenOCD gets to end. *)
GraceIsEnough(c) ==
  /\ stopPc[c] = "grace"
  /\ At(c, "nil")
  /\ UNCHANGED <<procVars, ready, srvVars, waitPc, startPc, history>>

(* The exit, or stopGrace, whichever comes first. *)
StopWaits(c) ==
  /\ stopPc[c] = "grace"
  /\ \/ done /\ At(c, "nil")
     \/ At(c, "kill")
  /\ UNCHANGED <<procVars, ready, srvVars, waitPc, startPc, history>>

(* Mutant: only OpenOCD itself is killed. *)
StopSpares(c) ==
  /\ stopPc[c] = "kill"
  /\ signal' = signal
  /\ At(c, IF foreign THEN "error" ELSE "last")
  /\ UNCHANGED <<leader, child, status, foreign, ready, srvVars, waitPc, startPc, history>>

(* Mutant: a Stop that could not kill may be tried again. *)
StopRetries(c) ==
  /\ stopPc[c] = "kill"
  /\ \/ ~foreign /\ signal' = "kill" /\ At(c, "last") /\ UNCHANGED stopping
     \/ foreign /\ UNCHANGED signal /\ At(c, "error") /\ stopping' = FALSE
  /\ UNCHANGED <<leader, child, status, foreign, ready, port, exitErr, done, waitPc,
                 startPc, history>>

(* A foreign OpenOCD refuses the signal; once it has exited, what is left  *)
(* of its group is not signalled, and that is no error.                    *)
StopKills(c) ==
  /\ stopPc[c] = "kill"
  /\ \/ ~foreign /\ signal' = "kill" /\ At(c, "last")
     \/ foreign /\ waitPc = "wait" /\ UNCHANGED signal /\ At(c, "error")
     \/ foreign /\ leader = "dead" /\ UNCHANGED signal /\ At(c, "last")
  /\ UNCHANGED <<leader, child, status, foreign, ready, srvVars, waitPc, startPc, history>>

StopReturns(c) ==
  /\ stopPc[c] \in {"last", "join"}
  /\ done
  /\ At(c, "nil")
  /\ UNCHANGED <<procVars, ready, srvVars, waitPc, startPc, history>>

StopStep(c) ==
  \/ StopMarks(c) \/ StopChecks(c) \/ StopInterrupts(c) \/ StopWaits(c)
  \/ StopKills(c) \/ StopReturns(c)

-----------------------------------------------------------------------------

OpenOcd == Reports \/ Forks \/ LeaderExits \/ ChildExits
Waiter == WaitReturns \/ WaitRecords \/ WaitCloses
StartStep == StartServes \/ StartSeesExit \/ StartGivesUp \/ StartFails

Next == OpenOcd \/ Waiter \/ StartStep \/ \E c \in Callers : StopStep(c)

Spec == Init /\ [][Next]_vars

(* Goroutines run on and timers fire; of OpenOCD and what it spawned, only *)
(* a process that got SIGKILL has to end. Nobody has to call Stop.         *)
Fairness ==
  /\ WF_vars(Waiter)
  /\ WF_vars(StartStep)
  /\ WF_vars(stopPc[Start] = "idle" /\ StopStep(Start))
  /\ \A c \in Callers : WF_vars(stopPc[c] # "idle" /\ StopStep(c))
  /\ WF_vars(signal = "kill" /\ LeaderExits)
  /\ WF_vars(signal = "kill" /\ ChildExits)

FairSpec == Spec /\ Fairness

-----------------------------------------------------------------------------
(* A Stop that answers nil, and a Start that fails, leave nothing behind   *)
(* that could keep the probe claimed (manager.go:745, ocd/server.go:102).  *)
NothingLeftBehind ==
  /\ \A c \in Callers : stopPc[c] = "nil" => leader = "dead" /\ child # "alive"
  /\ startPc \in {"died", "failed"} /\ ~foreign => leader = "dead" /\ child # "alive"

(* Err is nil after a requested Stop: an exit that our signal caused is    *)
(* never reported as a failure (ocd/server.go:168). Once done is closed, a *)
(* crash that nobody stopped is known to whoever was waiting for done, as  *)
(* watchDebug is.                                                          *)
ExitIsJudged ==
  /\ exitErr => ~byUs
  /\ (done /\ status = "error" /\ ~stopping) => exitErr

(* To its callers the server is an OcdSession. *)
procBar == IF done THEN "exited"
           ELSE IF stopping THEN "stopping"
           ELSE IF said THEN "up" ELSE "starting"
Session == INSTANCE OcdSession WITH proc <- procBar, ready <- said
IsSession == Session!Spec

(* A session that was asked to stop ends, and the calls return: SIGINT     *)
(* ignored, a spawned process in the way or a second Stop notwithstanding. *)
CallsReturn ==
  /\ startPc \in {"select", "stop"} /\ ~foreign ~> startPc \in {"served", "died", "failed"}
  /\ \A c \in Callers : stopPc[c] # "idle" /\ ~foreign ~> stopPc[c] = "nil"
=============================================================================
