------------------------------ MODULE Manager ------------------------------
(***************************************************************************)
(* The device manager (manager.go, debug.go): the discovery loop, the     *)
(* console pump of every attached board, and the requests of the HTTP     *)
(* layer that compete with both for a board.                              *)
(*                                                                        *)
(* A goroutine is a program counter. Run is the discovery loop; a request *)
(* is one call of Flash, EnterBootMode, SetIgnored, SetTargetOverride,    *)
(* StartDebug, StopDebug or Send, and the goroutine watchDebug that a     *)
(* StartDebug leaves behind continues in the slot of its request. A step  *)
(* is what the code does between two points where another goroutine can   *)
(* intervene: under one hold of md.mu, in one store transaction, in one   *)
(* channel operation. md.ctrl is held across steps and is a variable.     *)
(***************************************************************************)
EXTENDS Naturals, FiniteSets

CONSTANTS
  Boards,        \* board identities, stableID of discover.go
  Requests,      \* slots for the calls made by HTTP handlers, one call each
  Kinds,         \* the calls that are made
  DiskFaults,    \* may a store transaction, a scan or a log file fail?
  BusMoves       \* how boards come and go: see BoardLeaves and BoardReturns

AllKinds == {"flash", "boot", "ignore", "resume", "target", "debug", "stop", "send"}
Free == "free"
Run == "run"
None == "none"

ASSUME RequestAssumption == Requests \cap {Free, Run, None} = {}
ASSUME BoardAssumption == None \notin Boards
ASSUME KindAssumption == Kinds \subseteq AllKinds
ASSUME FaultAssumption == DiskFaults \in BOOLEAN
ASSUME BusAssumption == BusMoves \in {"never", "noticed", "any"}

VARIABLES
  bus,        \* what is really plugged in: "absent", "console" or "bootsel"
  ctxDone,    \* the context of main is cancelled
  recIgnored, \* DeviceRecord.Ignored in the store
  devices,    \* the keys of Manager.devices
  poked,      \* the buffer of Manager.poked, of capacity one
  presence, attached, ignored, busy, ctrl, ocdSrv, \* the fields of managed
  pump,       \* the pump goroutine: "none", "opening", "reading", "exited"
  stop,       \* the channel md.stop is closed
  port,       \* the port of md.dev: "closed", "open", "lost" (its tty is gone)
  others,     \* requests that hold the tty open through a device of their own
  runPc, todo, seen, cur, policy, mds, \* the locals of Run, reconcile, shutdown
  pc, kind, tgt,  \* where a request stands, what it does and to which board
  ref,        \* the OpenOCD session that StopDebug or shutdown is stopping
  closedDev,  \* Send calls whose device was closed after they looked it up
  proc, ready, \* the OpenOCD process of a StartDebug; its port was reported
  missed      \* history: a pass failed, or a claim was refused since the scan

envVars == <<bus, ctxDone>>
boardVars == <<presence, attached, ignored, busy, ctrl, ocdSrv>>
pumpVars == <<pump, stop, port, others, closedDev>>
runVars == <<runPc, todo, seen, cur, policy, mds>>
reqVars == <<pc, kind, tgt>>
ocdVars == <<ref, proc, ready>>
vars == <<envVars, recIgnored, devices, poked, boardVars, pumpVars, runVars,
          reqVars, ocdVars, missed>>

BusStates == {"absent", "console", "bootsel"}
Presences == {"Gone", "OnConsole", "OnBootsel"}
NotBusy == ""
Activities == {NotBusy, "flashing", "entering boot mode", "debugging"}
RunPcs == {"select", "scan", "board", "observe", "tryLock", "decide", "drain",
           "stopDebugs", "stopWait", "lock", "owned", "lastDrain", "stopped"}
ReqPcs == {"idle", "begin", "claimed", "accepted", "owned", "draining", "work",
           "touch", "write", "launch", "abort", "watch", "signal", "release",
           "unlock", "poke", "mirror", "lock", "await", "send", "done"}

TypeOK ==
  /\ bus \in [Boards -> BusStates]
  /\ ctxDone \in BOOLEAN
  /\ recIgnored \in [Boards -> BOOLEAN]
  /\ devices \subseteq Boards
  /\ poked \in BOOLEAN
  /\ presence \in [Boards -> Presences]
  /\ attached \in [Boards -> BOOLEAN]
  /\ ignored \in [Boards -> BOOLEAN]
  /\ busy \in [Boards -> Activities]
  /\ ctrl \in [Boards -> Requests \cup {Free, Run}]
  /\ ocdSrv \in [Boards -> Requests \cup {None}]
  /\ pump \in [Boards -> {"none", "opening", "reading", "exited"}]
  /\ stop \in [Boards -> BOOLEAN]
  /\ port \in [Boards -> {"closed", "open", "lost"}]
  /\ others \in [Boards -> SUBSET Requests]
  /\ closedDev \subseteq Requests
  /\ runPc \in RunPcs
  /\ todo \subseteq Boards
  /\ seen \in [Boards -> BusStates]
  /\ cur \in Boards \cup {None}
  /\ policy \in BOOLEAN
  /\ mds \subseteq Boards
  /\ pc \in [Requests -> ReqPcs]
  /\ kind \in [Requests -> AllKinds \cup {None}]
  /\ tgt \in [Requests -> Boards \cup {None}]
  /\ ref \in [Requests \cup {Run} -> Requests \cup {None}]
  /\ proc \in [Requests -> {"none", "starting", "up", "stopping", "exited"}]
  /\ ready \subseteq Requests
  /\ missed \in BOOLEAN

(* NewManager over an empty or earlier store: nothing is tracked yet. *)
Init ==
  /\ bus \in [Boards -> BusStates]
  /\ ctxDone = FALSE
  /\ recIgnored \in [Boards -> BOOLEAN]
  /\ devices = {}
  /\ poked = FALSE
  /\ presence = [b \in Boards |-> "Gone"]
  /\ attached = [b \in Boards |-> FALSE]
  /\ ignored = [b \in Boards |-> FALSE]
  /\ busy = [b \in Boards |-> NotBusy]
  /\ ctrl = [b \in Boards |-> Free]
  /\ ocdSrv = [b \in Boards |-> None]
  /\ pump = [b \in Boards |-> "none"]
  /\ stop = [b \in Boards |-> FALSE]
  /\ port = [b \in Boards |-> "closed"]
  /\ others = [b \in Boards |-> {}]
  /\ closedDev = {}
  /\ runPc = "scan"
  /\ todo = {}
  /\ seen = [b \in Boards |-> "absent"]
  /\ cur = None
  /\ policy = FALSE
  /\ mds = {}
  /\ pc = [o \in Requests |-> "idle"]
  /\ kind = [o \in Requests |-> None]
  /\ tgt = [o \in Requests |-> None]
  /\ ref = [t \in Requests \cup {Run} |-> None]
  /\ proc = [o \in Requests |-> "none"]
  /\ ready = {}
  /\ missed = FALSE

-----------------------------------------------------------------------------
(* The bus, and the cancellation of main's context. *)

(* A board resets or is unplugged: every open handle on its tty goes dead. *)
BoardLeaves(b) ==
  /\ BusMoves # "never"
  /\ bus[b] # "absent"
  /\ bus' = [bus EXCEPT ![b] = "absent"]
  /\ port' = [port EXCEPT ![b] = IF @ = "open" THEN "lost" ELSE @]
  /\ others' = [others EXCEPT ![b] = {}]
  /\ UNCHANGED <<ctxDone, recIgnored, devices, poked, boardVars, pump, stop,
                 closedDev, runVars, reqVars, ocdVars, missed>>

(* It enumerates again: at any time, or only after a pass noticed that it  *)
(* was gone and let go of it.                                              *)
BoardReturns(b, s) ==
  /\ bus[b] = "absent"
  /\ \/ BusMoves = "any"
     \/ BusMoves = "noticed" /\ presence[b] = "Gone" /\ ~attached[b]
  /\ bus' = [bus EXCEPT ![b] = s]
  /\ UNCHANGED <<ctxDone, recIgnored, devices, poked, boardVars, pumpVars,
                 runVars, reqVars, ocdVars, missed>>

Cancel ==
  /\ ~ctxDone
  /\ ctxDone' = TRUE
  /\ UNCHANGED <<bus, recIgnored, devices, poked, boardVars, pumpVars,
                 runVars, reqVars, ocdVars, missed>>

-----------------------------------------------------------------------------
(* The console pump of board b and the port it reads. *)

PortBusy(b) == port[b] = "open" \/ others[b] # {}

(* The first Read opens the console; it fails if the tty is gone, or held  *)
(* by someone else (serial.Open asks for exclusive access). A Send may     *)
(* have opened the port of this device before, and stop may have been      *)
(* closed after the pump looked at it.                                     *)
PumpOpens(b) ==
  /\ pump[b] = "opening"
  /\ IF port[b] = "open" \/ (port[b] = "closed" /\ bus[b] = "console" /\ ~PortBusy(b))
       THEN /\ pump' = [pump EXCEPT ![b] = "reading"]
            /\ port' = [port EXCEPT ![b] = "open"]
       ELSE /\ pump' = [pump EXCEPT ![b] = "exited"]
            /\ UNCHANGED port
  /\ UNCHANGED <<envVars, recIgnored, devices, poked, boardVars, stop, others,
                 closedDev, runVars, reqVars, ocdVars, missed>>

(* A read error, or a log file that does not open, ends the pump. Nothing  *)
(* but the channel pumpDone tells the manager.                             *)
PumpFails(b) ==
  /\ \/ pump[b] = "reading" /\ port[b] = "lost"
     \/ pump[b] \in {"opening", "reading"} /\ DiskFaults
  /\ pump' = [pump EXCEPT ![b] = "exited"]
  /\ UNCHANGED <<envVars, recIgnored, devices, poked, boardVars, stop, port,
                 others, closedDev, runVars, reqVars, ocdVars, missed>>

PumpStops(b) ==
  /\ pump[b] \in {"opening", "reading"}
  /\ stop[b]
  /\ pump' = [pump EXCEPT ![b] = "exited"]
  /\ UNCHANGED <<envVars, recIgnored, devices, poked, boardVars, stop, port,
                 others, closedDev, runVars, reqVars, ocdVars, missed>>

(* detachLocked up to the wait on pumpDone. *)
DetachBegin(b) ==
  /\ attached' = [attached EXCEPT ![b] = FALSE]
  /\ stop' = [stop EXCEPT ![b] = TRUE]

(* Mutant: the port stays open behind the detach. *)
DetachEndLeavesPort(b) ==
  /\ pump[b] = "exited"
  /\ pump' = [pump EXCEPT ![b] = "none"]
  /\ stop' = [stop EXCEPT ![b] = FALSE]
  /\ closedDev' = closedDev \cup {o \in Requests : pc[o] = "send" /\ tgt[o] = b}
  /\ UNCHANGED port

(* detachLocked from pumpDone on: dev.Close. The closed channel is of no   *)
(* use to anyone now. The end of the log session is left out: it touches   *)
(* nothing of this module.                                                 *)
DetachEnd(b) ==
  /\ pump[b] = "exited"
  /\ pump' = [pump EXCEPT ![b] = "none"]
  /\ stop' = [stop EXCEPT ![b] = FALSE]
  /\ port' = [port EXCEPT ![b] = "closed"]
  /\ closedDev' = closedDev \cup {o \in Requests : pc[o] = "send" /\ tgt[o] = b}

-----------------------------------------------------------------------------
(* The discovery loop: Run, reconcile and converge. *)

(* Mutant: the stored policy is not asked. *)
wantWithoutPolicy(b) == seen[b] = "console"

(* The attach decision, made here only: on the bus as a console, and not   *)
(* held back by policy.                                                    *)
wantAttached(b) == seen[b] = "console" /\ ~policy

(* The ticker, or a poke, starts a pass. *)
Tick ==
  /\ runPc = "select"
  /\ runPc' = "scan"
  /\ UNCHANGED <<envVars, recIgnored, devices, poked, boardVars, pumpVars, todo,
                 seen, cur, policy, mds, reqVars, ocdVars, missed>>

Poked ==
  /\ runPc = "select"
  /\ poked
  /\ poked' = FALSE
  /\ runPc' = "scan"
  /\ UNCHANGED <<envVars, recIgnored, devices, boardVars, pumpVars, todo, seen,
                 cur, policy, mds, reqVars, ocdVars, missed>>

Scan ==
  /\ runPc = "scan"
  /\ seen' = bus
  /\ todo' = devices \cup {b \in Boards : bus[b] # "absent"}
  /\ runPc' = "board"
  /\ missed' = FALSE
  /\ UNCHANGED <<envVars, recIgnored, devices, poked, boardVars, pumpVars, cur,
                 policy, mds, reqVars, ocdVars>>

ScanFails ==
  /\ runPc = "scan"
  /\ DiskFaults
  /\ runPc' = "select"
  /\ missed' = TRUE
  /\ UNCHANGED <<envVars, recIgnored, devices, poked, boardVars, pumpVars, todo,
                 seen, cur, policy, mds, reqVars, ocdVars>>

(* The body of reconcile's loop up to the policy it goes by: the record of *)
(* a board on the bus, the mirror of one that is not. A record that cannot *)
(* be read counts as one that does not say ignored: that it cannot matters *)
(* if it does.                                                             *)
ReadPolicy(b) ==
  /\ runPc = "board"
  /\ b \in todo
  /\ todo' = todo \ {b}
  /\ cur' = b
  /\ devices' = devices \cup {b}
  /\ \/ /\ policy' = IF seen[b] # "absent" THEN recIgnored[b] ELSE ignored[b]
        /\ UNCHANGED missed
     \/ /\ DiskFaults /\ seen[b] # "absent" /\ recIgnored[b]
        /\ policy' = FALSE
        /\ missed' = TRUE
  /\ runPc' = "observe"
  /\ UNCHANGED <<envVars, recIgnored, poked, boardVars, pumpVars, seen, mds,
                 reqVars, ocdVars>>

(* Mutant: the bus state is passed on as it is. *)
RawPresence(s) == s

PresenceOf(s) == IF s = "absent" THEN "Gone"
                 ELSE IF s = "console" THEN "OnConsole" ELSE "OnBootsel"

(* Mutant: the mirror is not refreshed. *)
ObserveForgets ==
  /\ runPc = "observe"
  /\ UNCHANGED ignored
  /\ presence' = [presence EXCEPT ![cur] = PresenceOf(seen[cur])]
  /\ runPc' = "tryLock"
  /\ UNCHANGED <<envVars, recIgnored, devices, poked, attached, busy, ctrl,
                 ocdSrv, pumpVars, todo, seen, cur, policy, mds, reqVars,
                 ocdVars, missed>>

Observe ==
  /\ runPc = "observe"
  /\ ignored' = [ignored EXCEPT ![cur] = policy]
  /\ presence' = [presence EXCEPT ![cur] = PresenceOf(seen[cur])]
  /\ runPc' = "tryLock"
  /\ UNCHANGED <<envVars, recIgnored, devices, poked, attached, busy, ctrl,
                 ocdSrv, pumpVars, todo, seen, cur, policy, mds, reqVars,
                 ocdVars, missed>>

(* A board that someone else owns is left for the next pass. *)
TryLock ==
  /\ runPc = "tryLock"
  /\ IF ctrl[cur] = Free
       THEN ctrl' = [ctrl EXCEPT ![cur] = Run] /\ runPc' = "decide"
       ELSE runPc' = "board" /\ UNCHANGED ctrl
  /\ UNCHANGED <<envVars, recIgnored, devices, poked, presence, attached,
                 ignored, busy, ocdSrv, pumpVars, todo, seen, cur, policy, mds,
                 reqVars, ocdVars, missed>>

(* Mutant: the pump is given the closed stop channel of the one before it. *)
AttachWithOldStop ==
  /\ runPc = "decide"
  /\ wantAttached(cur) /\ ~attached[cur]
  /\ attached' = [attached EXCEPT ![cur] = TRUE]
  /\ pump' = [pump EXCEPT ![cur] = "opening"]
  /\ stop' = [stop EXCEPT ![cur] = TRUE]
  /\ ctrl' = [ctrl EXCEPT ![cur] = Free]
  /\ runPc' = "board"
  /\ UNCHANGED <<envVars, recIgnored, devices, poked, presence, ignored, busy,
                 ocdSrv, port, others, closedDev, todo, seen, cur, policy,
                 mds, reqVars, ocdVars, missed>>

(* attachLocked, and the deferred Unlock of converge. *)
Attach ==
  /\ runPc = "decide"
  /\ wantAttached(cur) /\ ~attached[cur]
  /\ attached' = [attached EXCEPT ![cur] = TRUE]
  /\ pump' = [pump EXCEPT ![cur] = "opening"]
  /\ stop' = [stop EXCEPT ![cur] = FALSE]
  /\ ctrl' = [ctrl EXCEPT ![cur] = Free]
  /\ runPc' = "board"
  /\ UNCHANGED <<envVars, recIgnored, devices, poked, presence, ignored, busy,
                 ocdSrv, port, others, closedDev, todo, seen, cur, policy,
                 mds, reqVars, ocdVars, missed>>

(* SessionStart returns an error. *)
AttachFails ==
  /\ runPc = "decide"
  /\ wantAttached(cur) /\ ~attached[cur]
  /\ DiskFaults
  /\ ctrl' = [ctrl EXCEPT ![cur] = Free]
  /\ runPc' = "board"
  /\ missed' = TRUE
  /\ UNCHANGED <<envVars, recIgnored, devices, poked, presence, attached,
                 ignored, busy, ocdSrv, pumpVars, todo, seen, cur, policy, mds,
                 reqVars, ocdVars>>

Keep ==
  /\ runPc = "decide"
  /\ wantAttached(cur) <=> attached[cur]
  /\ ctrl' = [ctrl EXCEPT ![cur] = Free]
  /\ runPc' = "board"
  /\ UNCHANGED <<envVars, recIgnored, devices, poked, presence, attached,
                 ignored, busy, ocdSrv, pumpVars, todo, seen, cur, policy, mds,
                 reqVars, ocdVars, missed>>

(* Mutant: converge does not wait for the pump it stopped. *)
LetGoAtOnce ==
  /\ runPc = "decide"
  /\ ~wantAttached(cur) /\ attached[cur]
  /\ DetachBegin(cur)
  /\ runPc' = "board"
  /\ ctrl' = [ctrl EXCEPT ![cur] = Free]
  /\ UNCHANGED <<envVars, recIgnored, devices, poked, presence, ignored, busy,
                 ocdSrv, pump, port, others, closedDev, todo, seen, cur,
                 policy, mds, reqVars, ocdVars, missed>>

LetGo ==
  /\ runPc = "decide"
  /\ ~wantAttached(cur) /\ attached[cur]
  /\ DetachBegin(cur)
  /\ runPc' = "drain"
  /\ UNCHANGED <<envVars, recIgnored, devices, poked, presence, ignored, busy,
                 ctrl, ocdSrv, pump, port, others, closedDev, todo, seen, cur,
                 policy, mds, reqVars, ocdVars, missed>>

(* The pump is gone: close the port and unlock, in converge or shutdown. *)
Drained ==
  /\ runPc \in {"drain", "lastDrain"}
  /\ DetachEnd(cur)
  /\ ctrl' = [ctrl EXCEPT ![cur] = Free]
  /\ runPc' = IF runPc = "drain" THEN "board" ELSE "lock"
  /\ UNCHANGED <<envVars, recIgnored, devices, poked, presence, attached,
                 ignored, busy, ocdSrv, others, todo, seen, cur, policy, mds,
                 reqVars, ocdVars, missed>>

PassEnds ==
  /\ runPc = "board"
  /\ todo = {}
  /\ runPc' = "select"
  /\ cur' = None
  /\ policy' = FALSE
  /\ seen' = [b \in Boards |-> "absent"]
  /\ UNCHANGED <<envVars, recIgnored, devices, poked, boardVars, pumpVars, todo,
                 mds, reqVars, ocdVars, missed>>

-----------------------------------------------------------------------------
(* shutdown: end the debug sessions it can see, then detach every board. *)

Shutdown ==
  /\ runPc = "select"
  /\ ctxDone
  /\ mds' = devices
  /\ todo' = devices
  /\ runPc' = "stopDebugs"
  /\ UNCHANGED <<envVars, recIgnored, devices, poked, boardVars, pumpVars, seen,
                 cur, policy, reqVars, ocdVars, missed>>

(* Server.Stop signals a process that is still running; by SIGKILL at the  *)
(* latest it then exits. *)
Signalled(o) == [proc EXCEPT ![o] = IF @ \in {"starting", "up"} THEN "stopping" ELSE @]

(* Mutant: shutdown goes straight on to the detaches. *)
ShutdownSkips(b) ==
  /\ runPc = "stopDebugs"
  /\ b \in todo
  /\ todo' = todo \ {b}
  /\ UNCHANGED <<envVars, recIgnored, devices, poked, boardVars, pumpVars, runPc,
                 seen, cur, policy, mds, reqVars, ocdVars, missed>>

ShutdownStops(b) ==
  /\ runPc = "stopDebugs"
  /\ b \in todo
  /\ todo' = todo \ {b}
  /\ IF ocdSrv[b] = None
       THEN UNCHANGED <<runPc, ref, proc>>
       ELSE /\ ref' = [ref EXCEPT ![Run] = ocdSrv[b]]
            /\ proc' = Signalled(ocdSrv[b])
            /\ runPc' = "stopWait"
  /\ UNCHANGED <<envVars, recIgnored, devices, poked, boardVars, pumpVars, seen,
                 cur, policy, mds, reqVars, ready, missed>>

ShutdownWaited ==
  /\ runPc = "stopWait"
  /\ proc[ref[Run]] = "exited"
  /\ ref' = [ref EXCEPT ![Run] = None]
  /\ runPc' = "stopDebugs"
  /\ UNCHANGED <<envVars, recIgnored, devices, poked, boardVars, pumpVars, todo,
                 seen, cur, policy, mds, reqVars, proc, ready, missed>>

ShutdownStopped ==
  /\ runPc = "stopDebugs"
  /\ todo = {}
  /\ todo' = mds
  /\ runPc' = "lock"
  /\ UNCHANGED <<envVars, recIgnored, devices, poked, boardVars, pumpVars, seen,
                 cur, policy, mds, reqVars, ocdVars, missed>>

(* detach waits for md.ctrl, unlike converge. *)
ShutdownLocks(b) ==
  /\ runPc = "lock"
  /\ b \in todo
  /\ ctrl[b] = Free
  /\ ctrl' = [ctrl EXCEPT ![b] = Run]
  /\ todo' = todo \ {b}
  /\ cur' = b
  /\ runPc' = "owned"
  /\ UNCHANGED <<envVars, recIgnored, devices, poked, presence, attached,
                 ignored, busy, ocdSrv, pumpVars, seen, policy, mds, reqVars,
                 ocdVars, missed>>

(* Mutant: shutdown does not wait for the pump either. *)
ShutdownLeaves ==
  /\ runPc = "owned"
  /\ attached' = [attached EXCEPT ![cur] = FALSE]
  /\ stop' = [stop EXCEPT ![cur] = TRUE]
  /\ ctrl' = [ctrl EXCEPT ![cur] = Free]
  /\ runPc' = "lock"
  /\ UNCHANGED <<envVars, recIgnored, devices, poked, presence, ignored, busy,
                 ocdSrv, pump, port, others, closedDev, todo, seen, cur, policy,
                 mds, reqVars, ocdVars, missed>>

ShutdownDetaches ==
  /\ runPc = "owned"
  /\ IF attached[cur]
       THEN DetachBegin(cur) /\ runPc' = "lastDrain" /\ UNCHANGED ctrl
       ELSE /\ ctrl' = [ctrl EXCEPT ![cur] = Free]
            /\ runPc' = "lock"
            /\ UNCHANGED <<attached, stop>>
  /\ UNCHANGED <<envVars, recIgnored, devices, poked, presence, ignored, busy,
                 ocdSrv, pump, port, others, closedDev, todo, seen, cur, policy,
                 mds, reqVars, ocdVars, missed>>

ShutdownEnds ==
  /\ runPc = "lock"
  /\ todo = {}
  /\ runPc' = "stopped"
  /\ UNCHANGED <<envVars, recIgnored, devices, poked, boardVars, pumpVars, todo,
                 seen, cur, policy, mds, reqVars, ocdVars, missed>>

-----------------------------------------------------------------------------
(* The requests. *)

Goto(o, p) == pc' = [pc EXCEPT ![o] = p]

(* A handler calls the manager, at any time: httpSrv.Shutdown lets running *)
(* handlers finish, and a flash runs in a goroutine of its own.            *)
Begin(o, k, b) ==
  /\ pc[o] = "idle"
  /\ k \in Kinds
  /\ Goto(o, "begin")
  /\ kind' = [kind EXCEPT ![o] = k]
  /\ tgt' = [tgt EXCEPT ![o] = b]
  /\ UNCHANGED <<envVars, recIgnored, devices, poked, boardVars, pumpVars,
                 runVars, ocdVars, missed>>

Claims(o) == kind[o] \in {"flash", "boot", "debug"}
ActivityOf(k) == IF k = "flash" THEN "flashing"
                 ELSE IF k = "boot" THEN "entering boot mode" ELSE "debugging"
Activity(o) == ActivityOf(kind[o])

(* Mutant: the board is taken from whoever owns it. *)
ClaimAnyway(o) ==
  /\ pc[o] = "begin"
  /\ Claims(o)
  /\ IF tgt[o] \in devices
       THEN ctrl' = [ctrl EXCEPT ![tgt[o]] = o] /\ Goto(o, "claimed")
       ELSE Goto(o, "done") /\ UNCHANGED ctrl
  /\ UNCHANGED <<envVars, recIgnored, devices, poked, presence, attached,
                 ignored, busy, ocdSrv, pumpVars, runVars, kind, tgt, ocdVars,
                 missed>>

(* claim: an unknown board, or one that someone owns, is refused at once. *)
ClaimLock(o) ==
  /\ pc[o] = "begin"
  /\ Claims(o)
  /\ IF tgt[o] \in devices /\ ctrl[tgt[o]] = Free
       THEN ctrl' = [ctrl EXCEPT ![tgt[o]] = o] /\ Goto(o, "claimed")
       ELSE Goto(o, "done") /\ UNCHANGED ctrl
  /\ UNCHANGED <<envVars, recIgnored, devices, poked, presence, attached,
                 ignored, busy, ocdSrv, pumpVars, runVars, kind, tgt, ocdVars,
                 missed>>

Refused(o) ==
  \/ ignored[tgt[o]] /\ kind[o] # "debug"
  \/ presence[tgt[o]] = "Gone"

(* The snapshot of the board decides; a refused claim unlocks without a poke. *)
ClaimCheck(o) ==
  /\ pc[o] = "claimed"
  /\ IF Refused(o)
       THEN /\ ctrl' = [ctrl EXCEPT ![tgt[o]] = Free]
            /\ missed' = TRUE
            /\ Goto(o, "done")
       ELSE Goto(o, "accepted") /\ UNCHANGED <<ctrl, missed>>
  /\ UNCHANGED <<envVars, recIgnored, devices, poked, presence, attached,
                 ignored, busy, ocdSrv, pumpVars, runVars, kind, tgt, ocdVars>>

ClaimMark(o) ==
  /\ pc[o] = "accepted"
  /\ busy' = [busy EXCEPT ![tgt[o]] = Activity(o)]
  /\ Goto(o, "owned")
  /\ UNCHANGED <<envVars, recIgnored, devices, poked, presence, attached,
                 ignored, ctrl, ocdSrv, pumpVars, runVars, kind, tgt, ocdVars,
                 missed>>

(* Mutant: the activity is not cleared. *)
ReleaseStaysBusy(o) ==
  /\ pc[o] = "release"
  /\ UNCHANGED busy
  /\ Goto(o, "unlock")
  /\ UNCHANGED <<envVars, recIgnored, devices, poked, presence, attached,
                 ignored, ctrl, ocdSrv, pumpVars, runVars, kind, tgt, ocdVars,
                 missed>>

(* Mutant: release takes the mutex that the operation holds. *)
ReleaseRelocks(o) ==
  /\ pc[o] = "release"
  /\ ctrl[tgt[o]] = Free
  /\ busy' = [busy EXCEPT ![tgt[o]] = NotBusy]
  /\ Goto(o, "unlock")
  /\ UNCHANGED <<envVars, recIgnored, devices, poked, presence, attached,
                 ignored, ctrl, ocdSrv, pumpVars, runVars, kind, tgt, ocdVars,
                 missed>>

(* release, one step per effect that another goroutine can see. *)
ReleaseIdle(o) ==
  /\ pc[o] = "release"
  /\ busy' = [busy EXCEPT ![tgt[o]] = NotBusy]
  /\ Goto(o, "unlock")
  /\ UNCHANGED <<envVars, recIgnored, devices, poked, presence, attached,
                 ignored, ctrl, ocdSrv, pumpVars, runVars, kind, tgt, ocdVars,
                 missed>>

Unlock(o) ==
  /\ pc[o] = "unlock"
  /\ ctrl' = [ctrl EXCEPT ![tgt[o]] = Free]
  /\ Goto(o, "poke")
  /\ UNCHANGED <<envVars, recIgnored, devices, poked, presence, attached,
                 ignored, busy, ocdSrv, pumpVars, runVars, kind, tgt, ocdVars,
                 missed>>

Poke(o) ==
  /\ pc[o] = "poke"
  /\ poked' = TRUE
  /\ Goto(o, "done")
  /\ UNCHANGED <<envVars, recIgnored, devices, boardVars, pumpVars, runVars,
                 kind, tgt, ocdVars, missed>>

(* What follows detachLocked in the caller. *)
AfterDetach(o) == IF kind[o] = "ignore" THEN "unlock"
                  ELSE IF kind[o] = "debug" THEN "launch" ELSE "work"

(* StartDebug installs its ring and starts the process; the others go on. *)
Launched(o) == [proc EXCEPT ![o] = IF kind[o] = "debug" THEN "starting" ELSE @]

(* Mutant: the operation does not wait for the pump it stopped. *)
DetachAtOnce(o) ==
  /\ pc[o] = "owned"
  /\ DetachBegin(tgt[o])
  /\ Goto(o, AfterDetach(o))
  /\ proc' = Launched(o)
  /\ UNCHANGED <<envVars, recIgnored, devices, poked, presence, ignored, busy,
                 ctrl, ocdSrv, pump, port, others, closedDev, runVars, kind, tgt,
                 ref, ready, missed>>

Detach(o) ==
  /\ pc[o] = "owned"
  /\ IF attached[tgt[o]]
       THEN DetachBegin(tgt[o]) /\ Goto(o, "draining") /\ UNCHANGED proc
       ELSE Goto(o, AfterDetach(o)) /\ proc' = Launched(o) /\ UNCHANGED <<attached, stop>>
  /\ UNCHANGED <<envVars, recIgnored, devices, poked, presence, ignored, busy,
                 ctrl, ocdSrv, pump, port, others, closedDev, runVars, kind, tgt,
                 ref, ready, missed>>

Detached(o) ==
  /\ pc[o] = "draining"
  /\ DetachEnd(tgt[o])
  /\ Goto(o, AfterDetach(o))
  /\ proc' = Launched(o)
  /\ UNCHANGED <<envVars, recIgnored, devices, poked, boardVars, others, runVars,
                 kind, tgt, ref, ready, missed>>

-----------------------------------------------------------------------------
(* Flash and EnterBootMode on a device of their own. *)

(* The 1200-baud touch, skipped when some board is in BOOTSEL already or   *)
(* the port does not open.                                                 *)
Touch(o) ==
  /\ pc[o] = "work"
  /\ IF (\A b \in Boards : bus[b] # "bootsel") /\ bus[tgt[o]] = "console" /\ ~PortBusy(tgt[o])
       THEN others' = [others EXCEPT ![tgt[o]] = @ \cup {o}] /\ Goto(o, "touch")
       ELSE Goto(o, "write") /\ UNCHANGED others
  /\ UNCHANGED <<envVars, recIgnored, devices, poked, boardVars, pump, stop, port,
                 closedDev, runVars, kind, tgt, ocdVars, missed>>

TouchEnds(o) ==
  /\ pc[o] = "touch"
  /\ others' = [others EXCEPT ![tgt[o]] = @ \ {o}]
  /\ Goto(o, "write")
  /\ UNCHANGED <<envVars, recIgnored, devices, poked, boardVars, pump, stop, port,
                 closedDev, runVars, kind, tgt, ocdVars, missed>>

(* The copy to the BOOTSEL volume ends, well or badly, and the deferred    *)
(* release runs. Which volume it went to is left out.                      *)
WorkEnds(o) ==
  /\ pc[o] = "write"
  /\ Goto(o, "release")
  /\ UNCHANGED <<envVars, recIgnored, devices, poked, boardVars, pumpVars,
                 runVars, kind, tgt, ocdVars, missed>>

-----------------------------------------------------------------------------
(* StartDebug, watchDebug and StopDebug. *)

(* No usable configuration or no free port: fail before the detach. *)
DebugFails(o) ==
  /\ pc[o] = "owned"
  /\ kind[o] = "debug"
  /\ Goto(o, "release")
  /\ UNCHANGED <<envVars, recIgnored, devices, poked, boardVars, pumpVars,
                 runVars, kind, tgt, ocdVars, missed>>

(* OpenOCD reports its GDB port. *)
OcdListens(o) ==
  /\ proc[o] = "starting"
  /\ proc' = [proc EXCEPT ![o] = "up"]
  /\ ready' = ready \cup {o}
  /\ UNCHANGED <<envVars, recIgnored, devices, poked, boardVars, pumpVars,
                 runVars, reqVars, ref, missed>>

OcdExits(o) ==
  /\ proc[o] \in {"starting", "up", "stopping"}
  /\ proc' = [proc EXCEPT ![o] = "exited"]
  /\ UNCHANGED <<envVars, recIgnored, devices, poked, boardVars, pumpVars,
                 runVars, reqVars, ref, ready, missed>>

(* ocd.Start returns the server: the claim stays, watchDebug takes over. *)
DebugStarts(o) ==
  /\ pc[o] = "launch"
  /\ o \in ready
  /\ ready' = ready \ {o}
  /\ ocdSrv' = [ocdSrv EXCEPT ![tgt[o]] = o]
  /\ Goto(o, "watch")
  /\ UNCHANGED <<envVars, recIgnored, devices, poked, presence, attached,
                 ignored, busy, ctrl, pumpVars, runVars, kind, tgt, ref, proc,
                 missed>>

(* It died before it listened, which needs no Stop. *)
DebugDies(o) ==
  /\ pc[o] = "launch"
  /\ proc[o] = "exited"
  /\ Goto(o, "release")
  /\ UNCHANGED <<envVars, recIgnored, devices, poked, boardVars, pumpVars,
                 runVars, kind, tgt, ocdVars, missed>>

(* The request's context or startTimeout ends the wait: Stop, then fail. *)
DebugTimesOut(o) ==
  /\ pc[o] = "launch"
  /\ proc' = Signalled(o)
  /\ Goto(o, "abort")
  /\ UNCHANGED <<envVars, recIgnored, devices, poked, boardVars, pumpVars,
                 runVars, kind, tgt, ref, ready, missed>>

DebugAborted(o) ==
  /\ pc[o] = "abort"
  /\ proc[o] = "exited"
  /\ Goto(o, "release")
  /\ UNCHANGED <<envVars, recIgnored, devices, poked, boardVars, pumpVars,
                 runVars, kind, tgt, ocdVars, missed>>

(* Mutant: the ended server stays published. *)
SessionEndsSilently(o) ==
  /\ pc[o] = "watch"
  /\ proc[o] = "exited"
  /\ UNCHANGED ocdSrv
  /\ Goto(o, "release")
  /\ UNCHANGED <<envVars, recIgnored, devices, poked, presence, attached,
                 ignored, busy, ctrl, pumpVars, runVars, kind, tgt, ocdVars,
                 missed>>

(* watchDebug: the one teardown, of a stopped and of a crashed session. *)
SessionEnds(o) ==
  /\ pc[o] = "watch"
  /\ proc[o] = "exited"
  /\ ocdSrv' = [ocdSrv EXCEPT ![tgt[o]] = IF @ = o THEN None ELSE @]
  /\ Goto(o, "release")
  /\ UNCHANGED <<envVars, recIgnored, devices, poked, presence, attached,
                 ignored, busy, ctrl, pumpVars, runVars, kind, tgt, ocdVars,
                 missed>>

(* StopDebug: no session is an error, otherwise Server.Stop. *)
StopDebug(o) ==
  /\ pc[o] = "begin"
  /\ kind[o] = "stop"
  /\ IF ocdSrv[tgt[o]] = None
       THEN Goto(o, "done") /\ UNCHANGED <<ref, proc>>
       ELSE /\ ref' = [ref EXCEPT ![o] = ocdSrv[tgt[o]]]
            /\ Goto(o, "signal")
            /\ UNCHANGED proc
  /\ UNCHANGED <<envVars, recIgnored, devices, poked, boardVars, pumpVars,
                 runVars, kind, tgt, ready, missed>>

StopSignals(o) ==
  /\ pc[o] = "signal"
  /\ proc' = Signalled(ref[o])
  /\ Goto(o, "await")
  /\ UNCHANGED <<envVars, recIgnored, devices, poked, boardVars, pumpVars,
                 runVars, kind, tgt, ref, ready, missed>>

StopReturns(o) ==
  /\ pc[o] = "await"
  /\ proc[ref[o]] = "exited"
  /\ ref' = [ref EXCEPT ![o] = None]
  /\ Goto(o, "done")
  /\ UNCHANGED <<envVars, recIgnored, devices, poked, boardVars, pumpVars,
                 runVars, kind, tgt, proc, ready, missed>>

-----------------------------------------------------------------------------
(* SetIgnored, SetTargetOverride and Send. *)

SetRecord(o) ==
  /\ pc[o] = "begin"
  /\ kind[o] \in {"ignore", "resume"}
  /\ recIgnored' = [recIgnored EXCEPT ![tgt[o]] = kind[o] = "ignore"]
  /\ Goto(o, "mirror")
  /\ UNCHANGED <<envVars, devices, poked, boardVars, pumpVars, runVars, kind,
                 tgt, ocdVars, missed>>

(* Mutant: a board that is reclaimed waits for the next tick. *)
MirrorSilently(o) ==
  /\ pc[o] = "mirror"
  /\ devices' = devices \cup {tgt[o]}
  /\ ignored' = [ignored EXCEPT ![tgt[o]] = kind[o] = "ignore"]
  /\ Goto(o, IF kind[o] = "ignore" THEN "lock" ELSE "done")
  /\ UNCHANGED <<envVars, recIgnored, poked, presence, attached, busy, ctrl,
                 ocdSrv, pumpVars, runVars, kind, tgt, ocdVars, missed>>

SetMirror(o) ==
  /\ pc[o] = "mirror"
  /\ devices' = devices \cup {tgt[o]}
  /\ ignored' = [ignored EXCEPT ![tgt[o]] = kind[o] = "ignore"]
  /\ Goto(o, IF kind[o] = "ignore" THEN "lock" ELSE "poke")
  /\ UNCHANGED <<envVars, recIgnored, poked, presence, attached, busy, ctrl,
                 ocdSrv, pumpVars, runVars, kind, tgt, ocdVars, missed>>

(* The store transaction of a setting fails, and the call with it. *)
SettingFails(o) ==
  /\ pc[o] = "begin"
  /\ kind[o] \in {"ignore", "resume", "target"}
  /\ DiskFaults
  /\ Goto(o, "done")
  /\ UNCHANGED <<envVars, recIgnored, devices, poked, boardVars, pumpVars,
                 runVars, kind, tgt, ocdVars, missed>>

(* detach waits for whoever owns the board. *)
IgnoreLock(o) ==
  /\ pc[o] = "lock"
  /\ ctrl[tgt[o]] = Free
  /\ ctrl' = [ctrl EXCEPT ![tgt[o]] = o]
  /\ Goto(o, "owned")
  /\ UNCHANGED <<envVars, recIgnored, devices, poked, presence, attached,
                 ignored, busy, ocdSrv, pumpVars, runVars, kind, tgt, ocdVars,
                 missed>>

(* The override itself, a field of the record and of desc, is left out. *)
SetTarget(o) ==
  /\ pc[o] = "begin"
  /\ kind[o] = "target"
  /\ devices' = devices \cup {tgt[o]}
  /\ Goto(o, "poke")
  /\ UNCHANGED <<envVars, recIgnored, poked, boardVars, pumpVars, runVars, kind,
                 tgt, ocdVars, missed>>

(* Send takes the device under md.mu and writes to it afterwards. *)
SendLooksUp(o) ==
  /\ pc[o] = "begin"
  /\ kind[o] = "send"
  /\ Goto(o, IF attached[tgt[o]] THEN "send" ELSE "done")
  /\ UNCHANGED <<envVars, recIgnored, devices, poked, boardVars, pumpVars,
                 runVars, kind, tgt, ocdVars, missed>>

(* Write opens the console if the device has no port, closed or not yet    *)
(* opened: in a closed device the new port has no one left to close it.    *)
SendWrites(o) ==
  /\ pc[o] = "send"
  /\ Goto(o, "done")
  /\ closedDev' = closedDev \ {o}
  /\ LET b == tgt[o]
         opens == bus[b] = "console" /\ ~PortBusy(b)
     IN IF o \in closedDev
          THEN /\ others' = [others EXCEPT ![b] = IF opens THEN @ \cup {o} ELSE @]
               /\ UNCHANGED port
          ELSE /\ port' = [port EXCEPT ![b] = IF @ = "closed" /\ opens THEN "open" ELSE @]
               /\ UNCHANGED others
  /\ UNCHANGED <<envVars, recIgnored, devices, poked, boardVars, pump, stop,
                 runVars, kind, tgt, ocdVars, missed>>

-----------------------------------------------------------------------------

BusStep == \E b \in Boards : \/ BoardLeaves(b)
                            \/ \E s \in {"console", "bootsel"} : BoardReturns(b, s)

PumpStep(b) == PumpOpens(b) \/ PumpFails(b) \/ PumpStops(b)

(* Steps of Run that only wait for other goroutines to finish theirs. *)
RunStep ==
  \/ Tick \/ Poked \/ Scan \/ ScanFails
  \/ \E b \in Boards : ReadPolicy(b)
  \/ Observe \/ TryLock \/ Attach \/ AttachFails \/ Keep \/ LetGo \/ Drained
  \/ PassEnds
  \/ \E b \in Boards : ShutdownStops(b)
  \/ ShutdownWaited \/ ShutdownStopped \/ ShutdownDetaches \/ ShutdownEnds

ReqStep(o) ==
  \/ ClaimLock(o) \/ ClaimCheck(o) \/ ClaimMark(o)
  \/ ReleaseIdle(o) \/ Unlock(o) \/ Poke(o)
  \/ Detach(o) \/ Detached(o) \/ Touch(o) \/ TouchEnds(o) \/ WorkEnds(o)
  \/ DebugFails(o) \/ DebugStarts(o) \/ DebugDies(o) \/ DebugTimesOut(o)
  \/ DebugAborted(o) \/ SessionEnds(o)
  \/ StopDebug(o) \/ StopSignals(o) \/ StopReturns(o)
  \/ SetRecord(o) \/ SettingFails(o) \/ SetMirror(o) \/ SetTarget(o)
  \/ SendLooksUp(o) \/ SendWrites(o)

Next ==
  \/ BusStep \/ Cancel
  \/ RunStep \/ Shutdown \/ \E b \in Boards : ShutdownLocks(b)
  \/ \E b \in Boards : PumpStep(b)
  \/ \E o \in Requests :
       \/ \E k \in Kinds, b \in Boards : Begin(o, k, b)
       \/ ReqStep(o) \/ IgnoreLock(o) \/ OcdListens(o) \/ OcdExits(o)

Spec == Init /\ [][Next]_vars

(* Every goroutine that can run does. A select with several ready cases    *)
(* picks one at random, so the cancelled context is not passed over for    *)
(* ever, and a Lock that is waited on is granted in the end (the mutex's   *)
(* starvation mode): strong fairness. Only a process that was signalled    *)
(* has to exit. The bus and the handlers are not fair.                     *)
Fairness ==
  /\ WF_vars(RunStep)
  /\ SF_vars(Shutdown)
  /\ \A b \in Boards : SF_vars(ShutdownLocks(b)) /\ WF_vars(PumpStep(b))
  /\ \A o \in Requests :
       /\ WF_vars(ReqStep(o))
       /\ SF_vars(IgnoreLock(o))
       /\ WF_vars(proc[o] = "stopping" /\ OcdExits(o))

FairSpec == Spec /\ Fairness
=============================================================================
