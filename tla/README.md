# TLA+ models of picohub

picohub watches the USB boards of one machine, captures their consoles to log
files, flashes them, lends their probe to OpenOCD and shows all of it on a web
page. It is one Go process; what is hard about it is not computation but the
goroutines that want the same board at the same time, and what is left on disk
when one of them fails or the process is killed. The modules here model those
parts, step by step as the code takes them. TLC checks them on small instances;
TLAPS proves every safety property that the passing runs check, for any number of
boards, requests, connections and messages, and both refinements. Liveness is
model-checked only.

Line numbers refer to the repository's files; `PROJECT.json` maps every
definition to the lines it stands for.

## 1. Inventory

| Component | State | Operations | Talks to |
|---|---|---|---|
| Discovery loop (`manager.go`: Run, reconcile, observe, converge) | `devices`, `poked`, per board `presence`, `ignored`, `attached`, `ctrl` | tick, poke, scan, observe, attach, detach, shutdown | Discoverer, Store, pump, Hub |
| Console pump (`manager.go`: pump, rollover) | the device's port, the log file, `byteLen`, `ring` | open, read, write, roll over, stop | Device, Store, Hub; `stop` and `pumpDone` are its only tie to detach |
| Exclusive operations (`manager.go`: claim, release, Flash, EnterBootMode) | `ctrl` held, `busy`, `lastErr` | claim, detach, work, release, poke | Device, Store, Hub |
| Settings and input (SetIgnored, SetTargetOverride, Send) | `DeviceRecord`, `ignored` | store, mirror, detach, poke; write to the console | Store, Device |
| Debug sessions (`debug.go`) | `ocdSrv`, `ocdRing`, the claim | StartDebug, StopDebug, watchDebug | ocd, claim/release |
| OpenOCD process (`ocd/server.go`) | process group, `ready`, `done`, `stopping`, `exitErr` | Start, Wait goroutine, Stop | the process |
| OpenOCD configuration (`ocd/ocd.go`) | none | Args, Resolve, ScriptsFor, FreePort | file system |
| Store (`store.go`) | buckets devices, sessions, flashes; the log directory | session start/continue/end, delete, stale repair, record updates | bbolt, files |
| Hub (`sse.go`) | `mu`, `subs`, one channel per connection | Publish, Subscribe, unsubscribe, Serve | every publisher, every browser |
| Devices (`flash/rp2.go`, `flash/esp.go`) | the serial port | Read, Write, Close, EnterBootMode, MountDir, Flash | tty, block devices, mount tools |
| Discovery (`flash/discover.go`) | none (reads sysfs) | Scan | sysfs |
| HTTP layer (`server.go`) | none; an upload's temporary files | handlers, rendering | Manager, Store, Hub |
| Pages (`html.templ`, in a browser) | what they show, an event stream, a fetch under way | subscribe, fetch at an event, close | handlers, Hub |
| Process (`main.go`) | the signal context | repair stale sessions, run, wait for the manager | all |
| Conversions (`flash/elf.go`, `uf2.go`, `ring.go`, `helpers.go`) | none, or a byte buffer | pure or sequential | - |
| `cmd/picoflash` | none | flash, list, bootmode, without the hub | the RP2 device; boards and volumes that the hub also uses |

How they interact. An HTTP handler calls a Manager method in its own goroutine
(a flash in one more); the discovery loop runs in another; each attached board
has a pump and each OpenOCD two goroutines. Three locks order them: `Manager.mu`
(the map), `managed.mu` (fields, held briefly) and `managed.ctrl` (a board, held
for a whole operation). `ctrl` is taken by TryLock in `claim` and `converge`, by
Lock in `detach`, and is unlocked by another goroutine after `StartDebug`.

What is hard:

- two owners of a board, or an owner and the pump it should have stopped;
- the policy read by a pass, stale by the time the pass acts on it;
- wake-ups lost between a full `poked` and a pass that skips an owned board;
- a rollover that overlaps a detach; a delete that overlaps either; a kill
  between a record, its file and its end;
- a Stop of OpenOCD that races its exit, its own start and another Stop;
- shutdown against everything above;
- slow and dead browsers against publishers;
- BOOTSEL volumes that are found by label, shared by whoever looks, and vanish as a
  sign of success;
- one record written by forms field by field and stamped by the loop, read before it
  is used, and shown by pages that may miss the event that tells of it.

What makes each component correct is stated as the properties of section 4; the
full list of hazards, with their lines, is in `PROJECT.json`.

## 2. Plan

Order of work, most important behaviour first. Done is what the next sections
describe.

1. **Done.** `Manager`: ownership of boards; its properties, three passing runs,
   its proof.
2. **Done.** `SessionLog`: records and files of log sessions with crashes.
3. **Done.** `OcdServer` and the abstract `OcdSession` it implements, which is
   the process that `Manager` uses.
4. **Done.** `Hub`: the event stream.
5. **Done.** `Bootsel`: the BOOTSEL volumes of a host (`rp2.go:78-233`), where a
   volume is found by its label and not by its board.
6. **Done.** `Records`: a board's record, from the form to the pages and to a debug
   session.
7. **Done.** `BoardOwner`: an abstract specification (a board has one owner, who
   ends its capture before using it) that `Manager` implements, by refinement and
   by proof.
8. Pure algorithms as functions against reference definitions: the ring's tail,
   tailWriter's lines, FreePort, stableID.
9. **Done.** Proofs: one module for each model, with the inductive invariant of its
   safety properties (section 5).

## 3. Modules

A step of a model is what the code does between two points where another
goroutine can see or change something: one hold of `md.mu`, one store
transaction, one channel operation, one file operation. A goroutine is a program
counter whose values are named after what it does next.

**Manager** (`manager.go`, `debug.go`, the port half of `rp2.go`, the handlers of
`server.go` as far as they call the manager).
`presence`, `attached`, `ignored`, `busy`, `ctrl`, `ocdSrv` are the fields of
`managed`; `devices` and `poked` those of `Manager`; `recIgnored` is the record in
the store. `pump`, `stop` and `port` are the pump goroutine, its stop channel and
the port of `md.dev`; `others` are requests that have the same tty open through a
device of their own (a boot-mode touch, or a Send on a closed device). `bus` is
what is really plugged in; a board leaves and returns at any time (`BusMoves =
"any"`), returns only once its absence was noticed (`"noticed"`), or stays as it is
(`"never"`). `runPc, todo, seen, cur, policy, mds` are the locals of Run, reconcile and
shutdown. `pc, kind, tgt` are a request; the goroutine `watchDebug` continues in the
slot of its StartDebug, which is what makes the handed-over mutex visible. `proc` and
`ready` are its OpenOCD, at the level of `OcdSession`. `missed` is a history variable:
since the last scan a pass failed or a refused claim kept a pass off a board.
EnterBootMode (`kind = "boot"`) takes the same steps as Flash under another name.
Left out: rings and byte counts; the end of the log session in a detach, which
`SessionLog` has; descriptors, `lastErr`, publications and the data of target
overrides and debug configurations, which `Records` has. A scan is atomic.

**ManagerProps** states the properties and the inductive invariant `ManagerInv`;
**MCManager** instantiates it; **ManagerProofs** proves the safety of a board's sections,
**ManagerPassProofs** what a pass and a shutdown leave behind.

**BoardOwner** is the locking discipline that the comment of `managed` states
(manager.go:60-73), with the locks taken away: a board has one owner (a request or the
loop) and one use (nothing, its console captured, a capture that is ending, an
operation). The loop captures a board and gives it back with the capture; whoever
takes it next ends the capture, waits until it has ended, and only then operates. A
board is never given back during an operation, or with a capture still ending.
`Manager` implements it (`BoardsHaveOwners` in `ManagerProps`): the owner is `ctrl`, the use
follows from the requests' program counters, `attached` and `pump`. **ManagerRefinement**
proves it.

**SessionLog** (`store.go`, and the session half of `manager.go`): one board's
`sessions` bucket and log directory (`files`, a length per file, in chunks), the
pump's `fd` and `fileBytes`, `sess` and `byteLen` of `managed`, the snapshot `snap`
that a detach takes, delete requests, a crash that may happen anywhere and the
repair at the next boot. A crash loses the goroutines and keeps the store and the
files. With `DiskFaults` every transaction and file operation whose error the code
handles or drops may fail. Three history sets name what such a failure leaves
behind (`strays`, `suspects`, `orphans`), so that the properties say exactly which
sessions they do not cover. The history sets are never read by an action.

**OcdServer** (`ocd/server.go`): the OpenOCD process and one process it may have
spawned, the select in Start, the goroutine of cmd.Wait and any number of Stops, of
which Start makes one itself when it gives up. `foreign` says that the process may
not be signalled (signalGroup's error path). **OcdSession** is what its callers see
of it, and `OcdServer` is shown to implement it: once stopped it only ends, and it
ends once.

**Hub** (`sse.go`): channels with a capacity, the map, the mutex and the loop of
Publish that holds it, Serve with its writes and heartbeat. The browser is there or
gone; a write to one that is there may take for ever, which models a stalled one.
A closed channel's content is dropped from the state.

**Bootsel** (`rp2.go`, and what surrounds it in `manager.go`, `server.go`, `elf.go` and
`cmd/picoflash`): the boards of a host, what each does (`mode`) and who has mounted
its volume (`mounts`: requests, or a desktop), and requests on their way through claim,
EnterBootMode, MountDir and Flash, one step per look at the block devices, mount
command, file operation and return. `chip` is the board's real chip and so the label of
its volume; the family of the firmware is chosen freely, since the page may show the
wrong one. The bootrom's side of a copy is the outside world's: an image of its family
makes the board reboot while or after the copy returns, another one is dropped without
a word. A `cli` request is a picoflash on the same host, which takes no claim. `vol` and
`dir` are a request's locals, `temp` the files it has made. `ran` says which board
took the firmware and `disturbed` which requests had to share the host (another
board in boot mode, another request at its board or volume, the board pulled); both
are history. Claims are by the request that works (`Claimed`), since `Manager` shows
that they are exclusive, and consoles are left to `Manager`.

**Records** (`store.go`'s device records, the descriptor half of `manager.go`, `debug.go`,
handlers of `server.go`, `html.templ`): one board, its record (`rec`), the manager's
entry as far as pages render it (`md`), a pass of the loop with its locals (`loop`),
requests that write the record (rename, pin, debug configuration) or use it (a debug
session), and a page in a browser. A scan finds the board as any of `Usb`, or not at
all. A DebugConfig stands for its target; a board's name takes the way of its family
and is kept in the record only. The ignore flag is in `Manager`; a flash and a boot
mode request claim and release as a debug session does. `Publish` puts a `devices` event
on its way to the page, or drops it where the channel is full or the page has not
subscribed (`gap`). A page asks again at an event, one fetch at a time. What an outdated
page shows is not kept, since no property speaks of it. With `Whole` pages also show
the board's family, see the counterexamples below. `last` (what was stored last)
and `calm` (sessions during whose preparation no setting changed) are history.

**MCHub**, **MCOcdServer**, **MCSessionLog**, **MCBootsel**, **MCRecords** are the modules TLC
is run on. **SessionLogProofs**, **OcdServerProofs**, **HubProofs**, **BootselProofs** and
**RecordsProofs** prove the modules they are named after.

Operators described as "Mutant" in a comment are deliberate bugs, alternatives to
the definition that follows them. No specification uses them; each one, put in the
place of its original, makes TLC find the property violated that guards against it
(the pairs are in `PROJECT.json`).

## 4. Runs

Passing:

| Run | Instance | What it shows |
|---|---|---|
| `manager_requests` | 1 board, 2 requests (flash, ignore, debug, stop), disk faults, bus "any"; safety, 2 requests symmetric | ownership (`BoardsAreOwned`, `SessionOwnsProbe`), a truthful page (`BusyNamesOwner`), no console under an operation (`NoConsoleUnderOperation`), nothing left running after shutdown (`StoppedHoldsNothing`); also no deadlock |
| `manager_settings` | the same with boot mode, ignore, resume, target and send | at rest a board is held by the stored policy (`MirrorFollowsStore`), and a change of it takes effect without a tick (`NoLostWakeup`) |
| `manager_console` | flash and ignore, bus "noticed", no faults; liveness | a wanted board left alone is captured in the end and stays so (`ConsoleCaptured`), an ignored one is let go of for good (`IgnoreHonoured`), and its port is closed (`ReleasedPortIsClosed`); the manager implements `BoardOwner` (`BoardsHaveOwners`; for debug sessions, Sends and faults see the proof) |
| `manager_debug` | debug and ignore, bus "never"; liveness | every call returns unless a running session keeps its board (`RequestReturns`); Run returns if no StartDebug is on its way while it shuts down (`RunReturnsWhenSettled`) |
| `session_log` | 3 sessions, a limit of 2 chunks, 2 deletes, 1 crash, disk faults | `SeqFollowsStart`, `LiveLogIsKept`, `LengthRecorded`, `OneLive`, `NoOrphanLogs`, `LogIsCapped` |
| `ocd_server` | 2 Stops beside Start's own; liveness | `NothingLeftBehind`; an exit that was asked for is no error and a crash is one (`ExitIsJudged`); `CallsReturn` and the refinement `IsSession` |
| `hub` | 2 publishers, 2 connections, channels of 1, 2 messages; liveness | `NoSendOnClosed`, `InOrder`, `OnlySlowOnesMiss`, `PublishReturns`, `GoneIsReaped` |
| `bootsel` | 2 boards of either chip, 2 requests (flash, boot mode, picoflash) | a flash that was alone is honest: OK means that the board runs the firmware, if it was of its family, and no other board got it (`FlashIsHonest`); no way out of an operation leaves a temporary file or a mount (`NothingLeftOnHost`); no deadlock |
| `records` | 1 board, 2 requests (rename, target, config, debug), 1 page, disk faults | no setting is lost to another writer (`LastWriteStands`); at rest the entry has the pinned or discovered family (`PinTakesHold`); a session runs with what was stored (`SessionUsesSettings`); a page that missed no event shows badge and error as they are (`PageFollows`); no deadlock |

Runs whose violation is the result: the code does something else than the
repository says. Each is quoted under `findings` in `PROJECT.json`.

| Run | Property | What happens |
|---|---|---|
| `dead_pump` | `ConsoleCaptured` | A board resets and is back before the next scan. Its pump has died of the read error, `attached` is still true, and no pass starts another pump. |
| `shutdown_hangs` | `RunReturns` | shutdown looks for sessions while a StartDebug waits for OpenOCD; the session is then published and detach waits for it, without limit. |
| `foreign_volume` | `OwnVolumeOnly` | Another board is in boot mode. A flash looks for a BOOTSEL volume, finds that one, and writes the firmware there, while its own board runs on. |

Four more counterexamples are kept as configurations, beside the runs:
`tlc -config <file> <module>` prints the trace.

| Configuration | Module | Property | What happens |
|---|---|---|---|
| `IgnoreRace.cfg` | `MCManager` | `FreeOnReturn` | A pass reads the policy; SetIgnored stores the new one, detaches and returns; the pass attaches the board by the old one. manager.go:626 says that the port is free by then. The next pass, which SetIgnored's poke starts, lets go again (`IgnoreHonoured`). |
| `SendLeak.cfg` | `MCManager` | `ReleasedPortIsClosed` | Send looks the device up, a detach closes it, Send's Write opens the tty again (rp2.go:59). Later attaches and the external tool find it taken. |
| `RolloverRace.cfg` | `MCSessionLog` | `DetachEndsSession` | A detach copies the session and waits for the pump, which rolls over: the old session is ended twice, the continuation stays live, although detach "ends the live session" (manager.go:356). |
| `StalePage.cfg` | `MCRecords` | `PageShowsAll` | A pin is cleared: the request publishes before the entry changes, the pass that changes it sees no change of presence and publishes nothing, and every page keeps the old family until another event. sse.go:29 says that the event carries "device-list/state changes". A new name goes the same way. |

### Bounds, and why they are enough

- *Boards = 1.* Boards share the discovery loop, one store and the port names, but
  no step of one reads the fields of another, except shutdown, which visits them in
  turn, and the boot-mode touch, which looks for any BOOTSEL volume. The proofs
  hold for any number.
- *Requests = 2.* Ownership is decided between pairs: an owner and a challenger.
  The discovery loop and the pump are there besides. A request slot is used once.
- *SessionLog.* Three sessions allow an attach, a rollover and a re-attach, or two
  rollovers; `MaxLog = 2` is the smallest limit with a chunk before the last. After a
  rollover that failed one more chunk is read (`fileBytes <= MaxLog`), enough to see
  the ended session written to. Identifiers are never used again, as newID's are not.
- *OcdServer.* Two callers of Stop make one that works and one that joins it; the
  state space is finite without a bound.
- *Bootsel.* Two boards make a foreign volume and a shared label; two requests make
  one that disturbs the other, on its board or its volume. Boards come and go without
  a bound, a request slot is used once.
- *Records.* Two requests: two writers beside the loop, which is the third, or a writer
  beside a session. One value to set of each kind, and one to clear it with, tell a
  setting kept from one lost. The board enumerates as an RP2040 console or is
  absent, which gives a family that a pin can contradict; the presence OnBootsel takes
  the steps of Gone in a pass (neither is attached).
- *Hub.* Channels of one message are full after one, so two messages show a skip;
  two publishers show the order, two connections that a stalled one does not hold up
  the other.

`CHECK_DEADLOCK FALSE` is said where the system may stop: when every request slot is
used and the loop has returned, when every connection is over, when OpenOCD has
exited, and in runs that look for one violation. `manager_requests`, `session_log`,
`bootsel` and `records` check for deadlock.

### Fairness, and why the code justifies it

- Every goroutine with an enabled step takes one: weak fairness on the loop (its
  ticker always fires), the pump (its reads time out), and the requests.
- A Lock that others keep taking and releasing is granted in the end: strong
  fairness, since Go's mutex hands over to a waiter after 1 ms (starvation mode).
  TryLock gets no such promise.
- Run's select picks at random among its ready cases, so a cancelled context is not
  passed over for ever: strong fairness on Shutdown.
- OpenOCD need not exit by itself. After Stop it does: by SIGKILL at the latest.
  In `OcdServer` only a process that got SIGKILL is fair; `CallsReturn` derives from it
  what `Manager` assumes of a signalled process. Processes that may not be signalled
  are excepted from both.
- The heartbeat's ticker fires, and of the writes to a browser that is gone one fails.
- The bus, the handlers, browsers and the copying of firmware's outcome are not fair:
  nobody has to plug in, click, connect or read. A flash ends, since its waits have
  time limits or the request's context.
- `SessionLog`, `Bootsel` and `Records` state safety only and assume no fairness.

## 5. Proofs

Every invariant, every action property and both refinements that the passing runs
check are theorems. They hold for every value of the constants that satisfies the
named assumptions of the module: that distinguished names are distinct from boards
and requests, that parameters have their types, and that a capacity or bound is a
number. One theorem, `PortsAreReleased`, has a hypothesis of its own. No proof needs a
finite set, a symmetry or fairness.

Few of the properties are inductive by themselves. Each module has one inductive
invariant, the conjunction of named parts, of which the properties are parts or
consequences; one lemma for each part shows that every action preserves it, given
the others. TLC has found each of these invariants to hold in every state of the
instances of section 4; the proofs do not rest on that.

| Module | Inductive invariant | Theorems about the runs' properties |
|---|---|---|
| `ManagerProofs` | `ManagerInv` | `TypeCorrect`, `Ownership`, `BusyTruthful`, `SessionOwnership`, `ConsoleClosed`; besides `Exclusion`, `PumpsAreJoined` |
| `ManagerPassProofs` | `PassInv` | `ShutdownLeavesNothing`, `NoWakeupIsLost`, `MirrorIsRefreshed`, `PortsAreReleased` |
| `ManagerRefinement` | `ManagerInv` | `Refinement` (`BoardsHaveOwners`) |
| `SessionLogProofs` | `LogInv` | `TypeCorrect`, `NumbersFollowStarts`, `LiveLogStays`, `LengthsAreTrue`, `NothingStaysLive`, `FilesHaveOwners`, `LogsAreCapped` |
| `OcdServerProofs` | `Inv` | `TypeCorrect`, `AnswersLeaveNothing`, `VerdictIsRight`, `ServerIsSession` |
| `HubProofs` | `Inv` | `TypeCorrect`, `NeverSendsOnClosed`, `DeliveredInOrder`, `QuickOnesMissNothing` |
| `BootselProofs` | `HostInv` | `TypeCorrect`, `FlashReportsHonestly`, `HostIsLeftClean` |
| `RecordsProofs` | `RecordInv` | `TypeCorrect`, `NoSettingIsLost`, `PinsTakeHold`, `PagesFollow`, `SessionsUseSettings` |

### Manager: ownership

`ManagerProofs` holds for every set of boards and requests, every set of kinds, with
or without faults, for every way boards move: requests need only be distinct from the
three names that `ctrl` also takes, and `None` must not be a board.

The invariant. None of the safety properties is inductive by itself. That the owner
of a board is who it should be (`BoardsAreOwned`) depends on requests having a board
(`Shape`). That busy names the owner depends on the reverse: at every point where a
request holds a board, busy is exactly what that point implies (`BusyExact`). That no
console is open during an operation depends on what holds while the pump drains: a
pump outlives `attached` only while the detach that stopped it waits for it, a board
without a pump has its port closed, and a Send that still thinks otherwise is among
those whose device was closed (`PumpExact`). `ServerExact` ties a published server to
the request that watches it. `ManagerInv` is the conjunction, with `TypeOK`.

The argument. One lemma per conjunct (`TypeStep`, `ShapeStep`, `OwnedStep`, `BusyStep`,
`ServerStep`, `PumpStepInv`) shows that each action preserves it, given the others;
`InitInv` and `NextInv` put them together, and `Invariance` is `Spec => []ManagerInv`.
From it follow `TypeCorrect`, `Ownership`, `Exclusion` (no two owners inside one board's
sections, the form in which manager.go:61 puts it), `BusyTruthful`, `SessionOwnership`,
`ConsoleClosed` and `PumpsAreJoined`. The key of ownership is that every action takes
`ctrl` only when it is free and frees it only when its own goroutine holds it; the
hand-over from StartDebug to watchDebug is a step that does not touch `ctrl` at all.

### Manager: refinement

`Refinement` (`ManagerRefinement`) is `Spec => BoardsHaveOwners`: the manager
implements `BoardOwner`, for every set of boards and requests. The invariant says what
an owner finds when it acts: it is alone (`OwnerIsAlone`), and its board is at rest,
in its own operation, or draining for it (`UseOfHeld`, `UseOfRunHeld`). Then each action
of `Manager` is one step of `BoardOwner` or changes neither owner nor use; `TakeStep`,
`GiveStep`, `FinishStep` and `Stutters` are the cases that several actions share, and
`RefinementStep` goes through all of them. Where an owner must find no other operation
on its board, or a pump must have been waited for, `BoardsAreOwned` and `PumpExact` say
so: without the wait in converge or in Detach the proof of that action fails, as the
run `manager_console` does (mutant `LetGoAtOnce`).

### Manager: passes and shutdown

`PassInv` (`ManagerPassProofs`) extends `ManagerInv`.

- *No wake-up is lost.* `NoLostWakeup` speaks of a quiet manager only, so the invariant
  has to say what holds while it is not quiet: `PassAgrees` says that a board which a
  pass has been to agrees with what the pass saw and with the store, unless somebody
  still owes a pass (`Unsettled`: a poke is pending, the last pass missed the board, or
  a request is at a point that it leaves with a poke or with `missed`). The list of those
  points is the argument: every way out of a claim, of SetIgnored and of a refused pass
  must be on it. That the owner holds the mutex (`BoardsAreOwned`) is not enough here;
  the reverse, that a held mutex has a holder who will release it and poke, is
  `LockedByHolder`.
- *Shutdown.* `ShutdownExact` says at each step of shutdown which boards may still have a
  pump: those it has yet to visit, and the one it is at. It needs that pumps run on
  tracked boards only; nothing but a pass starts one.
- *Ports.* `OthersExact` says who has a tty open through a device of its own: a boot-mode
  touch, which owns the board, or a Send that has come too late. `PortsAreReleased`
  therefore assumes that there are no Sends (`"send" \notin Kinds`), as in the run
  `manager_console`; with them the property is false (`SendLeak.cfg`).

### Session log

What the runs check ties records to files, but not the pump to either. `InStep` says where
manager, pump and a crash can be at the same time and which id each goes by;
`WriterCounts` says at each point of the pump that the session it writes is live, not yet
counted, and as long as it believes, unless it is suspect; `LeftIsEnded` that a rollover
has ended what it leaves, and that a detach overtaken by it ends a session that is over;
`VictimsAreEnded` that a delete request is after nothing live. `SeqFollowsStart` needs that
numbers never run ahead of ids (`Stored`), and that the next number exists at all: a
nonempty set of numbers has a least element (`HasLeast`, from the library's
well-foundedness of Nat).

### OpenOCD

Stop answers nil because `done` was closed; `done` is closed because cmd.Wait returned;
and that needs everything that holds the pipe to be dead (`Reaped`, `AnswersHold`).
`VerdictHolds` keeps the judgement of the exit right for a Stop that comes between the
exit and the close of `done`. The refinement maps the state to starting, up, stopping
or exited (`procBar`): the first port report is Listens, the first Stop IsStopped, the
close Exits (`ReportIsListens`, `StopIsStopped`, `CloseIsExit`), and the other steps leave
the three variables of the mapping alone (`OthersAreUnseen`).

### Hub

The invariant is about `Stream(c)`, what browser c got, holds and has in its channel, as one
sequence: a send appends to it, and Serve moves messages along inside it without
changing it. `StreamsRise` says that it rises and, while a Publish has c yet to visit, is
below that Publish's message; it depends on the mutex (`OnePublishes`: one Publish at a
time, with the last number). `StreamsAreWhole` says which numbers it holds.

### BOOTSEL volumes

`FlashIsHonest` and `NothingLeftOnHost` speak of the step that ends a request. `HostInv`
carries what a request that nobody disturbed can rely on until then: it is alone with
its board (`AloneWithBoard`), so that the volume it finds is its own, stays there, and
the disappearance it waits for is the acceptance of its own firmware (`AloneWrites`).
Mounts are a matter of others: `MountsAreUsed`, `MountsAreLive` and `MountsAreShared` say
whose mount a request goes by, so that an undisturbed one finds nobody's file open when
it unmounts (`AloneUnmounts`). `HasBoard` says that who has found a volume has found a
board's.

### Records

`LastWriteStands` is about the store alone and needs only that each transaction writes its
own field. The others need to know what a reader holds in its hands: `PassHoldsPin` that
the family a pass has read, and the one in the entry, is the stored one unless a pass is owed
(`NoPinOwed`, which lists the requests that will poke); `CalmSettings` that a debug request
during which nothing changed goes by what is stored; `PageKnows` that what a page has got
or is being sent is what the entry says, unless an event is on its way or was missed
(`EventComes`). `EventComes` is stronger than the `EventDue` of the property: a pass owes an
event for a board it has seen only.

### A form the prover mistakes

An update of several fields of one entry of a function is written
`[f EXCEPT ![x] = [@ EXCEPT !.a = u, !.b = v]]` in the models. The equivalent
`[f EXCEPT ![x].a = u, ![x].b = v]` must not be used where proofs expand it: tlapm 1.4.5
translates it for the SMT solver into formulas that contradict each other when the
type of `f` is known, and anything follows from such a step. As a safeguard against
this and other contradictions, the leaves of all proofs were also tried with FALSE for
their goal, from the same facts. That fails everywhere but in three leaves of
`HonestStep`, where the case is a contradiction on purpose.

## 6. Only model-checked

- Liveness: `ConsoleCaptured`, `IgnoreHonoured`, `RequestReturns`, `RunReturnsWhenSettled`,
  `CallsReturn`, `PublishReturns`, `GoneIsReaped`. They rest on fairness, and so on ENABLED,
  which the prover does not have.
- Absence of deadlock, which is ENABLED as well.
- The violations and counterexamples of section 4 are traces of TLC.

## 7. Not modelled, and why

- Rendering, but for the facts a device card shows: the other templates and handlers
  that only read have no state that another component reads.
- The bytes of a UF2 (`elf.go`, `uf2.go`): byte layout, checked against TinyGo's output
  by the repository's tests. What an upload's family does is in `Bootsel`.
- Args, Resolve, ScriptsFor: strings. FreePort: one look at the ports; that OpenOCD may
  then fail to bind is one of its early exits in `OcdServer`.
- `esp.go`: a console like the RP2 device's; flashing an ESP returns an error.
- Walking sysfs and stableID, the ring and tailWriter: see the plan.
- The label RPI2 that some RP2040 clones use, and a second BOOTSEL device behind one
  label as udev would alternate it: `BlockDevs` chooses freely among boards of a label.
- The flash history (append-only) and a board's notes: display data.
