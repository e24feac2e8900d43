------------------------------- MODULE Records -------------------------------
(***************************************************************************)
(* The record of one board, on its way from a form to the store, to the    *)
(* manager's copy and to the pages (store.go, manager.go, debug.go,        *)
(* server.go, html.templ). Forms write the record, the discovery loop      *)
(* reads it and overlays it on what the bus says, a debug session takes    *)
(* its configuration from both, and a page shows the manager's copy, asks  *)
(* for it again at a "devices" event, and misses the events that come      *)
(* before it subscribes. The ignore flag and the order inside attach and   *)
(* detach are in Manager; the event stream itself is in Hub.               *)
(***************************************************************************)
EXTENDS Naturals, FiniteSets

CONSTANTS
  Calls,      \* HTTP requests, each used once
  Kinds,      \* what they ask for
  Names,      \* labels a user may give the board
  Pins,       \* families a user may pin, besides "unknown"
  Configs,    \* OpenOCD targets a user may set, None to have it derived
  Usb,        \* what the board may enumerate as
  DiskFaults, \* store transactions may fail
  Whole       \* pages show a board's family, besides its state

AllKinds == {"rename", "target", "config", "debug"}
Families == {"pico", "pico2", "esp32c3", "esp32s3"}
UsbIds == {"pico", "bootsel2040", "bootsel2350", "bridge"}
None == "none"

ASSUME RecordsAssumption ==
  /\ Kinds \subseteq AllKinds /\ Pins \subseteq Families /\ Usb \subseteq UsbIds
  /\ Configs \subseteq {"rp2040", "rp2350", None} /\ None \notin Names
  /\ {DiskFaults, Whole} \subseteq BOOLEAN

VARIABLES
  rec,    \* its record in the store
  last,   \* history: the settings that were stored last
  md,     \* the manager's entry, as far as pages render it
  ctrl,   \* who holds md.ctrl: None, "loop" or "request"
  poked,  \* Manager.poked is full
  loop,   \* the discovery loop, with the locals of reconcile
  call,   \* the requests
  calm,   \* history: debug requests during which nothing changed, see Watch
  page    \* a page in a browser

vars == <<rec, last, md, ctrl, poked, loop, call, calm, page>>

(* DebugConfig stands for its target: None derives one from the board.     *)
OcdTargets == {"rp2040", "rp2350"}
NewRecord == [found |-> TRUE, name |-> "", pin |-> "unknown", dbg |-> None]
NoRecord == [NewRecord EXCEPT !.found = FALSE]

(* Between the write of a setting and the end of its handler. *)
Owing == {"mirror", "publish", "poke"}
Claiming == {"announce", "desc", "record", "launch"}

Views == [badge: {"unlisted", "absent", "idle", "monitoring", "BOOTSEL", "busy"},
          err: BOOLEAN, tgt: Families \cup {"unknown"}]

TypeOK ==
  /\ rec \in [found: BOOLEAN, name: Names \cup {""}, pin: Pins \cup {"unknown"},
              dbg: OcdTargets \cup {None}]
  /\ last \in [name: Names \cup {""}, pin: Pins \cup {"unknown"}, dbg: OcdTargets \cup {None}]
  /\ md \in [known: BOOLEAN, presence: {"Gone", "OnConsole", "OnBootsel"},
             tgt: Families \cup {"unknown"}, attached: BOOLEAN, busy: BOOLEAN, err: BOOLEAN]
  /\ ctrl \in {None, "loop", "request"}
  /\ poked \in BOOLEAN
  /\ loop \in [pc: {"idle", "read", "create", "observe", "converge",
                    "attach", "publish"},
               seen: Usb \cup {None}, tgt: Families \cup {"unknown"}, changed: BOOLEAN, failed: BOOLEAN]
  /\ call \in [Calls -> [pc: {"idle", "store", "serve", "end",
                              "done"} \cup Owing \cup Claiming,
                         kind: AllKinds \cup {None},
                         arg: Names \cup Pins \cup OcdTargets \cup {"", "unknown", None},
                         tgt: Families \cup {"unknown"},     \* desc.Target it read
                         cfg: OcdTargets \cup {None}]]       \* the session's target
  /\ calm \subseteq Calls
  /\ page \in [at: {"closed", "rendered", "live"},
              due: BOOLEAN,    \* an event has not been acted on
              gap: BOOLEAN,    \* an event was missed
              fetch: BOOLEAN,  \* a fetch was answered and is not shown yet
              view: Views]     \* the answer, or what the page shows

-----------------------------------------------------------------------------
(* Descriptors, as discovery and the record make them. *)

(* The best guess from the USB ids. A debug probe is a "pico", whichever   *)
(* chip it has.                                                            *)
classifyTarget(u) ==
  CASE u \in {"pico", "bootsel2040"} -> "pico"
    [] u = "bootsel2350" -> "pico2"
    [] u = "bridge" -> "esp32c3"

BootSel(u) == u \in {"bootsel2040", "bootsel2350"}

PresenceOf(u) == IF u = None THEN "Gone" ELSE IF BootSel(u) THEN "OnBootsel" ELSE "OnConsole"

applyRecord(u, pin) == IF pin # "unknown" THEN pin ELSE classifyTarget(u)

wantAttached(u) == PresenceOf(u) = "OnConsole"

defaultDebugConfig(t) ==
  CASE t = "pico" -> "rp2040" [] t = "pico2" -> "rp2350" [] OTHER -> None

(* Mutant: what is derived beats what is stored. *)
effectiveIgnoresStored(t, d) == IF defaultDebugConfig(t) # None THEN defaultDebugConfig(t) ELSE d

effectiveDebugConfig(t, d) == IF d # None THEN d ELSE defaultDebugConfig(t)

-----------------------------------------------------------------------------
(* Pages. *)

(* What a page renders of the board: its badge, its last error, its family. *)

(* Mutant: the presence is shown as it is. *)
RawBadge ==
  IF ~md.known THEN "unlisted"
  ELSE IF md.busy THEN "busy"
  ELSE IF md.attached THEN "monitoring" ELSE md.presence

stateBadge ==
  IF ~md.known THEN "unlisted"
  ELSE IF md.busy THEN "busy"
  ELSE IF md.presence = "OnBootsel" THEN "BOOTSEL"
  ELSE IF md.presence = "Gone" THEN "absent"
  ELSE IF md.attached THEN "monitoring" ELSE "idle"

View == [badge |-> stateBadge, err |-> md.err, tgt |-> IF Whole THEN md.tgt ELSE "unknown"]
NoView == [badge |-> "unlisted", err |-> FALSE, tgt |-> "unknown"]

NoPage == [at |-> "closed", due |-> FALSE, gap |-> FALSE, fetch |-> FALSE, view |-> NoView]

(* A "devices" event is on its way to the page, or finds its channel full, *)
(* or finds no channel yet. What an outdated page shows is not kept.       *)
Publish ==
  LET stale == [page EXCEPT !.view = IF page.fetch THEN @ ELSE NoView]
  IN  \/ page.at = "live" /\ page' = [stale EXCEPT !.due = TRUE]
      \/ page.at \in {"live", "rendered"} /\ page' = [stale EXCEPT !.gap = TRUE]
      \/ page.at = "closed" /\ UNCHANGED page

storeAndLoop == <<rec, last, md, ctrl, poked, loop, call>>

(* A handler renders the page, of a board or of all, from the view.        *)
Open ==
  /\ page.at = "closed"
  /\ page' = [NoPage EXCEPT !.at = "rendered", !.view = View]
  /\ UNCHANGED storeAndLoop

(* Also a reload, which HX-Refresh asks for, and an error of the stream:   *)
(* the page's script does not open another, so the page stays as it is.    *)
Close ==
  /\ page.at # "closed"
  /\ page' = NoPage
  /\ UNCHANGED storeAndLoop

Subscribe ==
  /\ page.at = "rendered"
  /\ page' = [page EXCEPT !.at = "live"]
  /\ UNCHANGED storeAndLoop

(* Mutant: an event that comes while a fetch is under way is taken as      *)
(* answered by it.                                                         *)
FetchCoalesces ==
  /\ page.at = "live" /\ page.due
  /\ page' = IF page.fetch THEN [page EXCEPT !.due = FALSE]
             ELSE [page EXCEPT !.due = FALSE, !.gap = FALSE, !.fetch = TRUE, !.view = View]
  /\ UNCHANGED storeAndLoop

(* hx-trigger="sse:devices": the page asks, handleDeviceListPartial or     *)
(* handleDeviceStatusPartial answers. One fetch at a time, the last event  *)
(* waits.                                                                  *)
Fetch ==
  /\ page.at = "live" /\ page.due /\ ~page.fetch
  /\ page' = [page EXCEPT !.due = FALSE, !.gap = FALSE, !.fetch = TRUE, !.view = View]
  /\ UNCHANGED storeAndLoop

Swap ==
  /\ page.fetch
  /\ page' = [page EXCEPT !.fetch = FALSE,
                          !.view = IF page.due \/ page.gap THEN NoView ELSE @]
  /\ UNCHANGED storeAndLoop

-----------------------------------------------------------------------------
(* The store. *)

Settings(r) == [name |-> r.name, pin |-> r.pin, dbg |-> r.dbg]
Found == [rec EXCEPT !.found = TRUE]  \* NoRecord has the fields of a new one

(* Mutant: a read that fails passes for a board never seen. *)
DeviceSeenForgets == rec' \in {Found} \cup (IF DiskFaults THEN {NewRecord} ELSE {})

(* One transaction: read, or create, stamp and write back. *)
DeviceSeen == rec' = Found

(* updateDevice: one transaction as well. *)
updateDevice(f, v) ==
  /\ rec' = [Found EXCEPT ![f] = v]
  /\ last' = [last EXCEPT ![f] = v]

-----------------------------------------------------------------------------
(* The discovery loop: one pass over the board. *)

(* By a tick or a poke; the board may be there or not, and may have become *)
(* another. An entry is made for a board that has none.                    *)
Scan ==
  /\ loop.pc = "idle"
  /\ poked' \in {FALSE, poked}
  /\ \/ /\ \E u \in Usb :
             loop' = [loop EXCEPT !.pc = "read", !.seen = u, !.failed = FALSE]
        /\ md' = [md EXCEPT !.known = TRUE]
     \/ /\ loop' = [loop EXCEPT !.pc = IF md.known THEN "observe" ELSE "idle",
                                !.seen = None, !.failed = FALSE]
        /\ UNCHANGED md
  /\ UNCHANGED <<rec, last, ctrl, call, page>>

ScanFails ==
  /\ DiskFaults
  /\ loop.pc = "idle"
  /\ poked' \in {FALSE, poked}
  /\ loop' = [loop EXCEPT !.failed = TRUE]
  /\ UNCHANGED <<rec, last, md, ctrl, call, page>>

(* storedRecord, and applyRecord on what it returns. The board's name goes *)
(* the way of its family and is left out.                                  *)
Overlay(pin) ==
  [loop EXCEPT !.pc = "observe", !.tgt = applyRecord(loop.seen, pin)]

ReadRecord ==
  /\ loop.pc = "read"
  /\ \/ rec.found /\ loop' = Overlay(rec.pin)
     \/ /\ ~rec.found \/ DiskFaults
        /\ loop' = [loop EXCEPT !.pc = "create"]
  /\ UNCHANGED <<rec, last, md, ctrl, poked, call, page>>

CreateRecord ==
  /\ loop.pc = "create"
  /\ \/ DeviceSeen /\ loop' = Overlay(rec'.pin)
     \/ /\ DiskFaults
        /\ loop' = [Overlay("unknown") EXCEPT !.failed = TRUE]
        /\ UNCHANGED rec
  /\ UNCHANGED <<last, md, ctrl, poked, call, page>>

(* Only a change of presence is reported. *)
Observe ==
  /\ loop.pc = "observe"
  /\ md' = IF loop.seen = None THEN [md EXCEPT !.presence = "Gone"]
           ELSE [md EXCEPT !.presence = PresenceOf(loop.seen), !.tgt = loop.tgt]
  /\ loop' = [loop EXCEPT !.pc = "converge", !.changed = md'.presence # md.presence]
  /\ UNCHANGED <<rec, last, ctrl, poked, call, page>>

Converge ==
  /\ loop.pc = "converge"
  /\ \/ /\ wantAttached(loop.seen) /\ ~md.attached /\ ctrl = None
        /\ ctrl' = "loop"
        /\ DeviceSeen \/ (DiskFaults /\ UNCHANGED rec)
        /\ loop' = [loop EXCEPT !.pc = "attach"]
        /\ UNCHANGED md
     \/ /\ ~wantAttached(loop.seen) /\ md.attached /\ ctrl = None
        /\ md' = [md EXCEPT !.attached = FALSE]
        /\ loop' = [loop EXCEPT !.pc = "publish", !.changed = TRUE]
        /\ UNCHANGED <<rec, ctrl>>
     \/ /\ ctrl # None \/ wantAttached(loop.seen) = md.attached
        /\ loop' = [loop EXCEPT !.pc = "publish"]
        /\ UNCHANGED <<rec, md, ctrl>>
  /\ UNCHANGED <<last, poked, call, page>>

(* The rest of attachLocked: a session is made, or not; the descriptor of  *)
(* this pass is written again.                                             *)
Attach ==
  /\ loop.pc = "attach"
  /\ \/ /\ md' = [md EXCEPT !.tgt = loop.tgt, !.attached = TRUE, !.err = FALSE]
        /\ loop' = [loop EXCEPT !.pc = "publish", !.changed = TRUE]
     \/ /\ DiskFaults
        /\ loop' = [loop EXCEPT !.pc = "publish"]
        /\ UNCHANGED md
  /\ ctrl' = None
  /\ UNCHANGED <<rec, last, poked, call, page>>

PassPublishes ==
  /\ loop.pc = "publish"
  /\ IF loop.changed THEN Publish ELSE UNCHANGED page
  /\ loop' = [loop EXCEPT !.pc = "idle", !.changed = FALSE, !.tgt = "unknown"]
  /\ UNCHANGED <<rec, last, md, ctrl, poked, call>>

-----------------------------------------------------------------------------
(* Requests. *)

At(c, s) == call[c].pc = s
Go(c, s) == call' = [call EXCEPT ![c].pc = s]

Blank == [pc |-> "idle", kind |-> None, arg |-> None, tgt |-> "unknown", cfg |-> None]

(* Its locals are not read any more. *)
Drop(c, s) == call' = [call EXCEPT ![c] = [Blank EXCEPT !.pc = s, !.kind = call[c].kind]]
Done(c) == call' = [call EXCEPT ![c] = [Blank EXCEPT !.pc = "done"]]

(* One request of a kind, as the form sends it. *)
Asks(c, k) == At(c, "idle") /\ k \in Kinds

(* handleRename: the record, an event, and nothing else. *)
RenameStores(c) ==
  /\ Asks(c, "rename")
  /\ \E n \in Names : updateDevice("name", n)
  /\ call' = [call EXCEPT ![c] = [@ EXCEPT !.kind = "rename", !.pc = "publish"]]
  /\ UNCHANGED <<md, ctrl, poked, loop, page>>

TargetStores(c) ==
  /\ Asks(c, "target")
  /\ \E t \in Pins \cup {"unknown"} :
       /\ updateDevice("pin", t)
       /\ call' = [call EXCEPT ![c] = [@ EXCEPT !.kind = "target", !.arg = t, !.pc = "mirror"]]
  /\ UNCHANGED <<md, ctrl, poked, loop, page>>

(* A request that ends without a trace: its transaction failed, nobody     *)
(* knows the board yet, or it is gone or another's.                        *)
Refused(c) ==
  /\ \/ DiskFaults /\ At(c, "idle")
     \/ Asks(c, "config") /\ ~md.known
     \/ Asks(c, "debug") /\ (~md.known \/ md.presence = "Gone" \/ ctrl # None)
  /\ Done(c)
  /\ UNCHANGED <<rec, last, md, ctrl, poked, loop, page>>

(* An entry is made for a board that has none. A pin that was cleared is   *)
(* left to the next pass.                                                  *)
TargetMirrors(c) ==
  /\ At(c, "mirror")
  /\ md' = [md EXCEPT !.known = TRUE, !.tgt = IF call[c].arg = "unknown" THEN @ ELSE call[c].arg]
  /\ Drop(c, "publish")
  /\ UNCHANGED <<rec, last, ctrl, poked, loop, page>>

(* SetDebugConfig: the record it reads matters for an error only. *)
ConfigChecks(c) ==
  /\ Asks(c, "config")
  /\ md.known
  /\ \E d \in Configs :
       call' = [call EXCEPT ![c] = [pc |-> "store", kind |-> "config", arg |-> d,
                                    tgt |-> md.tgt, cfg |-> None]]
  /\ UNCHANGED <<rec, last, md, ctrl, poked, loop, page>>

ConfigRefused(c) ==
  /\ At(c, "store")
  /\ DiskFaults \/ effectiveDebugConfig(call[c].tgt, call[c].arg) = None
  /\ Done(c)
  /\ UNCHANGED <<rec, last, md, ctrl, poked, loop, page>>

ConfigStores(c) ==
  /\ At(c, "store")
  /\ effectiveDebugConfig(call[c].tgt, call[c].arg) # None
  /\ updateDevice("dbg", call[c].arg)
  /\ Drop(c, "publish")
  /\ UNCHANGED <<md, ctrl, poked, loop, page>>

(* Mutant: a pin that was changed waits for a tick. *)
PublishNoPoke(c) ==
  /\ At(c, "publish")
  /\ Publish
  /\ IF call[c].kind = "debug" THEN Go(c, "poke") ELSE Done(c)
  /\ UNCHANGED <<rec, last, md, ctrl, poked, loop>>

PublishChange(c) ==
  /\ At(c, "publish")
  /\ Publish
  /\ IF call[c].kind \in {"target", "debug"} THEN Go(c, "poke") ELSE Done(c)
  /\ UNCHANGED <<rec, last, md, ctrl, poked, loop>>

Poke(c) ==
  /\ At(c, "poke")
  /\ poked' = TRUE
  /\ Done(c)
  /\ UNCHANGED <<rec, last, md, ctrl, loop, page>>

(* StartDebug: the claim, as in Manager. Flash and EnterBootMode claim,     *)
(* detach and release in the same way.                                     *)
Claim(c) ==
  /\ Asks(c, "debug")
  /\ md.known /\ md.presence # "Gone" /\ ctrl = None
  /\ ctrl' = "request"
  /\ md' = [md EXCEPT !.busy = TRUE, !.err = FALSE]
  /\ call' = [call EXCEPT ![c] = [@ EXCEPT !.kind = "debug", !.pc = "announce"]]
  /\ UNCHANGED <<rec, last, poked, loop, page>>

Announce(c) ==
  /\ At(c, "announce")
  /\ Publish
  /\ Go(c, "desc")
  /\ UNCHANGED <<rec, last, md, ctrl, poked, loop>>

(* DebugConfigFor reads the descriptor, then the record. *)
ReadDesc(c) ==
  /\ At(c, "desc")
  /\ call' = [call EXCEPT ![c] = [@ EXCEPT !.tgt = md.tgt, !.pc = "record"]]
  /\ UNCHANGED <<rec, last, md, ctrl, poked, loop, page>>

ReadConfig(c) ==
  /\ At(c, "record")
  /\ effectiveDebugConfig(call[c].tgt, rec.dbg) # None
  /\ call' = [call EXCEPT ![c] =
                [@ EXCEPT !.cfg = effectiveDebugConfig(call[c].tgt, rec.dbg),
                          !.pc = "launch"]]
  /\ UNCHANGED <<rec, last, md, ctrl, poked, loop, page>>

(* No record, no target, no free port, or OpenOCD does not come up. *)
StartFails(c) ==
  /\ \/ /\ At(c, "record")
        /\ DiskFaults \/ effectiveDebugConfig(call[c].tgt, rec.dbg) = None
        /\ md' = [md EXCEPT !.err = TRUE]
     \/ /\ At(c, "launch")
        /\ \E a \in {md.attached, FALSE} : md' = [md EXCEPT !.attached = a, !.err = TRUE]
  /\ Drop(c, "end")
  /\ UNCHANGED <<rec, last, ctrl, poked, loop, page>>

Launch(c) ==
  /\ At(c, "launch")
  /\ md' = [md EXCEPT !.attached = FALSE]
  /\ Publish
  /\ Drop(c, "serve")
  /\ UNCHANGED <<rec, last, ctrl, poked, loop>>

SessionEnds(c) ==
  /\ At(c, "serve")
  /\ \E e \in {md.err, TRUE} : md' = [md EXCEPT !.err = e]
  /\ Go(c, "end")
  /\ UNCHANGED <<rec, last, ctrl, poked, loop, page>>

Release(c) ==
  /\ At(c, "end")
  /\ md' = [md EXCEPT !.busy = FALSE]
  /\ ctrl' = None
  /\ Go(c, "publish")
  /\ UNCHANGED <<rec, last, poked, loop, page>>

-----------------------------------------------------------------------------
Init ==
  /\ rec \in {NoRecord} \cup {[NewRecord EXCEPT !.pin = p] : p \in Pins \cup {"unknown"}}
  /\ last = Settings(rec)
  /\ md = [known |-> FALSE, presence |-> "Gone", tgt |-> "unknown",
           attached |-> FALSE, busy |-> FALSE, err |-> FALSE]
  /\ ctrl = None
  /\ poked = FALSE
  /\ loop = [pc |-> "idle", seen |-> None, tgt |-> "unknown",
             changed |-> FALSE, failed |-> FALSE]
  /\ call = [c \in Calls |-> Blank]
  /\ calm = {}
  /\ page = NoPage

(* The last pass was complete, and no pin was stored since that it has not *)
(* seen.                                                                   *)
Settled ==
  /\ loop.pc = "idle" /\ ~loop.failed /\ ~poked
  /\ \A c \in Calls : call[c].kind # "target" \/ ~(call[c].pc \in Owing)

(* Settings do not change while a debug session is being prepared. *)
Watch ==
  calm' = {c \in Calls :
    /\ call'[c].kind = "debug" /\ call'[c].pc \in Claiming
    /\ Settled'
    /\ At(c, "idle") \/ (c \in calm /\ rec' = rec)}

Loop ==
  \/ Scan \/ ScanFails \/ ReadRecord \/ CreateRecord \/ Observe \/ Converge
  \/ Attach \/ PassPublishes

Request(c) ==
  \/ Refused(c) \/ RenameStores(c) \/ TargetStores(c) \/ TargetMirrors(c)
  \/ ConfigChecks(c) \/ ConfigRefused(c) \/ ConfigStores(c)
  \/ PublishChange(c) \/ Poke(c)
  \/ Claim(c) \/ Announce(c) \/ ReadDesc(c)
  \/ ReadConfig(c) \/ StartFails(c) \/ Launch(c) \/ SessionEnds(c) \/ Release(c)

Browser == Open \/ Close \/ Subscribe \/ Fetch \/ Swap

Next ==
  \/ Loop /\ Watch
  \/ (\E c \in Calls : Request(c)) /\ Watch
  \/ Browser /\ UNCHANGED calm

Spec == Init /\ [][Next]_vars

-----------------------------------------------------------------------------
(* Every setting that was stored is still there (store.go:214): the loop   *)
(* and the forms write the same record, each another field of it, and none *)
(* of them, nor a read that failed (manager.go:276), undoes another.       *)
LastWriteStands == Settings(rec) = last

(* The family pinned for the board, or the one discovery says. *)
StoredFamily == IF rec.pin # "unknown" THEN rec.pin ELSE classifyTarget(loop.seen)

(* Once passes and forms have come to rest, a board that is on the bus is  *)
(* of the family pinned for it, or of the one discovery says               *)
(* (manager.go:657), although a pass writes the descriptor twice from a    *)
(* record it read before.                                                  *)
PinTakesHold == Settled /\ loop.seen # None => md.tgt = StoredFamily

(* A debug session runs with the stored configuration, completed for the   *)
(* pinned or discovered family (debug.go:63), if neither changes while it  *)
(* is being prepared.                                                      *)
SessionUsesSettings ==
  [][\A c \in calm : At(c, "launch") /\ call'[c].pc = "serve" =>
       call[c].cfg = IF rec.dbg # None THEN rec.dbg
                     ELSE defaultDebugConfig(StoredFamily)]_vars

(* Someone is between a change of the entry and its event: a request, or a *)
(* pass that has just seen the board come.                                 *)
EventDue ==
  \/ \E c \in Calls : call[c].pc \in {"announce", "end", "publish"}
  \/ loop.changed
  \/ loop.pc \in {"read", "create", "observe"} /\ md.presence = "Gone"

AtRest ==
  /\ page.at = "live" /\ ~page.due /\ ~page.fetch /\ ~page.gap
  /\ ~EventDue

(* A page that has missed no event since it last asked (html.templ:71), and *)
(* has none to act on, shows the board's badge and its last error.         *)
PageFollows ==
  AtRest => page.view.badge = stateBadge /\ page.view.err = md.err

(* The same for all it shows, once the passes have come to rest: the       *)
(* "devices" event "carries device-list/state changes" (sse.go:29).        *)
PageShowsAll == AtRest /\ Settled => page.view = View
=============================================================================
