---------------------------- MODULE RecordsProofs ----------------------------
(***************************************************************************)
(* Proofs about the board's record: for every set of requests, labels,     *)
(* pins and boards, no setting is lost, a pin takes hold, a debug session  *)
(* runs by what is stored, and a page shows what the manager knows.        *)
(***************************************************************************)
EXTENDS Records, TLAPS

-----------------------------------------------------------------------------
(* The inductive invariant: what the loop has seen and read, what a debug  *)
(* request has read, and what the page has got.                            *)

(* A board that is read about has been seen, and a pass has something to   *)
(* report once it has observed it.                                         *)
ReadsSeen ==
  /\ loop.pc \in {"read", "create"} => loop.seen # None
  /\ loop.changed => loop.pc \in {"converge", "attach", "publish"}

(* What a form has sent fits what it is for.                               *)
ArgsFit ==
  \A c \in Calls :
    /\ call[c].pc = "mirror" => call[c].kind = "target" /\ call[c].arg \in Pins \cup {"unknown"}
    /\ call[c].pc = "store" => call[c].arg \in OcdTargets \cup {None}

(* The entry shows the presence that the last pass has seen, until the     *)
(* next has got as far; a board that has no entry is not there.            *)
Sighted ==
  /\ loop.pc \notin {"read", "create", "observe"} => md.presence = PresenceOf(loop.seen)
  /\ ~md.known => md.presence = "Gone"
  /\ loop.pc # "idle" => md.known

(* No form has stored a pin that the pass under way, or the last one, has  *)
(* not seen: it would have poked, or be about to.                          *)
NoPinOwed ==
  /\ ~loop.failed /\ ~poked
  /\ \A c \in Calls : call[c].kind # "target" \/ ~(call[c].pc \in Owing)

(* A pass holds the family that is stored from its read on, and so does    *)
(* the entry from the moment it was observed.                              *)
PassHoldsPin ==
  NoPinOwed /\ loop.seen # None =>
    /\ loop.pc \in {"observe", "converge", "attach", "publish"} => loop.tgt = StoredFamily
    /\ loop.pc \in {"idle", "converge", "attach", "publish"} => md.tgt = StoredFamily

(* A debug request during which nothing changed goes by what is stored.    *)
CalmSettings ==
  \A c \in calm :
    /\ call[c].kind = "debug" /\ call[c].pc \in Claiming
    /\ Settled /\ loop.seen # None
    /\ call[c].pc \in {"record", "launch"} => call[c].tgt = StoredFamily
    /\ call[c].pc = "launch" => call[c].cfg = effectiveDebugConfig(call[c].tgt, rec.dbg)

(* As EventDue, but a pass that has not seen the board owes none.          *)
EventComes ==
  \/ \E c \in Calls : call[c].pc \in {"announce", "end", "publish"}
  \/ loop.changed
  \/ loop.pc \in {"read", "create", "observe"} /\ loop.seen # None /\ md.presence = "Gone"

(* What a page has, shown or still on its way, is what the entry says,     *)
(* unless an event tells it, told it, or was missed.                       *)
PageKnows ==
  page.at # "closed" /\ ~page.due /\ ~page.gap /\ ~EventComes =>
    page.view.badge = stateBadge /\ page.view.err = md.err

RecordInv ==
  /\ TypeOK
  /\ LastWriteStands
  /\ ReadsSeen /\ ArgsFit /\ Sighted
  /\ PassHoldsPin /\ CalmSettings
  /\ PageKnows

-----------------------------------------------------------------------------
(* The types, in parts.                                                    *)
RecordTypes ==
  /\ rec \in [found: BOOLEAN, name: Names \cup {""}, pin: Pins \cup {"unknown"},
              dbg: OcdTargets \cup {None}]
  /\ last \in [name: Names \cup {""}, pin: Pins \cup {"unknown"}, dbg: OcdTargets \cup {None}]

EntryTypes ==
  md \in [known: BOOLEAN, presence: {"Gone", "OnConsole", "OnBootsel"},
          tgt: Families \cup {"unknown"}, attached: BOOLEAN, busy: BOOLEAN, err: BOOLEAN]

LoopTypes ==
  loop \in [pc: {"idle", "read", "create", "observe", "converge", "attach", "publish"},
            seen: Usb \cup {None}, tgt: Families \cup {"unknown"}, changed: BOOLEAN,
            failed: BOOLEAN]

CallType ==
  [pc: {"idle", "store", "serve", "end", "done"} \cup Owing \cup Claiming,
   kind: AllKinds \cup {None},
   arg: Names \cup Pins \cup OcdTargets \cup {"", "unknown", None},
   tgt: Families \cup {"unknown"}, cfg: OcdTargets \cup {None}]

CallTypes == call \in [Calls -> CallType]

PageTypes ==
  page \in [at: {"closed", "rendered", "live"}, due: BOOLEAN, gap: BOOLEAN,
            fetch: BOOLEAN, view: Views]

OtherTypes == ctrl \in {None, "loop", "request"} /\ poked \in BOOLEAN /\ calm \subseteq Calls

(* Together they are the type invariant.                                   *)
LEMMA TypeParts ==
  TypeOK <=> /\ RecordTypes /\ EntryTypes /\ LoopTypes
             /\ CallTypes /\ PageTypes /\ OtherTypes
BY DEF TypeOK, RecordTypes, EntryTypes, LoopTypes, CallTypes, CallType,
       PageTypes, OtherTypes

(* What discovery and the settings yield.                                  *)
LEMMA Derived ==
  /\ \A u \in Usb : classifyTarget(u) \in Families
  /\ \A u : PresenceOf(u) \in {"Gone", "OnConsole", "OnBootsel"}
  /\ \A u \in Usb \cup {None} : PresenceOf(u) = "Gone" <=> u = None
  /\ \A t \in Families \cup {"unknown"}, d \in OcdTargets \cup {None} :
       effectiveDebugConfig(t, d) \in OcdTargets \cup {None}
  /\ Configs \subseteq OcdTargets \cup {None} /\ Pins \subseteq Families
BY RecordsAssumption
   DEF classifyTarget, PresenceOf, BootSel, Families, UsbIds, effectiveDebugConfig,
       defaultDebugConfig, OcdTargets, None

(* The handlers that write a setting, and those that change the entry.     *)
Stores(c) == RenameStores(c) \/ TargetStores(c) \/ ConfigStores(c)
Changes(c) ==
  \/ TargetMirrors(c) \/ Claim(c) \/ StartFails(c)
  \/ Launch(c) \/ SessionEnds(c) \/ Release(c)

(* Who changes what.                                                       *)
Frames ==
  /\ \/ UNCHANGED <<rec, last>>
     \/ rec' = Found /\ UNCHANGED last
     \/ \E c \in Calls : Stores(c)
  /\ UNCHANGED md \/ Scan \/ Observe \/ Converge \/ Attach \/ \E c \in Calls : Changes(c)
  /\ UNCHANGED loop \/ Loop
  /\ UNCHANGED call \/ \E c \in Calls : Request(c)
  /\ UNCHANGED page \/ Publish \/ Browser
  /\ ctrl' \in {ctrl, None, "loop", "request"} /\ poked' \in {poked, TRUE, FALSE}

(* Every step keeps to that.                                               *)
LEMMA StepFrames ==
  ASSUME [Next]_vars
  PROVE  Frames
<1> USE DEF Frames
<1>1. CASE Scan
  BY <1>1 DEF Scan, Loop
<1>2. CASE ScanFails
  BY <1>2 DEF ScanFails, Loop
<1>3. CASE ReadRecord
  BY <1>3 DEF ReadRecord, Loop
<1>4. CASE CreateRecord
  BY <1>4 DEF CreateRecord, Loop, DeviceSeen
<1>5. CASE Observe
  BY <1>5 DEF Observe, Loop
<1>6. CASE Converge
  BY <1>6 DEF Converge, Loop, DeviceSeen
<1>7. CASE Attach
  BY <1>7 DEF Attach, Loop
<1>8. CASE PassPublishes
  BY <1>8 DEF PassPublishes, Loop
<1>9. ASSUME NEW c \in Calls, Refused(c)
      PROVE  Frames
  BY <1>9 DEF Refused, Request
<1>10. ASSUME NEW c \in Calls, RenameStores(c)
      PROVE  Frames
  BY <1>10 DEF RenameStores, Request, Stores
<1>11. ASSUME NEW c \in Calls, TargetStores(c)
      PROVE  Frames
  BY <1>11 DEF TargetStores, Request, Stores
<1>12. ASSUME NEW c \in Calls, TargetMirrors(c)
      PROVE  Frames
  BY <1>12 DEF TargetMirrors, Request, Changes
<1>13. ASSUME NEW c \in Calls, ConfigChecks(c)
      PROVE  Frames
  BY <1>13 DEF ConfigChecks, Request
<1>14. ASSUME NEW c \in Calls, ConfigRefused(c)
      PROVE  Frames
  BY <1>14 DEF ConfigRefused, Request
<1>15. ASSUME NEW c \in Calls, ConfigStores(c)
      PROVE  Frames
  BY <1>15 DEF ConfigStores, Request, Stores
<1>16. ASSUME NEW c \in Calls, PublishChange(c)
      PROVE  Frames
  BY <1>16 DEF PublishChange, Request
<1>17. ASSUME NEW c \in Calls, Poke(c)
      PROVE  Frames
  BY <1>17 DEF Poke, Request
<1>18. ASSUME NEW c \in Calls, Claim(c)
      PROVE  Frames
  BY <1>18 DEF Claim, Request, Changes
<1>19. ASSUME NEW c \in Calls, Announce(c)
      PROVE  Frames
  BY <1>19 DEF Announce, Request
<1>20. ASSUME NEW c \in Calls, ReadDesc(c)
      PROVE  Frames
  BY <1>20 DEF ReadDesc, Request
<1>21. ASSUME NEW c \in Calls, ReadConfig(c)
      PROVE  Frames
  BY <1>21 DEF ReadConfig, Request
<1>22. ASSUME NEW c \in Calls, StartFails(c)
      PROVE  Frames
  BY <1>22 DEF StartFails, Request, Changes
<1>23. ASSUME NEW c \in Calls, Launch(c)
      PROVE  Frames
  BY <1>23 DEF Launch, Request, Changes
<1>24. ASSUME NEW c \in Calls, SessionEnds(c)
      PROVE  Frames
  BY <1>24 DEF SessionEnds, Request, Changes
<1>25. ASSUME NEW c \in Calls, Release(c)
      PROVE  Frames
  BY <1>25 DEF Release, Request, Changes
<1>26. CASE Open
  BY <1>26 DEF Open, Browser, storeAndLoop
<1>27. CASE Close
  BY <1>27 DEF Close, Browser, storeAndLoop
<1>28. CASE Subscribe
  BY <1>28 DEF Subscribe, Browser, storeAndLoop
<1>29. CASE Fetch
  BY <1>29 DEF Fetch, Browser, storeAndLoop
<1>30. CASE Swap
  BY <1>30 DEF Swap, Browser, storeAndLoop
<1>31. CASE UNCHANGED vars
  BY <1>31 DEF vars
<1>. QED
  BY <1>1, <1>2, <1>3, <1>4, <1>5, <1>6, <1>7, <1>8, <1>9, <1>10, <1>11,
     <1>12, <1>13, <1>14, <1>15, <1>16, <1>17, <1>18, <1>19, <1>20, <1>21,
     <1>22, <1>23, <1>24, <1>25, <1>26, <1>27, <1>28, <1>29, <1>30, <1>31
     DEF Next, Loop, Request, Browser

(* The record keeps its type, and the history of its settings with it:     *)
(* whoever writes the record reads it in the same transaction, and sets    *)
(* one field of it.                                                        *)
LEMMA RecordTypesStep ==
  ASSUME RecordTypes, LastWriteStands, ArgsFit, [Next]_vars
  PROVE  RecordTypes' /\ LastWriteStands'
<1> USE DEF RecordTypes, LastWriteStands, Settings
<1>1. CASE UNCHANGED <<rec, last>>
  BY <1>1
<1>2. CASE rec' = Found /\ UNCHANGED last
  BY <1>2 DEF Found
<1>3. ASSUME NEW n \in Names \cup {""}, updateDevice("name", n)
      PROVE  RecordTypes' /\ LastWriteStands'
  BY <1>3 DEF updateDevice, Found
<1>4. ASSUME NEW t \in Pins \cup {"unknown"}, updateDevice("pin", t)
      PROVE  RecordTypes' /\ LastWriteStands'
  BY <1>4 DEF updateDevice, Found
<1>5. ASSUME NEW d \in OcdTargets \cup {None}, updateDevice("dbg", d)
      PROVE  RecordTypes' /\ LastWriteStands'
  BY <1>5 DEF updateDevice, Found
<1>6. ASSUME NEW c \in Calls, Stores(c)
      PROVE  RecordTypes' /\ LastWriteStands'
  <2>1. CASE RenameStores(c)
    BY <1>3, <2>1 DEF RenameStores
  <2>2. CASE TargetStores(c)
    BY <1>4, <2>2 DEF TargetStores
  <2>3. CASE ConfigStores(c)
    <3>1. call[c].arg \in OcdTargets \cup {None} /\ updateDevice("dbg", call[c].arg)
      BY <1>6, <2>3 DEF ConfigStores, ArgsFit, At
    <3>. QED
      BY <1>5, <3>1
  <2>. QED
    BY <1>6, <2>1, <2>2, <2>3 DEF Stores
<1>. QED
  BY <1>1, <1>2, <1>6, StepFrames DEF Frames

(* The loop works on the board it has seen, or on none.                    *)
LEMMA LoopTypesStep ==
  ASSUME RecordTypes, LoopTypes, ReadsSeen, [Next]_vars
  PROVE  LoopTypes' /\ ReadsSeen'
<1> USE DEF LoopTypes, ReadsSeen
<1>a. rec.pin \in Pins \cup {"unknown"}
  BY DEF RecordTypes
<1>b. None \notin Usb /\ Pins \subseteq Families /\ \A u \in Usb : classifyTarget(u) \in Families
  BY RecordsAssumption, Derived DEF UsbIds, None
<1>1. CASE Scan
  BY <1>1, <1>b DEF Scan
<1>2. CASE ScanFails
  BY <1>2 DEF ScanFails
<1>3. CASE ReadRecord
  BY <1>3, <1>a, <1>b DEF ReadRecord, Overlay, applyRecord
<1>4. CASE CreateRecord
  <2>1. loop.seen \in Usb
    BY <1>4 DEF CreateRecord
  <2>2. rec'.pin = rec.pin
    BY <1>4 DEF CreateRecord, DeviceSeen, Found, RecordTypes
  <2>. QED
    BY <1>4, <1>a, <1>b, <2>1, <2>2 DEF CreateRecord, Overlay, applyRecord
<1>5. CASE Observe
  BY <1>5 DEF Observe
<1>6. CASE Converge
  BY <1>6 DEF Converge
<1>7. CASE Attach
  BY <1>7 DEF Attach
<1>8. CASE PassPublishes
  BY <1>8 DEF PassPublishes
<1>9. CASE UNCHANGED loop
  BY <1>9
<1>. QED
  BY <1>1, <1>2, <1>3, <1>4, <1>5, <1>6, <1>7, <1>8, <1>9, StepFrames
     DEF Frames, Loop

(* The entry keeps its type.                                               *)
LEMMA EntryTypesStep ==
  ASSUME EntryTypes, LoopTypes, ArgsFit, [Next]_vars
  PROVE  EntryTypes'
<1> USE DEF EntryTypes, LoopTypes
<1>1. CASE UNCHANGED md
  BY <1>1
<1>2. CASE Scan
  BY <1>2 DEF Scan
<1>3. CASE Observe
  BY <1>3, Derived DEF Observe
<1>4. CASE Converge
  BY <1>4 DEF Converge
<1>5. CASE Attach
  BY <1>5 DEF Attach
<1>6. ASSUME NEW c \in Calls, TargetMirrors(c)
      PROVE  EntryTypes'
  <2>1. call[c].arg \in Families \cup {"unknown"}
    BY <1>6, Derived DEF TargetMirrors, At, ArgsFit
  <2>. QED
    BY <1>6, <2>1 DEF TargetMirrors
<1>7. ASSUME NEW c \in Calls, Claim(c)
      PROVE  EntryTypes'
  BY <1>7 DEF Claim
<1>8. ASSUME NEW c \in Calls, StartFails(c)
      PROVE  EntryTypes'
  BY <1>8 DEF StartFails
<1>9. ASSUME NEW c \in Calls, Launch(c)
      PROVE  EntryTypes'
  BY <1>9 DEF Launch
<1>10. ASSUME NEW c \in Calls, SessionEnds(c)
      PROVE  EntryTypes'
  BY <1>10 DEF SessionEnds
<1>11. ASSUME NEW c \in Calls, Release(c)
      PROVE  EntryTypes'
  BY <1>11 DEF Release
<1>. QED
  BY <1>1, <1>2, <1>3, <1>4, <1>5, <1>6, <1>7, <1>8, <1>9, <1>10, <1>11,
     StepFrames
     DEF Frames, Changes

(* One request changes, to one that is of the type.                        *)
LEMMA CallChanges ==
  ASSUME CallTypes, NEW c \in Calls, NEW r \in CallType,
         call' = [call EXCEPT ![c] = r]
  PROVE  CallTypes'
BY DEF CallTypes

(* A field changes, within its type.                                       *)
LEMMA CallPc ==
  ASSUME NEW r \in CallType,
         NEW s \in {"idle", "store", "serve", "end", "done"} \cup Owing \cup Claiming
  PROVE  [r EXCEPT !.pc = s] \in CallType
BY DEF CallType

LEMMA CallKind ==
  ASSUME NEW r \in CallType, NEW k \in AllKinds \cup {None}
  PROVE  [r EXCEPT !.kind = k] \in CallType
BY DEF CallType

LEMMA CallArg ==
  ASSUME NEW r \in CallType,
         NEW a \in Names \cup Pins \cup OcdTargets \cup {"", "unknown", None}
  PROVE  [r EXCEPT !.arg = a] \in CallType
BY DEF CallType

LEMMA CallTgt ==
  ASSUME NEW r \in CallType, NEW t \in Families \cup {"unknown"}
  PROVE  [r EXCEPT !.tgt = t] \in CallType
BY DEF CallType

LEMMA CallCfg ==
  ASSUME NEW r \in CallType, NEW d \in OcdTargets \cup {None}
  PROVE  [r EXCEPT !.cfg = d] \in CallType
BY DEF CallType

(* A handler goes on, with its locals or without, or returns.              *)
Stages == {"idle", "store", "serve", "end", "done"} \cup Owing \cup Claiming

LEMMA GoesOn ==
  ASSUME CallTypes, NEW c \in Calls, NEW s \in Stages, Go(c, s)
  PROVE  CallTypes'
<1>1. call[c] \in CallType
  BY DEF CallTypes
<1>2. [call[c] EXCEPT !.pc = s] \in CallType
  BY <1>1, CallPc DEF Stages
<1>. QED
  BY <1>2, CallChanges DEF Go

LEMMA DropsLocals ==
  ASSUME CallTypes, NEW c \in Calls, NEW s \in Stages, Drop(c, s) \/ Done(c)
  PROVE  CallTypes'
<1>1. Blank \in CallType
  BY DEF Blank, CallType
<1>2. call[c].kind \in AllKinds \cup {None}
  BY DEF CallTypes, CallType
<1>3. CASE Drop(c, s)
  <2>1. [[Blank EXCEPT !.pc = s] EXCEPT !.kind = call[c].kind] \in CallType
    BY <1>1, <1>2, CallPc, CallKind DEF Stages
  <2>2. call' = [call EXCEPT ![c] = [[Blank EXCEPT !.pc = s] EXCEPT !.kind = call[c].kind]]
    BY <1>3 DEF Drop, Blank
  <2>. QED
    BY <2>1, <2>2, CallChanges
<1>4. CASE Done(c)
  <2>1. [Blank EXCEPT !.pc = "done"] \in CallType
    BY <1>1, CallPc
  <2>. QED
    BY <1>4, <2>1, CallChanges DEF Done
<1>. QED
  BY <1>3, <1>4

(* The requests keep their type.                                           *)
LEMMA CallTypesStep ==
  ASSUME RecordTypes, EntryTypes, CallTypes, [Next]_vars
  PROVE  CallTypes'
<1>a. \A c \in Calls : call[c] \in CallType
  BY DEF CallTypes
<1>1. ASSUME NEW c \in Calls, Refused(c)
      PROVE  CallTypes'
  BY <1>1, DropsLocals DEF Refused, Stages
<1>2. ASSUME NEW c \in Calls, RenameStores(c)
      PROVE  CallTypes'
  <2>1. call' = [call EXCEPT ![c] = [[call[c] EXCEPT !.kind = "rename"] EXCEPT !.pc = "publish"]]
    BY <1>2 DEF RenameStores, Asks, At, updateDevice, Found
  <2>2. [[call[c] EXCEPT !.kind = "rename"] EXCEPT !.pc = "publish"] \in CallType
    BY <1>a, CallKind, CallPc DEF AllKinds, Owing
  <2>. QED
    BY <2>1, <2>2, CallChanges
<1>3. ASSUME NEW c \in Calls, TargetStores(c)
      PROVE  CallTypes'
  <2>1. PICK t \in Pins \cup {"unknown"} :
          call' = [call EXCEPT ![c] = [@ EXCEPT !.kind = "target", !.arg = t, !.pc = "mirror"]]
    BY <1>3 DEF TargetStores
  <2>. DEFINE r == [[call[c] EXCEPT !.kind = "target"] EXCEPT !.arg = t]
  <2>2. call' = [call EXCEPT ![c] = [r EXCEPT !.pc = "mirror"]]
    BY <2>1
  <2>3. r \in CallType
    BY <1>a, CallKind, CallArg DEF AllKinds
  <2>. HIDE DEF r
  <2>4. [r EXCEPT !.pc = "mirror"] \in CallType
    BY <2>3, CallPc DEF Owing
  <2>. QED
    BY <2>2, <2>4, CallChanges
<1>4. ASSUME NEW c \in Calls, TargetMirrors(c)
      PROVE  CallTypes'
  BY <1>4, DropsLocals DEF TargetMirrors, Stages, Owing
<1>5. ASSUME NEW c \in Calls, ConfigChecks(c)
      PROVE  CallTypes'
  <2>1. PICK d \in Configs :
          call' = [call EXCEPT ![c] = [pc |-> "store", kind |-> "config", arg |-> d,
                                       tgt |-> md.tgt, cfg |-> None]]
    BY <1>5 DEF ConfigChecks
  <2>2. [pc |-> "store", kind |-> "config", arg |-> d, tgt |-> md.tgt, cfg |-> None]
          \in CallType
    BY Derived DEF CallType, EntryTypes, AllKinds
  <2>. QED
    BY <2>1, <2>2, CallChanges
<1>6. ASSUME NEW c \in Calls, ConfigRefused(c)
      PROVE  CallTypes'
  BY <1>6, DropsLocals DEF ConfigRefused, Stages
<1>7. ASSUME NEW c \in Calls, ConfigStores(c)
      PROVE  CallTypes'
  BY <1>7, DropsLocals DEF ConfigStores, Stages, Owing
<1>8. ASSUME NEW c \in Calls, PublishChange(c)
      PROVE  CallTypes'
  BY <1>8, GoesOn, DropsLocals DEF PublishChange, Stages, Owing
<1>9. ASSUME NEW c \in Calls, Poke(c)
      PROVE  CallTypes'
  BY <1>9, DropsLocals DEF Poke, Stages
<1>10. ASSUME NEW c \in Calls, Claim(c)
      PROVE  CallTypes'
  <2>1. call' = [call EXCEPT ![c] = [[call[c] EXCEPT !.kind = "debug"] EXCEPT !.pc = "announce"]]
    BY <1>10 DEF Claim, Asks, At
  <2>2. [[call[c] EXCEPT !.kind = "debug"] EXCEPT !.pc = "announce"] \in CallType
    BY <1>a, CallKind, CallPc DEF AllKinds, Claiming
  <2>. QED
    BY <2>1, <2>2, CallChanges
<1>11. ASSUME NEW c \in Calls, Announce(c)
      PROVE  CallTypes'
  BY <1>11, GoesOn DEF Announce, Stages, Owing, Claiming
<1>12. ASSUME NEW c \in Calls, ReadDesc(c)
      PROVE  CallTypes'
  <2>1. call' = [call EXCEPT ![c] = [[call[c] EXCEPT !.tgt = md.tgt] EXCEPT !.pc = "record"]]
    BY <1>12 DEF ReadDesc, At
  <2>2. [[call[c] EXCEPT !.tgt = md.tgt] EXCEPT !.pc = "record"] \in CallType
    BY <1>a, CallTgt, CallPc DEF EntryTypes, Claiming
  <2>. QED
    BY <2>1, <2>2, CallChanges
<1>13. ASSUME NEW c \in Calls, ReadConfig(c)
      PROVE  CallTypes'
  <2>. DEFINE d == effectiveDebugConfig(call[c].tgt, rec.dbg)
  <2>1. call' = [call EXCEPT ![c] = [[call[c] EXCEPT !.cfg = d] EXCEPT !.pc = "launch"]]
    BY <1>13 DEF ReadConfig
  <2>2. d \in OcdTargets \cup {None}
    BY <1>a, Derived DEF RecordTypes, CallType
  <2>. HIDE DEF d
  <2>3. [[call[c] EXCEPT !.cfg = d] EXCEPT !.pc = "launch"] \in CallType
    BY <1>a, <2>2, CallCfg, CallPc DEF Claiming
  <2>. QED
    BY <2>1, <2>3, CallChanges
<1>14. ASSUME NEW c \in Calls, StartFails(c)
      PROVE  CallTypes'
  BY <1>14, DropsLocals DEF StartFails, Stages, Owing
<1>15. ASSUME NEW c \in Calls, Launch(c)
      PROVE  CallTypes'
  BY <1>15, DropsLocals DEF Launch, Stages, Owing
<1>16. ASSUME NEW c \in Calls, SessionEnds(c)
      PROVE  CallTypes'
  BY <1>16, GoesOn DEF SessionEnds, Stages, Owing, Claiming
<1>17. ASSUME NEW c \in Calls, Release(c)
      PROVE  CallTypes'
  BY <1>17, GoesOn DEF Release, Stages, Owing, Claiming
<1>18. CASE UNCHANGED call
  BY <1>18 DEF CallTypes
<1>. QED
  BY <1>1, <1>2, <1>3, <1>4, <1>5, <1>6, <1>7, <1>8, <1>9, <1>10, <1>11,
     <1>12, <1>13, <1>14, <1>15, <1>16, <1>17, <1>18, StepFrames
     DEF Frames, Request

(* What the requests do to each other, to the entry and to the loop: each  *)
(* only to what it names.                                                  *)
LEMMA RefusedDoes ==
  ASSUME CallTypes, EntryTypes, RecordTypes, NEW c \in Calls, Refused(c)
  PROVE  /\ call'[c].pc = "done" /\ call'[c].kind = None /\ At(c, "idle")
         /\ UNCHANGED <<rec, md, poked, loop, page>>
         /\ \A d \in Calls \ {c} : call'[d] = call[d]
BY DEF Refused, Asks, At, Done, Blank, CallTypes

LEMMA RenameStoresDoes ==
  ASSUME CallTypes, EntryTypes, RecordTypes, NEW c \in Calls, RenameStores(c)
  PROVE  /\ call'[c].pc = "publish" /\ call'[c].kind = "rename"
         /\ At(c, "idle") /\ rec'.pin = rec.pin
         /\ UNCHANGED <<md, poked, loop, page>>
         /\ \A d \in Calls \ {c} : call'[d] = call[d]
<1>1. rec'.pin = rec.pin
  BY DEF RenameStores, updateDevice, Found, RecordTypes
<1>2. /\ call' = [call EXCEPT ![c] = [@ EXCEPT !.kind = "rename", !.pc = "publish"]]
      /\ At(c, "idle") /\ UNCHANGED <<md, poked, loop, page>>
  BY DEF RenameStores, Asks
<1>. QED
  BY <1>1, <1>2 DEF CallTypes, CallType

LEMMA TargetStoresDoes ==
  ASSUME CallTypes, EntryTypes, RecordTypes, NEW c \in Calls, TargetStores(c)
  PROVE  /\ call'[c].pc = "mirror" /\ call'[c].kind = "target"
         /\ call'[c].arg \in Pins \cup {"unknown"} /\ At(c, "idle")
         /\ UNCHANGED <<md, poked, loop, page>>
         /\ \A d \in Calls \ {c} : call'[d] = call[d]
<1>1. PICK t \in Pins \cup {"unknown"} :
        call' = [call EXCEPT ![c] = [@ EXCEPT !.kind = "target", !.arg = t, !.pc = "mirror"]]
  BY DEF TargetStores
<1>2. At(c, "idle") /\ UNCHANGED <<md, poked, loop, page>>
  BY DEF TargetStores, Asks
<1>. QED
  BY <1>1, <1>2 DEF CallTypes, CallType

LEMMA TargetMirrorsDoes ==
  ASSUME CallTypes, EntryTypes, RecordTypes, NEW c \in Calls, TargetMirrors(c)
  PROVE  /\ call'[c].pc = "publish" /\ call'[c].kind = call[c].kind
         /\ At(c, "mirror") /\ md'.presence = md.presence /\ md'.known
         /\ UNCHANGED <<rec, poked, loop, page>>
         /\ \A d \in Calls \ {c} : call'[d] = call[d]
BY DEF TargetMirrors, At, Drop, Blank, CallTypes, EntryTypes

LEMMA ConfigChecksDoes ==
  ASSUME CallTypes, EntryTypes, RecordTypes, NEW c \in Calls, ConfigChecks(c)
  PROVE  /\ call'[c].pc = "store" /\ call'[c].kind = "config"
         /\ call'[c].arg \in Configs /\ At(c, "idle")
         /\ UNCHANGED <<rec, md, poked, loop, page>>
         /\ \A d \in Calls \ {c} : call'[d] = call[d]
BY DEF ConfigChecks, Asks, At, CallTypes

LEMMA ConfigRefusedDoes ==
  ASSUME CallTypes, EntryTypes, RecordTypes, NEW c \in Calls, ConfigRefused(c)
  PROVE  /\ call'[c].pc = "done" /\ call'[c].kind = None /\ At(c, "store")
         /\ UNCHANGED <<rec, md, poked, loop, page>>
         /\ \A d \in Calls \ {c} : call'[d] = call[d]
BY DEF ConfigRefused, At, Done, Blank, CallTypes

LEMMA ConfigStoresDoes ==
  ASSUME CallTypes, EntryTypes, RecordTypes, NEW c \in Calls, ConfigStores(c)
  PROVE  /\ call'[c].pc = "publish" /\ call'[c].kind = call[c].kind
         /\ At(c, "store") /\ rec'.pin = rec.pin
         /\ UNCHANGED <<md, poked, loop, page>>
         /\ \A d \in Calls \ {c} : call'[d] = call[d]
BY DEF ConfigStores, At, updateDevice, Found, Drop, Blank, CallTypes,
       RecordTypes

LEMMA PublishChangeDoes ==
  ASSUME CallTypes, EntryTypes, RecordTypes, NEW c \in Calls, PublishChange(c)
  PROVE  /\ \/ call[c].kind \in {"target", "debug"} /\ call'[c].pc = "poke" /\ call'[c].kind = call[c].kind
            \/ call[c].kind # "target" /\ call'[c].pc = "done" /\ call'[c].kind = None
         /\ At(c, "publish") /\ UNCHANGED <<rec, md, poked, loop>>
         /\ \A d \in Calls \ {c} : call'[d] = call[d]
BY DEF PublishChange, At, Go, Done, Blank, CallTypes, CallType

LEMMA PokeDoes ==
  ASSUME CallTypes, EntryTypes, RecordTypes, NEW c \in Calls, Poke(c)
  PROVE  /\ call'[c].pc = "done" /\ call'[c].kind = None /\ At(c, "poke")
         /\ poked' /\ UNCHANGED <<rec, md, loop, page>>
         /\ \A d \in Calls \ {c} : call'[d] = call[d]
BY DEF Poke, At, Done, Blank, CallTypes

LEMMA ClaimDoes ==
  ASSUME CallTypes, EntryTypes, RecordTypes, NEW c \in Calls, Claim(c)
  PROVE  /\ call'[c].pc = "announce" /\ call'[c].kind = "debug"
         /\ At(c, "idle") /\ md.known /\ md.presence # "Gone"
         /\ md'.presence = md.presence /\ md'.known = md.known
         /\ md'.tgt = md.tgt /\ UNCHANGED <<rec, poked, loop, page>>
         /\ \A d \in Calls \ {c} : call'[d] = call[d]
BY DEF Claim, Asks, At, CallTypes, CallType, EntryTypes

LEMMA AnnounceDoes ==
  ASSUME CallTypes, EntryTypes, RecordTypes, NEW c \in Calls, Announce(c)
  PROVE  /\ call'[c].pc = "desc" /\ call'[c].kind = call[c].kind
         /\ At(c, "announce") /\ UNCHANGED <<rec, md, poked, loop>>
         /\ \A d \in Calls \ {c} : call'[d] = call[d]
BY DEF Announce, At, Go, CallTypes, CallType

LEMMA ReadDescDoes ==
  ASSUME CallTypes, EntryTypes, RecordTypes, NEW c \in Calls, ReadDesc(c)
  PROVE  /\ call'[c].pc = "record" /\ call'[c].kind = call[c].kind
         /\ call'[c].tgt = md.tgt /\ At(c, "desc")
         /\ UNCHANGED <<rec, md, poked, loop, page>>
         /\ \A d \in Calls \ {c} : call'[d] = call[d]
BY DEF ReadDesc, At, CallTypes, CallType

LEMMA ReadConfigDoes ==
  ASSUME CallTypes, EntryTypes, RecordTypes, NEW c \in Calls, ReadConfig(c)
  PROVE  /\ call'[c].pc = "launch" /\ call'[c].kind = call[c].kind
         /\ call'[c].tgt = call[c].tgt
         /\ call'[c].cfg = effectiveDebugConfig(call[c].tgt, rec.dbg)
         /\ At(c, "record") /\ UNCHANGED <<rec, md, poked, loop, page>>
         /\ \A d \in Calls \ {c} : call'[d] = call[d]
BY DEF ReadConfig, At, CallTypes, CallType

LEMMA StartFailsDoes ==
  ASSUME CallTypes, EntryTypes, RecordTypes, NEW c \in Calls, StartFails(c)
  PROVE  /\ call'[c].pc = "end" /\ call'[c].kind = call[c].kind
         /\ call[c].pc \in {"record", "launch"} /\ md'.presence = md.presence
         /\ md'.known = md.known /\ md'.tgt = md.tgt
         /\ UNCHANGED <<rec, poked, loop, page>>
         /\ \A d \in Calls \ {c} : call'[d] = call[d]
BY DEF StartFails, At, Drop, Blank, CallTypes, EntryTypes

LEMMA LaunchDoes ==
  ASSUME CallTypes, EntryTypes, RecordTypes, NEW c \in Calls, Launch(c)
  PROVE  /\ call'[c].pc = "serve" /\ call'[c].kind = call[c].kind
         /\ At(c, "launch") /\ md'.presence = md.presence
         /\ md'.known = md.known /\ md'.tgt = md.tgt
         /\ UNCHANGED <<rec, poked, loop>>
         /\ \A d \in Calls \ {c} : call'[d] = call[d]
BY DEF Launch, At, Drop, Blank, CallTypes, EntryTypes

LEMMA SessionEndsDoes ==
  ASSUME CallTypes, EntryTypes, RecordTypes, NEW c \in Calls, SessionEnds(c)
  PROVE  /\ call'[c].pc = "end" /\ call'[c].kind = call[c].kind
         /\ At(c, "serve") /\ md'.presence = md.presence
         /\ md'.known = md.known /\ md'.tgt = md.tgt
         /\ UNCHANGED <<rec, poked, loop, page>>
         /\ \A d \in Calls \ {c} : call'[d] = call[d]
BY DEF SessionEnds, At, Go, CallTypes, CallType, EntryTypes

LEMMA ReleaseDoes ==
  ASSUME CallTypes, EntryTypes, RecordTypes, NEW c \in Calls, Release(c)
  PROVE  /\ call'[c].pc = "publish" /\ call'[c].kind = call[c].kind
         /\ At(c, "end") /\ md'.presence = md.presence
         /\ md'.known = md.known /\ md'.tgt = md.tgt
         /\ UNCHANGED <<rec, poked, loop, page>>
         /\ \A d \in Calls \ {c} : call'[d] = call[d]
BY DEF Release, At, Go, CallTypes, CallType, EntryTypes

(* What a form sends is taken along to its next step.                      *)
LEMMA ArgsFitStep ==
  ASSUME CallTypes, EntryTypes, RecordTypes, ArgsFit, [Next]_vars
  PROVE  ArgsFit'
<1>b. Configs \subseteq OcdTargets \cup {None}
  BY Derived
<1> USE DEF ArgsFit
<1>1. ASSUME NEW c \in Calls, Refused(c)
      PROVE  ArgsFit'
  BY <1>1, RefusedDoes
<1>2. ASSUME NEW c \in Calls, RenameStores(c)
      PROVE  ArgsFit'
  BY <1>2, RenameStoresDoes
<1>3. ASSUME NEW c \in Calls, TargetStores(c)
      PROVE  ArgsFit'
  BY <1>3, TargetStoresDoes
<1>4. ASSUME NEW c \in Calls, TargetMirrors(c)
      PROVE  ArgsFit'
  BY <1>4, TargetMirrorsDoes
<1>5. ASSUME NEW c \in Calls, ConfigChecks(c)
      PROVE  ArgsFit'
  BY <1>b, <1>5, ConfigChecksDoes
<1>6. ASSUME NEW c \in Calls, ConfigRefused(c)
      PROVE  ArgsFit'
  BY <1>6, ConfigRefusedDoes
<1>7. ASSUME NEW c \in Calls, ConfigStores(c)
      PROVE  ArgsFit'
  BY <1>7, ConfigStoresDoes
<1>8. ASSUME NEW c \in Calls, PublishChange(c)
      PROVE  ArgsFit'
  BY <1>8, PublishChangeDoes
<1>9. ASSUME NEW c \in Calls, Poke(c)
      PROVE  ArgsFit'
  BY <1>9, PokeDoes
<1>10. ASSUME NEW c \in Calls, Claim(c)
      PROVE  ArgsFit'
  BY <1>10, ClaimDoes
<1>11. ASSUME NEW c \in Calls, Announce(c)
      PROVE  ArgsFit'
  BY <1>11, AnnounceDoes
<1>12. ASSUME NEW c \in Calls, ReadDesc(c)
      PROVE  ArgsFit'
  BY <1>12, ReadDescDoes
<1>13. ASSUME NEW c \in Calls, ReadConfig(c)
      PROVE  ArgsFit'
  BY <1>13, ReadConfigDoes
<1>14. ASSUME NEW c \in Calls, StartFails(c)
      PROVE  ArgsFit'
  BY <1>14, StartFailsDoes
<1>15. ASSUME NEW c \in Calls, Launch(c)
      PROVE  ArgsFit'
  BY <1>15, LaunchDoes
<1>16. ASSUME NEW c \in Calls, SessionEnds(c)
      PROVE  ArgsFit'
  BY <1>16, SessionEndsDoes
<1>17. ASSUME NEW c \in Calls, Release(c)
      PROVE  ArgsFit'
  BY <1>17, ReleaseDoes
<1>18. CASE UNCHANGED call
  BY <1>18
<1>. QED
  BY <1>1, <1>2, <1>3, <1>4, <1>5, <1>6, <1>7, <1>8, <1>9, <1>10, <1>11,
     <1>12, <1>13, <1>14, <1>15, <1>16, <1>17, <1>18, StepFrames
     DEF Frames, Request

(* A page keeps its type.                                                  *)
LEMMA PageTypesStep ==
  ASSUME EntryTypes, PageTypes, [Next]_vars
  PROVE  PageTypes'
<1>a. NoView \in Views
  BY DEF NoView, Views
<1>b. View \in Views
  BY DEF View, Views, EntryTypes, stateBadge
<1> USE DEF PageTypes
<1>1. CASE UNCHANGED page
  BY <1>1
<1>2. CASE Publish
  <2>. DEFINE stale == [page EXCEPT !.view = IF page.fetch THEN @ ELSE NoView]
  <2>1. stale \in [at: {"closed", "rendered", "live"}, due: BOOLEAN, gap: BOOLEAN,
                   fetch: BOOLEAN, view: Views]
    BY <1>a
  <2>2. page' \in {[stale EXCEPT !.due = TRUE], [stale EXCEPT !.gap = TRUE], page}
    BY <1>2 DEF Publish
  <2>. HIDE DEF stale
  <2>. QED
    BY <2>1, <2>2
<1>3. CASE Open
  BY <1>3, <1>b DEF Open, NoPage
<1>4. CASE Close
  BY <1>4, <1>a DEF Close, NoPage
<1>5. CASE Subscribe
  BY <1>5 DEF Subscribe
<1>6. CASE Fetch
  BY <1>6, <1>b DEF Fetch
<1>7. CASE Swap
  BY <1>7, <1>a DEF Swap
<1>. QED
  BY <1>1, <1>2, <1>3, <1>4, <1>5, <1>6, <1>7, StepFrames DEF Frames, Browser

(* The types are kept, and no setting is lost.                             *)
LEMMA TypeStep ==
  ASSUME TypeOK, LastWriteStands, ReadsSeen, ArgsFit, [Next]_vars
  PROVE  TypeOK' /\ LastWriteStands' /\ ReadsSeen' /\ ArgsFit'
<1>1. /\ RecordTypes /\ EntryTypes /\ LoopTypes
      /\ CallTypes /\ PageTypes /\ OtherTypes
  BY TypeParts
<1>2. OtherTypes'
  <2>1. ctrl' \in {None, "loop", "request"} /\ poked' \in BOOLEAN
    BY <1>1, StepFrames DEF Frames, OtherTypes
  <2>2. calm' \subseteq Calls
    BY <1>1 DEF Next, Watch, OtherTypes, vars
  <2>. QED
    BY <2>1, <2>2 DEF OtherTypes
<1>3. /\ RecordTypes' /\ EntryTypes' /\ LoopTypes'
      /\ CallTypes' /\ PageTypes'
  BY <1>1, RecordTypesStep, EntryTypesStep, LoopTypesStep, CallTypesStep,
     PageTypesStep
<1>4. LastWriteStands' /\ ReadsSeen' /\ ArgsFit'
  BY <1>1, RecordTypesStep, LoopTypesStep, ArgsFitStep
<1>5. TypeOK'
  BY <1>2, <1>3, TypeParts, PTL
<1>. QED
  BY <1>4, <1>5

(* The presence of the entry follows what is seen.                         *)
LEMMA SightedStep ==
  ASSUME CallTypes, EntryTypes, RecordTypes, LoopTypes, ReadsSeen, Sighted,
         [Next]_vars
  PROVE  Sighted'
<1> USE DEF Sighted
<1>1. CASE Scan
  <2>1. PresenceOf(None) = "Gone"
    BY DEF PresenceOf
  <2>. QED
    BY <1>1, <2>1 DEF Scan, LoopTypes, EntryTypes
<1>2. CASE ScanFails
  BY <1>2 DEF ScanFails, LoopTypes
<1>3. CASE ReadRecord
  BY <1>3 DEF ReadRecord, Overlay, LoopTypes
<1>4. CASE CreateRecord
  BY <1>4 DEF CreateRecord, Overlay, LoopTypes
<1>5. CASE Observe
  <2>1. PresenceOf(None) = "Gone"
    BY DEF PresenceOf
  <2>. QED
    BY <1>5, <2>1 DEF Observe, LoopTypes, EntryTypes
<1>6. CASE Converge
  BY <1>6 DEF Converge, LoopTypes, EntryTypes
<1>7. CASE Attach
  BY <1>7 DEF Attach, LoopTypes, EntryTypes
<1>8. CASE PassPublishes
  BY <1>8 DEF PassPublishes, LoopTypes
<1>9. ASSUME NEW c \in Calls, Request(c)
      PROVE  Sighted'
  <2>1. UNCHANGED loop /\ md'.presence = md.presence /\ (md.known => md'.known)
    BY <1>9, RefusedDoes, RenameStoresDoes, TargetStoresDoes, TargetMirrorsDoes,
       ConfigChecksDoes, ConfigRefusedDoes, ConfigStoresDoes, PublishChangeDoes,
       PokeDoes, ClaimDoes, AnnounceDoes, ReadDescDoes, ReadConfigDoes,
       StartFailsDoes, LaunchDoes, SessionEndsDoes, ReleaseDoes
       DEF Request
  <2>. QED
    BY <2>1
<1>10. CASE UNCHANGED <<md, loop>>
  BY <1>10
<1>. QED
  BY <1>1, <1>2, <1>3, <1>4, <1>5, <1>6, <1>7, <1>8, <1>9, <1>10
     DEF Next, Loop, Browser, Open, Close, Subscribe, Fetch, Swap, storeAndLoop, vars

(* Requests leave the family that a pass holds as it is, or owe a poke.    *)
LEMMA RequestsHoldPin ==
  ASSUME CallTypes, EntryTypes, RecordTypes, ArgsFit, PassHoldsPin,
         NEW c \in Calls, Request(c)
  PROVE  PassHoldsPin'
<1>1. CASE Refused(c)
  <2>1. NoPinOwed' => NoPinOwed /\ UNCHANGED <<rec.pin, md.tgt, loop>>
    BY <1>1, RefusedDoes DEF NoPinOwed, At, Owing
  <2>. QED
    BY <2>1 DEF PassHoldsPin, StoredFamily
<1>2. CASE RenameStores(c)
  <2>1. NoPinOwed' => NoPinOwed /\ UNCHANGED <<rec.pin, md.tgt, loop>>
    BY <1>2, RenameStoresDoes DEF NoPinOwed, At, Owing
  <2>. QED
    BY <2>1 DEF PassHoldsPin, StoredFamily
<1>3. CASE TargetStores(c)
  <2>1. ~NoPinOwed'
    BY <1>3, TargetStoresDoes DEF NoPinOwed, At, Owing, ArgsFit
  <2>. QED
    BY <2>1 DEF PassHoldsPin
<1>4. CASE TargetMirrors(c)
  <2>1. ~NoPinOwed'
    BY <1>4, TargetMirrorsDoes DEF NoPinOwed, At, Owing, ArgsFit
  <2>. QED
    BY <2>1 DEF PassHoldsPin
<1>5. CASE ConfigChecks(c)
  <2>1. NoPinOwed' => NoPinOwed /\ UNCHANGED <<rec.pin, md.tgt, loop>>
    BY <1>5, ConfigChecksDoes DEF NoPinOwed, At, Owing
  <2>. QED
    BY <2>1 DEF PassHoldsPin, StoredFamily
<1>6. CASE ConfigRefused(c)
  <2>1. NoPinOwed' => NoPinOwed /\ UNCHANGED <<rec.pin, md.tgt, loop>>
    BY <1>6, ConfigRefusedDoes DEF NoPinOwed, At, Owing
  <2>. QED
    BY <2>1 DEF PassHoldsPin, StoredFamily
<1>7. CASE ConfigStores(c)
  <2>1. NoPinOwed' => NoPinOwed /\ UNCHANGED <<rec.pin, md.tgt, loop>>
    BY <1>7, ConfigStoresDoes DEF NoPinOwed, At, Owing
  <2>. QED
    BY <2>1 DEF PassHoldsPin, StoredFamily
<1>8. CASE PublishChange(c)
  <2>1. NoPinOwed' => NoPinOwed /\ UNCHANGED <<rec.pin, md.tgt, loop>>
    BY <1>8, PublishChangeDoes DEF NoPinOwed, At, Owing
  <2>. QED
    BY <2>1 DEF PassHoldsPin, StoredFamily
<1>9. CASE Poke(c)
  <2>1. ~NoPinOwed'
    BY <1>9, PokeDoes DEF NoPinOwed, At, Owing, ArgsFit
  <2>. QED
    BY <2>1 DEF PassHoldsPin
<1>10. CASE Claim(c)
  <2>1. NoPinOwed' => NoPinOwed /\ UNCHANGED <<rec.pin, md.tgt, loop>>
    BY <1>10, ClaimDoes DEF NoPinOwed, At, Owing
  <2>. QED
    BY <2>1 DEF PassHoldsPin, StoredFamily
<1>11. CASE Announce(c)
  <2>1. NoPinOwed' => NoPinOwed /\ UNCHANGED <<rec.pin, md.tgt, loop>>
    BY <1>11, AnnounceDoes DEF NoPinOwed, At, Owing
  <2>. QED
    BY <2>1 DEF PassHoldsPin, StoredFamily
<1>12. CASE ReadDesc(c)
  <2>1. NoPinOwed' => NoPinOwed /\ UNCHANGED <<rec.pin, md.tgt, loop>>
    BY <1>12, ReadDescDoes DEF NoPinOwed, At, Owing
  <2>. QED
    BY <2>1 DEF PassHoldsPin, StoredFamily
<1>13. CASE ReadConfig(c)
  <2>1. NoPinOwed' => NoPinOwed /\ UNCHANGED <<rec.pin, md.tgt, loop>>
    BY <1>13, ReadConfigDoes DEF NoPinOwed, At, Owing
  <2>. QED
    BY <2>1 DEF PassHoldsPin, StoredFamily
<1>14. CASE StartFails(c)
  <2>1. NoPinOwed' => NoPinOwed /\ UNCHANGED <<rec.pin, md.tgt, loop>>
    BY <1>14, StartFailsDoes DEF NoPinOwed, At, Owing
  <2>. QED
    BY <2>1 DEF PassHoldsPin, StoredFamily
<1>15. CASE Launch(c)
  <2>1. NoPinOwed' => NoPinOwed /\ UNCHANGED <<rec.pin, md.tgt, loop>>
    BY <1>15, LaunchDoes DEF NoPinOwed, At, Owing
  <2>. QED
    BY <2>1 DEF PassHoldsPin, StoredFamily
<1>16. CASE SessionEnds(c)
  <2>1. NoPinOwed' => NoPinOwed /\ UNCHANGED <<rec.pin, md.tgt, loop>>
    BY <1>16, SessionEndsDoes DEF NoPinOwed, At, Owing
  <2>. QED
    BY <2>1 DEF PassHoldsPin, StoredFamily
<1>17. CASE Release(c)
  <2>1. NoPinOwed' => NoPinOwed /\ UNCHANGED <<rec.pin, md.tgt, loop>>
    BY <1>17, ReleaseDoes DEF NoPinOwed, At, Owing
  <2>. QED
    BY <2>1 DEF PassHoldsPin, StoredFamily
<1>. QED
  BY <1>1, <1>2, <1>3, <1>4, <1>5, <1>6, <1>7, <1>8, <1>9, <1>10, <1>11,
     <1>12, <1>13, <1>14, <1>15, <1>16, <1>17 DEF Request

(* A pass reads the pin and carries it to the entry; one that has read an  *)
(* older one leaves a poke behind, or a form that has yet to poke.         *)
LEMMA PassHoldsPinStep ==
  ASSUME CallTypes, EntryTypes, RecordTypes, LoopTypes, ReadsSeen, ArgsFit,
         PassHoldsPin,
         [Next]_vars
  PROVE  PassHoldsPin'
<1>a. \A c \in Calls : Request(c) => PassHoldsPin'
  BY RequestsHoldPin
<1> USE DEF PassHoldsPin, LoopTypes
<1>1. CASE Scan
  BY <1>1 DEF Scan
<1>2. CASE ScanFails
  BY <1>2 DEF ScanFails, NoPinOwed
<1>3. CASE ReadRecord
  <2>1. UNCHANGED <<rec, md, call, poked>> /\ loop'.seen = loop.seen /\ loop'.failed = loop.failed
    BY <1>3 DEF ReadRecord, Overlay
  <2>2. loop'.pc = "create" \/ (loop'.pc = "observe" /\ loop'.tgt = StoredFamily)
    BY <1>3 DEF ReadRecord, Overlay, applyRecord, StoredFamily
  <2>. QED
    BY <2>1, <2>2 DEF NoPinOwed, StoredFamily
<1>4. CASE CreateRecord
  <2>1. loop'.seen = loop.seen /\ loop'.pc = "observe"
    BY <1>4 DEF CreateRecord, Overlay
  <2>2. rec'.pin = rec.pin
    BY <1>4 DEF CreateRecord, DeviceSeen, Found, RecordTypes
  <2>3. loop'.failed \/ loop'.tgt = applyRecord(loop.seen, rec'.pin)
    BY <1>4 DEF CreateRecord, Overlay
  <2>. QED
    BY <2>1, <2>2, <2>3 DEF NoPinOwed, applyRecord, StoredFamily
<1>5. CASE Observe
  <2>1. /\ UNCHANGED <<rec, call, poked>> /\ loop'.seen = loop.seen
        /\ loop'.failed = loop.failed /\ loop'.tgt = loop.tgt
        /\ loop.pc = "observe" /\ loop'.pc = "converge"
        /\ loop.seen # None => md'.tgt = loop.tgt
    BY <1>5 DEF Observe, EntryTypes
  <2>. QED
    BY <2>1 DEF NoPinOwed, StoredFamily
<1>6. CASE Converge
  <2>1. /\ UNCHANGED <<call, poked>> /\ loop'.seen = loop.seen /\ md'.tgt = md.tgt
        /\ loop'.failed = loop.failed /\ loop'.tgt = loop.tgt
        /\ loop.pc = "converge" /\ loop'.pc \in {"attach", "publish"}
    BY <1>6 DEF Converge, EntryTypes
  <2>2. rec'.pin = rec.pin
    BY <1>6 DEF Converge, DeviceSeen, Found, RecordTypes
  <2>. QED
    BY <2>1, <2>2 DEF NoPinOwed, StoredFamily
<1>7. CASE Attach
  <2>1. /\ UNCHANGED <<rec, call, poked>> /\ loop'.seen = loop.seen
        /\ loop'.failed = loop.failed /\ loop'.tgt = loop.tgt
        /\ loop.pc = "attach" /\ loop'.pc = "publish"
        /\ md'.tgt \in {md.tgt, loop.tgt}
    BY <1>7 DEF Attach, EntryTypes
  <2>. QED
    BY <2>1 DEF NoPinOwed, StoredFamily
<1>8. CASE PassPublishes
  <2>1. /\ UNCHANGED <<rec, md, call, poked>> /\ loop'.seen = loop.seen
        /\ loop'.failed = loop.failed /\ loop.pc = "publish" /\ loop'.pc = "idle"
    BY <1>8 DEF PassPublishes
  <2>. QED
    BY <2>1 DEF NoPinOwed, StoredFamily
<1>9. CASE UNCHANGED storeAndLoop
  BY <1>9 DEF storeAndLoop, NoPinOwed, StoredFamily
<1>. QED
  BY <1>a, <1>1, <1>2, <1>3, <1>4, <1>5, <1>6, <1>7, <1>8, <1>9
     DEF Next, Loop, Browser, Open, Close, Subscribe, Fetch, Swap, storeAndLoop, vars

(* A request that is being prepared after a step of its own has taken one  *)
(* of four.                                                                *)
LEMMA ClaimingSteps ==
  ASSUME CallTypes, EntryTypes, RecordTypes, NEW c \in Calls, Request(c)
  PROVE  /\ UNCHANGED loop
         /\ \A d \in Calls \ {c} : call'[d] = call[d]
         /\ call'[c].pc \in Claiming => Claim(c) \/ Announce(c) \/ ReadDesc(c) \/ ReadConfig(c)
BY RefusedDoes, RenameStoresDoes, TargetStoresDoes, TargetMirrorsDoes,
   ConfigChecksDoes, ConfigRefusedDoes, ConfigStoresDoes, PublishChangeDoes,
   PokeDoes, ClaimDoes, AnnounceDoes, ReadDescDoes, ReadConfigDoes,
   StartFailsDoes, LaunchDoes, SessionEndsDoes, ReleaseDoes
   DEF Request, Claiming

(* While nothing changes, the loop does not stir, and a debug request reads *)
(* the family and the configuration that are stored.                       *)
LEMMA CalmSettingsStep ==
  ASSUME CallTypes, EntryTypes, RecordTypes, LoopTypes, Sighted, PassHoldsPin,
         CalmSettings,
         [Next]_vars
  PROVE  CalmSettings'
<1>a. Settled <=> loop.pc = "idle" /\ NoPinOwed
  BY DEF Settled, NoPinOwed
<1>b. \A c \in calm : loop.pc = "idle" /\ NoPinOwed /\ loop.seen # None
  BY <1>a DEF CalmSettings
<1>1. CASE Loop /\ Watch
  <2>1. UNCHANGED call
    BY <1>1
       DEF Loop, Scan, ScanFails, ReadRecord, CreateRecord, Observe, Converge,
           Attach,
                PassPublishes
  <2> SUFFICES ASSUME NEW c \in calm'
               PROVE  FALSE
    BY DEF CalmSettings
  <2>2. c \in Calls /\ call'[c].pc \in Claiming /\ Settled' /\ (At(c, "idle") \/ c \in calm)
    BY <1>1 DEF Watch
  <2>3. c \in calm
    BY <2>1, <2>2 DEF At, Claiming
  <2>4. loop.pc = "idle" /\ loop.seen # None /\ loop'.pc = "idle" /\ ~loop'.failed
    BY <1>b, <2>2, <2>3 DEF Settled
  <2>5. md.known
    <3>1. md.presence # "Gone"
      BY <2>4, Derived DEF Sighted, LoopTypes
    <3>. QED
      BY <3>1 DEF Sighted
  <2>6. Scan \/ ScanFails
    BY <1>1, <2>4
       DEF Loop, ReadRecord, CreateRecord, Observe, Converge, Attach, PassPublishes
  <2>7. Scan => loop'.pc \in {"read", "observe"}
    BY <2>5 DEF Scan, LoopTypes
  <2>8. ScanFails => loop'.failed
    BY DEF ScanFails, LoopTypes
  <2>. QED
    BY <2>4, <2>6, <2>7, <2>8
<1>2. ASSUME NEW d \in Calls, Request(d), Watch
      PROVE  CalmSettings'
  <2> SUFFICES ASSUME NEW c \in calm'
               PROVE  /\ call'[c].kind = "debug" /\ call'[c].pc \in Claiming
                      /\ Settled' /\ loop'.seen # None
                      /\ call'[c].pc \in {"record", "launch"} => call'[c].tgt = StoredFamily'
                      /\ call'[c].pc = "launch" =>
                           call'[c].cfg = effectiveDebugConfig(call'[c].tgt, rec'.dbg)
    BY DEF CalmSettings
  <2>1. /\ c \in Calls /\ call'[c].kind = "debug" /\ call'[c].pc \in Claiming
        /\ Settled' /\ (At(c, "idle") \/ (c \in calm /\ rec' = rec))
    BY <1>2 DEF Watch
  <2>2. UNCHANGED loop /\ \A q \in Calls \ {d} : call'[q] = call[q]
    BY <1>2, ClaimingSteps
  <2>3. CASE c # d
    <3>1. call'[c] = call[c] /\ c \in calm /\ rec' = rec
      BY <2>1, <2>2, <2>3 DEF At, Claiming
    <3>. QED
      BY <2>1, <2>2, <3>1 DEF CalmSettings, StoredFamily
  <2>4. CASE c = d
    <3>1. Claim(c) \/ Announce(c) \/ ReadDesc(c) \/ ReadConfig(c)
      BY <1>2, <2>1, <2>4, ClaimingSteps
    <3>2. CASE Claim(c)
      <4>1. call'[c].pc = "announce" /\ md.presence # "Gone"
        BY <2>1, <3>2, ClaimDoes
      <4>2. loop.pc = "idle"
        BY <2>1, <2>2 DEF Settled
      <4>3. loop.seen # None
        BY <4>1, <4>2, Derived DEF Sighted, LoopTypes
      <4>. QED
        BY <2>1, <2>2, <4>1, <4>3
    <3>3. CASE Announce(c) \/ ReadDesc(c) \/ ReadConfig(c)
      <4>1. call[c].pc \in {"announce", "desc", "record"}
        BY <3>3 DEF Announce, ReadDesc, ReadConfig, At
      <4>2. c \in calm /\ rec' = rec
        BY <2>1, <4>1 DEF At
      <4>3. StoredFamily' = StoredFamily /\ md.tgt = StoredFamily /\ loop'.seen # None
        BY <1>b, <2>2, <4>2 DEF StoredFamily, PassHoldsPin
      <4>4. CASE Announce(c)
        BY <2>1, <4>3, <4>4, AnnounceDoes
      <4>5. CASE ReadDesc(c)
        BY <2>1, <4>3, <4>5, ReadDescDoes
      <4>6. CASE ReadConfig(c)
        <5>1. call[c].tgt = StoredFamily
          BY <4>2, <4>6 DEF CalmSettings, ReadConfig, At
        <5>. QED
          BY <2>1, <4>2, <4>3, <4>6, <5>1, ReadConfigDoes
      <4>. QED
        BY <3>3, <4>4, <4>5, <4>6
    <3>. QED
      BY <3>1, <3>2, <3>3
  <2>. QED
    BY <2>3, <2>4
<1>3. CASE UNCHANGED storeAndLoop /\ UNCHANGED calm
  BY <1>3 DEF CalmSettings, storeAndLoop, StoredFamily, Settled
<1>. QED
  BY <1>1, <1>2, <1>3
     DEF Next, Browser, Open, Close, Subscribe, Fetch, Swap, storeAndLoop, vars

(* A page that is told, or that misses it, is not held to what it shows.   *)
LEMMA PublishTells ==
  ASSUME PageTypes, Publish
  PROVE  PageKnows'
<1>. DEFINE stale == [page EXCEPT !.view = IF page.fetch THEN @ ELSE NoView]
<1>1. stale \in [at: {"closed", "rendered", "live"}, due: BOOLEAN, gap: BOOLEAN,
                 fetch: BOOLEAN, view: Views \cup {NoView}] /\ stale.at = page.at
  BY DEF PageTypes
<1>2. \/ page' \in {[stale EXCEPT !.due = TRUE], [stale EXCEPT !.gap = TRUE]}
      \/ page.at = "closed" /\ page' = page
  BY DEF Publish
<1>. HIDE DEF stale
<1>3. page'.at = "closed" \/ page'.due \/ page'.gap
  BY <1>1, <1>2
<1>. QED
  BY <1>3 DEF PageKnows

(* A handler that changes the entry has an event to publish.               *)
LEMMA RequestsTellPages ==
  ASSUME CallTypes, EntryTypes, RecordTypes, PageTypes, PageKnows,
         NEW c \in Calls, Request(c)
  PROVE  PageKnows'
<1>1. CASE Refused(c)
  <2>1. EventComes => EventComes'
    BY <1>1, RefusedDoes DEF EventComes, At
  <2>2. UNCHANGED <<md, page>>
    BY <1>1, RefusedDoes
  <2>. QED
    BY <2>1, <2>2 DEF PageKnows, stateBadge
<1>2. CASE RenameStores(c)
  <2>1. EventComes'
    BY <1>2, RenameStoresDoes DEF EventComes
  <2>. QED
    BY <2>1 DEF PageKnows
<1>3. CASE TargetStores(c)
  <2>1. EventComes => EventComes'
    BY <1>3, TargetStoresDoes DEF EventComes, At
  <2>2. UNCHANGED <<md, page>>
    BY <1>3, TargetStoresDoes
  <2>. QED
    BY <2>1, <2>2 DEF PageKnows, stateBadge
<1>4. CASE TargetMirrors(c)
  <2>1. EventComes'
    BY <1>4, TargetMirrorsDoes DEF EventComes
  <2>. QED
    BY <2>1 DEF PageKnows
<1>5. CASE ConfigChecks(c)
  <2>1. EventComes => EventComes'
    BY <1>5, ConfigChecksDoes DEF EventComes, At
  <2>2. UNCHANGED <<md, page>>
    BY <1>5, ConfigChecksDoes
  <2>. QED
    BY <2>1, <2>2 DEF PageKnows, stateBadge
<1>6. CASE ConfigRefused(c)
  <2>1. EventComes => EventComes'
    BY <1>6, ConfigRefusedDoes DEF EventComes, At
  <2>2. UNCHANGED <<md, page>>
    BY <1>6, ConfigRefusedDoes
  <2>. QED
    BY <2>1, <2>2 DEF PageKnows, stateBadge
<1>7. CASE ConfigStores(c)
  <2>1. EventComes'
    BY <1>7, ConfigStoresDoes DEF EventComes
  <2>. QED
    BY <2>1 DEF PageKnows
<1>8. CASE PublishChange(c)
  BY <1>8, PublishTells DEF PublishChange
<1>9. CASE Poke(c)
  <2>1. EventComes => EventComes'
    BY <1>9, PokeDoes DEF EventComes, At
  <2>2. UNCHANGED <<md, page>>
    BY <1>9, PokeDoes
  <2>. QED
    BY <2>1, <2>2 DEF PageKnows, stateBadge
<1>10. CASE Claim(c)
  <2>1. EventComes'
    BY <1>10, ClaimDoes DEF EventComes
  <2>. QED
    BY <2>1 DEF PageKnows
<1>11. CASE Announce(c)
  BY <1>11, PublishTells DEF Announce
<1>12. CASE ReadDesc(c)
  <2>1. EventComes => EventComes'
    BY <1>12, ReadDescDoes DEF EventComes, At
  <2>2. UNCHANGED <<md, page>>
    BY <1>12, ReadDescDoes
  <2>. QED
    BY <2>1, <2>2 DEF PageKnows, stateBadge
<1>13. CASE ReadConfig(c)
  <2>1. EventComes => EventComes'
    BY <1>13, ReadConfigDoes DEF EventComes, At
  <2>2. UNCHANGED <<md, page>>
    BY <1>13, ReadConfigDoes
  <2>. QED
    BY <2>1, <2>2 DEF PageKnows, stateBadge
<1>14. CASE StartFails(c)
  <2>1. EventComes'
    BY <1>14, StartFailsDoes DEF EventComes
  <2>. QED
    BY <2>1 DEF PageKnows
<1>15. CASE Launch(c)
  BY <1>15, PublishTells DEF Launch
<1>16. CASE SessionEnds(c)
  <2>1. EventComes'
    BY <1>16, SessionEndsDoes DEF EventComes
  <2>. QED
    BY <2>1 DEF PageKnows
<1>17. CASE Release(c)
  <2>1. EventComes'
    BY <1>17, ReleaseDoes DEF EventComes
  <2>. QED
    BY <2>1 DEF PageKnows
<1>. QED
  BY <1>1, <1>2, <1>3, <1>4, <1>5, <1>6, <1>7, <1>8, <1>9, <1>10, <1>11,
     <1>12, <1>13, <1>14, <1>15, <1>16, <1>17 DEF Request

(* So does a pass, unless the board is as it was.                          *)
LEMMA PageKnowsStep ==
  ASSUME CallTypes, EntryTypes, RecordTypes, LoopTypes, PageTypes, ReadsSeen,
         Sighted,
         PageKnows, [Next]_vars
  PROVE  PageKnows'
<1>a. \A c \in Calls : Request(c) => PageKnows'
  BY RequestsTellPages
<1>b. ASSUME UNCHANGED <<md, page>>, EventComes => EventComes'
      PROVE  PageKnows'
  BY <1>b DEF PageKnows, stateBadge
<1> USE DEF LoopTypes
<1>1. CASE Scan
  <2>1. UNCHANGED <<call, page>> /\ loop'.changed = loop.changed /\ loop.pc = "idle"
    BY <1>1 DEF Scan
  <2>2. CASE md.known
    <3>1. /\ md'.known /\ md'.presence = md.presence /\ md'.attached = md.attached
          /\ md'.busy = md.busy /\ md'.err = md.err
      BY <1>1, <2>2 DEF Scan, EntryTypes
    <3>2. stateBadge' = stateBadge
      BY <2>2, <3>1 DEF stateBadge
    <3>. QED
      BY <2>1, <3>1, <3>2 DEF EventComes, PageKnows
  <2>3. CASE ~md.known
    <3>1. md.presence = "Gone"
      BY <2>3 DEF Sighted
    <3>2. CASE UNCHANGED md
      BY <1>b, <2>1, <3>2 DEF EventComes
    <3>3. CASE ~(UNCHANGED md)
      <4>1. PICK u \in Usb :
              loop' = [loop EXCEPT !.pc = "read", !.seen = u, !.failed = FALSE]
        BY <1>1, <3>3 DEF Scan
      <4>2. md' = [md EXCEPT !.known = TRUE] /\ None \notin Usb
        BY <1>1, <3>3, RecordsAssumption DEF Scan, UsbIds, None
      <4>3. loop'.pc = "read" /\ loop'.seen # None /\ md'.presence = "Gone"
        BY <3>1, <4>1, <4>2 DEF EntryTypes
      <4>. QED
        BY <4>3 DEF EventComes, PageKnows
    <3>. QED
      BY <3>2, <3>3
  <2>. QED
    BY <2>2, <2>3
<1>2. CASE ScanFails
  BY <1>2, <1>b DEF ScanFails, EventComes
<1>3. CASE ReadRecord
  BY <1>3, <1>b DEF ReadRecord, Overlay, EventComes
<1>4. CASE CreateRecord
  BY <1>4, <1>b DEF CreateRecord, Overlay, EventComes
<1>5. CASE Observe
  <2>1. /\ UNCHANGED <<call, page>> /\ loop.pc = "observe" /\ ~loop.changed
        /\ loop'.pc = "converge" /\ loop'.changed = (md'.presence # md.presence)
        /\ md'.presence = PresenceOf(loop.seen)
        /\ md'.known = md.known /\ md'.attached = md.attached
        /\ md'.busy = md.busy /\ md'.err = md.err
    BY <1>5 DEF Observe, EntryTypes, ReadsSeen, PresenceOf
  <2>2. CASE loop'.changed
    BY <2>2 DEF EventComes, PageKnows
  <2>3. CASE ~loop'.changed
    <3>1. stateBadge' = stateBadge
      BY <2>1, <2>3 DEF stateBadge
    <3>2. loop.seen # None => md.presence # "Gone"
      BY <2>1, <2>3, Derived
    <3>3. EventComes => EventComes'
      BY <2>1, <3>2 DEF EventComes
    <3>. QED
      BY <2>1, <3>1, <3>3 DEF PageKnows
  <2>. QED
    BY <2>2, <2>3
<1>6. CASE Converge
  <2>1. CASE loop'.changed
    BY <2>1 DEF EventComes, PageKnows
  <2>2. CASE ~loop'.changed
    <3>1. UNCHANGED <<md, page, call>> /\ loop.pc = "converge" /\ loop'.changed = loop.changed
      BY <1>6, <2>2 DEF Converge
    <3>. QED
      BY <1>b, <3>1 DEF EventComes
  <2>. QED
    BY <2>1, <2>2
<1>7. CASE Attach
  <2>1. CASE loop'.changed
    BY <2>1 DEF EventComes, PageKnows
  <2>2. CASE ~loop'.changed
    <3>1. UNCHANGED <<md, page, call>> /\ loop.pc = "attach" /\ loop'.changed = loop.changed
      BY <1>7, <2>2 DEF Attach
    <3>. QED
      BY <1>b, <3>1 DEF EventComes
  <2>. QED
    BY <2>1, <2>2
<1>8. CASE PassPublishes
  <2>1. CASE loop.changed
    BY <1>8, <2>1, PublishTells DEF PassPublishes
  <2>2. CASE ~loop.changed
    BY <1>8, <1>b, <2>2 DEF PassPublishes, EventComes
  <2>. QED
    BY <2>1, <2>2
<1>9. CASE Open
  <2>1. page'.view = View /\ UNCHANGED <<md, call, loop>>
    BY <1>9 DEF Open, NoPage, storeAndLoop
  <2>. QED
    BY <2>1 DEF PageKnows, View, stateBadge
<1>10. CASE Close
  BY <1>10 DEF Close, NoPage, PageKnows
<1>11. CASE Subscribe
  BY <1>11
     DEF Subscribe, storeAndLoop, PageKnows, PageTypes, EventComes, stateBadge
<1>12. CASE Fetch
  <2>1. page'.view = View /\ UNCHANGED <<md, call, loop>>
    BY <1>12 DEF Fetch, PageTypes, storeAndLoop
  <2>. QED
    BY <2>1 DEF PageKnows, View, stateBadge
<1>13. CASE Swap
  BY <1>13 DEF Swap, storeAndLoop, PageKnows, PageTypes, EventComes, stateBadge
<1>14. CASE UNCHANGED vars
  BY <1>14, <1>b DEF vars, EventComes
<1>. QED
  BY <1>a, <1>1, <1>2, <1>3, <1>4, <1>5, <1>6, <1>7, <1>8, <1>9, <1>10, <1>11,
     <1>12,
     <1>13, <1>14 DEF Next, Loop, Browser

-----------------------------------------------------------------------------

(* The invariant holds at the start, with a record that may name a pin.    *)
LEMMA InitRecords == Init => RecordInv
<1> SUFFICES ASSUME Init
             PROVE  RecordInv
  OBVIOUS
<1>1. RecordTypes /\ LastWriteStands
  <2>1. CASE rec = NoRecord
    BY <2>1
       DEF Init, RecordTypes, LastWriteStands, Settings, NoRecord, NewRecord,
           OcdTargets
  <2>2. ASSUME NEW p \in Pins \cup {"unknown"},
               rec = [NewRecord EXCEPT !.pin = p]
        PROVE  RecordTypes /\ LastWriteStands
    BY <2>2
       DEF Init, RecordTypes, LastWriteStands, Settings, NewRecord, OcdTargets
  <2>. QED
    BY <2>1, <2>2 DEF Init
<1>2. EntryTypes /\ LoopTypes
  BY DEF Init, EntryTypes, LoopTypes
<1>3. CallTypes
  BY DEF Init, CallTypes, CallType, Blank
<1>4. PageTypes
  BY DEF Init, PageTypes, NoPage, NoView, Views
<1>5. OtherTypes
  BY DEF Init, OtherTypes
<1>6. ReadsSeen /\ ArgsFit
  BY DEF Init, ReadsSeen, ArgsFit, Blank
<1>7. Sighted
  BY DEF Init, Sighted, PresenceOf
<1>8. PassHoldsPin /\ CalmSettings /\ PageKnows
  BY DEF Init, PassHoldsPin, CalmSettings, PageKnows, NoPage
<1>. QED
  BY <1>1, <1>2, <1>3, <1>4, <1>5, <1>6, <1>7, <1>8, TypeParts DEF RecordInv

(* No step of the loop, of a form or of a browser breaks the invariant.    *)
THEOREM RecordInvariance == Spec => []RecordInv
<1>1. RecordInv /\ [Next]_vars => RecordInv'
  BY TypeParts, TypeStep, SightedStep, PassHoldsPinStep, CalmSettingsStep,
     PageKnowsStep
     DEF RecordInv
<1>. QED
  BY InitRecords, <1>1, PTL DEF Spec

(* The variables keep their types: whatever is pinned or plugged in, the   *)
(* board's family is one that there is.                                    *)
THEOREM TypeCorrect == Spec => []TypeOK
<1>1. RecordInv => TypeOK
  BY DEF RecordInv
<1>. QED
  BY RecordInvariance, <1>1, PTL

(* The loop and the forms write one record without undoing each other,     *)
(* whatever transactions fail.                                             *)
THEOREM NoSettingIsLost == Spec => []LastWriteStands
<1>1. RecordInv => LastWriteStands
  BY DEF RecordInv
<1>. QED
  BY RecordInvariance, <1>1, PTL

(* A pass that read the record before a pin was stored is followed by one  *)
(* that reads it: the form pokes after it has stored.                      *)
THEOREM PinsTakeHold == Spec => []PinTakesHold
<1>1. RecordInv => PinTakesHold
  BY DEF RecordInv, PassHoldsPin, NoPinOwed, Settled, PinTakesHold
<1>. QED
  BY RecordInvariance, <1>1, PTL

(* Every change of the entry that a page shows is followed by an event,    *)
(* and a page asks after the event, not before.                            *)
THEOREM PagesFollow == Spec => []PageFollows
<1>1. RecordInv => PageFollows
  <2>1. EventComes => EventDue
    BY DEF EventComes, EventDue
  <2>. QED
    BY <2>1 DEF RecordInv, PageKnows, PageFollows, AtRest
<1>. QED
  BY RecordInvariance, <1>1, PTL

(* A debug session that was prepared while nothing changed runs with the   *)
(* stored configuration, completed for the stored family.                  *)
THEOREM SessionsUseSettings == Spec => SessionUsesSettings
<1>1. RecordInv /\ [Next]_vars =>
        [\A c \in calm : At(c, "launch") /\ call'[c].pc = "serve" =>
           call[c].cfg = IF rec.dbg # None THEN rec.dbg
                         ELSE defaultDebugConfig(StoredFamily)]_vars
  BY DEF RecordInv, CalmSettings, effectiveDebugConfig, At
<1>. QED
  BY RecordInvariance, <1>1, PTL DEF Spec, SessionUsesSettings
=============================================================================
