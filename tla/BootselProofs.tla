---------------------------- MODULE BootselProofs ----------------------------
(***************************************************************************)
(* Proofs about the BOOTSEL volumes: for every set of boards and requests, *)
(* an operation that was alone with its board reports what is so and       *)
(* leaves nothing on the host.                                             *)
(***************************************************************************)
EXTENDS Bootsel, TLAPS

-----------------------------------------------------------------------------
(* The inductive invariant: whose mounts there are, who goes by them, and  *)
(* what an operation that nobody disturbs can rely on.                     *)

(* A request at these points has found a volume, and goes by a mount of it. *)
Finding == {"findmnt", "mount", "create", "copy", "check"}
Using == {"create", "copy", "check"}

(* A request mounts what it has found, and only a request that is over     *)
(* leaves a mount behind.                                                  *)
MountsAreUsed ==
  \A o \in Requests, b \in Boards : o \in mounts[b] =>
    /\ req[o].pc \in Using \cup {"done"}
    /\ req[o].pc # "done" => req[o].vol = b

(* What is mounted is in boot mode: the mounts go when its board leaves.   *)
MountsAreLive == \A b \in Boards : mounts[b] # {} => mode[b] = "bootsel"

(* A request that goes by the mount of another, which still works, has     *)
(* found the same volume; before it has found one it goes by none.         *)
MountsAreShared ==
  /\ \A q \in Requests : req[q].dir # None => req[q].pc \in Using
  /\ \A o \in Requests, q \in Requests : req[q].dir = o =>
       /\ req[o].pc \in Using \cup {"done"}
       /\ req[o].pc # "done" => req[q].vol = req[o].vol

(* The bootrom of the volume that was found has accepted the firmware.     *)
RanIsWritten ==
  \A o \in Requests : ran[o] # None => req[o].pc = "check" /\ ran[o] = req[o].vol

(* A request that works undisturbed is alone with its board.               *)
Alone(o) == req[o].pc \in AtWork /\ o \notin disturbed

AloneWithBoard ==
  \A o \in Requests : Alone(o) =>
    /\ Visible \subseteq {req[o].tgt}
    /\ \A q \in Requests \ {o} :
         req[q].pc \in AtWork => req[o].tgt \notin {req[q].tgt, req[q].vol}

(* It finds its own board, which stays in boot mode until it is written    *)
(* to; if it is not, the copy has failed or the firmware is another's.     *)
AloneWrites ==
  \A o \in Requests : Alone(o) =>
    /\ req[o].pc \in Finding => req[o].vol = req[o].tgt
    /\ req[o].pc \in {"create", "copy"} => mode[req[o].tgt] = "bootsel"
    /\ req[o].pc = "check" =>
         \/ ran[o] = req[o].tgt
         \/ /\ mode[req[o].tgt] = "bootsel"
            /\ req[o].err \/ req[o].family # chip[req[o].tgt]

(* A request that works has a board, and one that has found a volume goes  *)
(* by a board's.                                                           *)
HasBoard ==
  \A o \in Requests :
    /\ req[o].pc \notin {"idle", "done"} => req[o].tgt \in Boards
    /\ req[o].pc \in Finding => req[o].vol \in Boards

HostInv ==
  /\ TypeOK
  /\ HasBoard
  /\ MountsAreUsed /\ MountsAreLive /\ MountsAreShared
  /\ RanIsWritten
  /\ AloneWithBoard /\ AloneWrites

-----------------------------------------------------------------------------
(* The types, in parts. A request has the fields it had, but for those its *)
(* own step changes.                                                       *)
RequestType ==
  [pc: {"idle", "claim", "done"} \cup AtWork, kind: AllKinds \cup {None},
   tgt: Boards \cup {None}, family: Chips \cup {None}, vol: Boards \cup {None},
   dir: Requests \cup {"auto", None}, err: BOOLEAN,
   result: {None, "refused", "failed", "ok"}]

BoardTypes ==
  /\ chip \in [Boards -> Chips]
  /\ mode \in [Boards -> Modes]
  /\ mounts \in [Boards -> SUBSET (Requests \cup {"auto"})]

HistoryTypes ==
  /\ temp \subseteq Requests
  /\ ran \in [Requests -> Boards \cup {None}]
  /\ disturbed \subseteq Requests

RequestTypes == req \in [Requests -> RequestType]

(* Together they are the type invariant.                                   *)
LEMMA TypeParts == TypeOK <=> BoardTypes /\ RequestTypes /\ HistoryTypes
BY DEF TypeOK, BoardTypes, RequestTypes, RequestType, HistoryTypes

(* Boards and mounts keep their types: only a board's own moves, the       *)
(* desktop and the steps that mount and unmount change them.               *)
LEMMA BoardTypesStep ==
  ASSUME TypeOK, BoardTypes, [Next]_vars
  PROVE  BoardTypes'
<1> USE DEF BoardTypes, Modes
<1>1. ASSUME NEW b \in Boards, Unplug(b)
      PROVE  BoardTypes'
  BY <1>1 DEF Unplug, Severed
<1>2. ASSUME NEW b \in Boards, Enumerate(b)
      PROVE  BoardTypes'
  BY <1>2 DEF Enumerate
<1>3. ASSUME NEW b \in Boards, AutoMount(b)
      PROVE  BoardTypes'
  BY <1>3 DEF AutoMount
<1>4. ASSUME NEW o \in Requests, NEW k \in Kinds, NEW b \in Boards,
             Prepare(o, k, b)
      PROVE  BoardTypes'
  BY <1>4 DEF Prepare, At
<1>5. ASSUME NEW o \in Requests, Claim(o)
      PROVE  BoardTypes'
  BY <1>5 DEF Claim, At, Go
<1>6. ASSUME NEW o \in Requests, ClaimRefused(o)
      PROVE  BoardTypes'
  BY <1>6 DEF ClaimRefused, At, End
<1>7. ASSUME NEW o \in Requests, LookUp(o)
      PROVE  BoardTypes'
  BY <1>7 DEF LookUp, At, Go, AfterBootMode, End
<1>8. ASSUME NEW o \in Requests, OpenFails(o)
      PROVE  BoardTypes'
  BY <1>8 DEF OpenFails, At, End
<1>9. ASSUME NEW o \in Requests, Touch(o)
      PROVE  BoardTypes'
  BY <1>9 DEF Touch, At, Go, AfterBootMode, End
<1>10. ASSUME NEW o \in Requests, WaitFinds(o)
      PROVE  BoardTypes'
  BY <1>10 DEF WaitFinds, At
<1>11. ASSUME NEW o \in Requests, WaitTimesOut(o)
      PROVE  BoardTypes'
  BY <1>11 DEF WaitTimesOut, At, End
<1>12. ASSUME NEW o \in Requests, FindMnt(o)
      PROVE  BoardTypes'
  BY <1>12 DEF FindMnt, At, Go
<1>13. ASSUME NEW o \in Requests, Mount(o)
      PROVE  BoardTypes'
  BY <1>13 DEF Mount, At
<1>14. ASSUME NEW o \in Requests, MountFails(o)
      PROVE  BoardTypes'
  BY <1>14 DEF MountFails, At, End
<1>15. ASSUME NEW o \in Requests, Create(o)
      PROVE  BoardTypes'
  BY <1>15 DEF Create, At, Go, Alive
<1>16. ASSUME NEW o \in Requests, CreateFails(o)
      PROVE  BoardTypes'
  BY <1>16 DEF CreateFails, At, End, Unmount
<1>17. ASSUME NEW o \in Requests, CopyAccepted(o)
      PROVE  BoardTypes'
  BY <1>17 DEF CopyAccepted, At, Alive, Severed
<1>18. ASSUME NEW o \in Requests, CopyIgnored(o)
      PROVE  BoardTypes'
  BY <1>18 DEF CopyIgnored, At, Go, Alive
<1>19. ASSUME NEW o \in Requests, CopyFails(o)
      PROVE  BoardTypes'
  BY <1>19 DEF CopyFails, At
<1>20. ASSUME NEW o \in Requests, Check(o)
      PROVE  BoardTypes'
  BY <1>20 DEF Check, At, End, Unmount
<1>21. CASE UNCHANGED vars
  BY <1>21 DEF vars
<1>. QED
  BY <1>1, <1>2, <1>3, <1>4, <1>5, <1>6, <1>7, <1>8, <1>9, <1>10, <1>11,
     <1>12, <1>13, <1>14, <1>15, <1>16, <1>17, <1>18, <1>19, <1>20, <1>21
     DEF Next, Step

(* One request changes, to one that is of the type.                        *)
LEMMA ChangesOne ==
  ASSUME RequestTypes, NEW o \in Requests, NEW r \in RequestType,
         req' = [req EXCEPT ![o] = r]
  PROVE  RequestTypes'
BY DEF RequestTypes

(* A field changes, within its type.                                       *)
LEMMA PcType ==
  ASSUME NEW r \in RequestType, NEW p \in {"idle", "claim", "done"} \cup AtWork
  PROVE  [r EXCEPT !.pc = p] \in RequestType
BY DEF RequestType

LEMMA VolType ==
  ASSUME NEW r \in RequestType, NEW b \in Boards
  PROVE  [r EXCEPT !.vol = b] \in RequestType
BY DEF RequestType

LEMMA DirType ==
  ASSUME NEW r \in RequestType, NEW d \in Requests \cup {"auto"}
  PROVE  [r EXCEPT !.dir = d] \in RequestType
BY DEF RequestType

LEMMA ErrType ==
  ASSUME NEW r \in RequestType, NEW e \in BOOLEAN
  PROVE  [r EXCEPT !.err = e] \in RequestType
BY DEF RequestType

LEMMA OrderType ==
  ASSUME NEW r \in RequestType, NEW k \in AllKinds, NEW b \in Boards,
         NEW f \in Chips \cup {None}, NEW p \in {"claim", "lookup"}
  PROVE  [r EXCEPT !.kind = k, !.tgt = b, !.family = f, !.pc = p] \in RequestType
BY DEF RequestType, AtWork

(* Requests keep their types: each step moves one of them, to a place of   *)
(* the same operation or back to blank.                                    *)
LEMMA RequestTypesStep ==
  ASSUME TypeOK, BoardTypes, RequestTypes, HasBoard, [Next]_vars
  PROVE  RequestTypes'
<1>a. \A o \in Requests : req[o] \in RequestType
  BY DEF RequestTypes
<1> USE DEF RequestTypes, RequestType, AtWork, Blank, AllKinds, BoardTypes,
    BlockDevs, Visible
<1>1. ASSUME NEW b \in Boards, Unplug(b)
      PROVE  RequestTypes'
  BY <1>1 DEF Unplug, Severed
<1>2. ASSUME NEW b \in Boards, Enumerate(b)
      PROVE  RequestTypes'
  BY <1>2 DEF Enumerate
<1>3. ASSUME NEW b \in Boards, AutoMount(b)
      PROVE  RequestTypes'
  BY <1>3 DEF AutoMount
<1>4. ASSUME NEW o \in Requests, NEW k \in Kinds, NEW b \in Boards,
             Prepare(o, k, b)
      PROVE  RequestTypes'
  <2>1. PICK f \in Chips \cup {None} :
          req' = [req EXCEPT ![o] =
                    [@ EXCEPT !.kind = k, !.tgt = b, !.family = f,
                              !.pc = IF k = "cli" THEN "lookup" ELSE "claim"]]
    BY <1>4 DEF Prepare
  <2>2. k \in AllKinds
    BY BootselAssumption
  <2>. DEFINE p == IF k = "cli" THEN "lookup" ELSE "claim"
  <2>3. p \in {"claim", "lookup"} /\ req[o] \in RequestType
    BY <1>a
  <2>. HIDE DEF p, RequestType
  <2>4. [req[o] EXCEPT !.kind = k, !.tgt = b, !.family = f, !.pc = p] \in RequestType
    BY <2>2, <2>3, OrderType
  <2>. QED
    BY <2>1, <2>4, ChangesOne DEF p
<1>5. ASSUME NEW o \in Requests, Claim(o)
      PROVE  RequestTypes'
  BY <1>5 DEF Claim, At, Go
<1>6. ASSUME NEW o \in Requests, ClaimRefused(o)
      PROVE  RequestTypes'
  BY <1>6 DEF ClaimRefused, At, End
<1>7. ASSUME NEW o \in Requests, LookUp(o)
      PROVE  RequestTypes'
  <2>1. Go(o, "touch") \/ Go(o, "wait") \/ End(o, "ok")
    BY <1>7 DEF LookUp, AfterBootMode
  <2>2. CASE Go(o, "touch") \/ Go(o, "wait")
    BY <2>2 DEF Go
  <2>3. CASE End(o, "ok")
    BY <2>3 DEF End
  <2>. QED
    BY <2>1, <2>2, <2>3
<1>8. ASSUME NEW o \in Requests, OpenFails(o)
      PROVE  RequestTypes'
  BY <1>8 DEF OpenFails, At, End
<1>9. ASSUME NEW o \in Requests, Touch(o)
      PROVE  RequestTypes'
  <2>1. Go(o, "touch") \/ Go(o, "wait") \/ End(o, "ok")
    BY <1>9 DEF Touch, AfterBootMode
  <2>2. CASE Go(o, "touch") \/ Go(o, "wait")
    BY <2>2 DEF Go
  <2>3. CASE End(o, "ok")
    BY <2>3 DEF End
  <2>. QED
    BY <2>1, <2>2, <2>3
<1>10. ASSUME NEW o \in Requests, WaitFinds(o)
      PROVE  RequestTypes'
  <2>1. PICK v \in BlockDevs :
          req' = [req EXCEPT ![o] = [@ EXCEPT !.pc = "findmnt", !.vol = v]]
    BY <1>10 DEF WaitFinds
  <2>2. v \in Boards
    BY DEF BlockDevs, Visible
  <2>3. req' = [req EXCEPT ![o] = [[req[o] EXCEPT !.pc = "findmnt"] EXCEPT !.vol = v]]
    BY <2>1
  <2>4. [[req[o] EXCEPT !.pc = "findmnt"] EXCEPT !.vol = v] \in RequestType
    BY <2>2, <1>a, PcType, VolType
  <2>. QED
    BY <2>3, <2>4, ChangesOne
<1>11. ASSUME NEW o \in Requests, WaitTimesOut(o)
      PROVE  RequestTypes'
  BY <1>11 DEF WaitTimesOut, At, End
<1>12. ASSUME NEW o \in Requests, FindMnt(o)
      PROVE  RequestTypes'
  <2>1. CASE Go(o, "mount")
    BY <2>1 DEF Go
  <2>2. ASSUME NEW m \in mounts[req[o].vol],
               req' = [req EXCEPT ![o] = [@ EXCEPT !.pc = "create", !.dir = m]]
        PROVE  RequestTypes'
    <3>1. m \in Requests \cup {"auto"}
      BY <1>12 DEF FindMnt, At, HasBoard, Finding
    <3>2. req' = [req EXCEPT ![o] = [[req[o] EXCEPT !.pc = "create"] EXCEPT !.dir = m]]
      BY <2>2
    <3>3. [[req[o] EXCEPT !.pc = "create"] EXCEPT !.dir = m] \in RequestType
      BY <1>a, <3>1, PcType, DirType
    <3>. QED
      BY <3>2, <3>3, ChangesOne
  <2>. QED
    BY <1>12, <2>1, <2>2 DEF FindMnt
<1>13. ASSUME NEW o \in Requests, Mount(o)
      PROVE  RequestTypes'
  <2>1. req' = [req EXCEPT ![o] = [[req[o] EXCEPT !.pc = "create"] EXCEPT !.dir = o]]
    BY <1>13 DEF Mount
  <2>2. [[req[o] EXCEPT !.pc = "create"] EXCEPT !.dir = o] \in RequestType
    BY <1>a, PcType, DirType
  <2>. QED
    BY <2>1, <2>2, ChangesOne
<1>14. ASSUME NEW o \in Requests, MountFails(o)
      PROVE  RequestTypes'
  BY <1>14 DEF MountFails, At, End
<1>15. ASSUME NEW o \in Requests, Create(o)
      PROVE  RequestTypes'
  BY <1>15 DEF Create, At, Go, Alive
<1>16. ASSUME NEW o \in Requests, CreateFails(o)
      PROVE  RequestTypes'
  BY <1>16 DEF CreateFails, At, End, Unmount
<1>17. ASSUME NEW o \in Requests, CopyAccepted(o)
      PROVE  RequestTypes'
  <2>1. PICK e \in BOOLEAN :
          req' = Severed([req EXCEPT ![o] = [@ EXCEPT !.pc = "check", !.err = e]], req[o].vol)
    BY <1>17 DEF CopyAccepted
  <2>. DEFINE mid == [req EXCEPT ![o] = [[req[o] EXCEPT !.pc = "check"] EXCEPT !.err = e]]
  <2>2. req' = Severed(mid, req[o].vol)
    BY <2>1
  <2>3. [[req[o] EXCEPT !.pc = "check"] EXCEPT !.err = e] \in RequestType
    <3>. DEFINE r == [req[o] EXCEPT !.pc = "check"]
    <3>1. r \in RequestType
      BY <1>a, PcType
    <3>. HIDE DEF r, RequestType
    <3>2. [r EXCEPT !.err = e] \in RequestType
      BY <3>1, ErrType
    <3>. QED
      BY <3>2 DEF r
  <2>4. mid \in [Requests -> RequestType]
    BY <2>3, Zenon
  <2>. HIDE DEF mid
  <2>. QED
    BY <2>2, <2>4 DEF Severed
<1>18. ASSUME NEW o \in Requests, CopyIgnored(o)
      PROVE  RequestTypes'
  BY <1>18 DEF CopyIgnored, At, Go, Alive
<1>19. ASSUME NEW o \in Requests, CopyFails(o)
      PROVE  RequestTypes'
  <2>1. req' = [req EXCEPT ![o] = [[req[o] EXCEPT !.pc = "check"] EXCEPT !.err = TRUE]]
    BY <1>19 DEF CopyFails
  <2>2. [[req[o] EXCEPT !.pc = "check"] EXCEPT !.err = TRUE] \in RequestType
    <3>. DEFINE r == [req[o] EXCEPT !.pc = "check"]
    <3>1. r \in RequestType
      BY <1>a, PcType
    <3>. HIDE DEF r, RequestType
    <3>2. [r EXCEPT !.err = TRUE] \in RequestType
      BY <3>1, ErrType
    <3>. QED
      BY <3>2 DEF r
  <2>. QED
    BY <2>1, <2>2, ChangesOne
<1>20. ASSUME NEW o \in Requests, Check(o)
      PROVE  RequestTypes'
  BY <1>20 DEF Check, At, End, Unmount
<1>21. CASE UNCHANGED vars
  BY <1>21 DEF vars
<1>. QED
  BY <1>1, <1>2, <1>3, <1>4, <1>5, <1>6, <1>7, <1>8, <1>9, <1>10, <1>11,
     <1>12, <1>13, <1>14, <1>15, <1>16, <1>17, <1>18, <1>19, <1>20, <1>21
     DEF Next, Step

(* The history keeps its types: a board runs what was copied to it, and a  *)
(* request is disturbed or not.                                            *)
LEMMA HistoryTypesStep ==
  ASSUME TypeOK, HistoryTypes, RequestTypes, [Next]_vars
  PROVE  HistoryTypes'
<1> USE DEF HistoryTypes
<1>1. ASSUME NEW b \in Boards, Unplug(b), Watch({b})
      PROVE  HistoryTypes'
  BY <1>1 DEF Unplug, Severed, Watch
<1>2. ASSUME NEW b \in Boards, Enumerate(b), Watch({})
      PROVE  HistoryTypes'
  BY <1>2 DEF Enumerate, Watch
<1>3. ASSUME NEW b \in Boards, AutoMount(b), Watch({})
      PROVE  HistoryTypes'
  BY <1>3 DEF AutoMount, Watch
<1>4. ASSUME NEW o \in Requests, NEW k \in Kinds, NEW b \in Boards,
             Prepare(o, k, b), Watch({})
      PROVE  HistoryTypes'
  BY <1>4 DEF Prepare, At, Watch
<1>5. ASSUME NEW o \in Requests, Claim(o), Watch({})
      PROVE  HistoryTypes'
  BY <1>5 DEF Claim, At, Go, Watch
<1>6. ASSUME NEW o \in Requests, ClaimRefused(o), Watch({})
      PROVE  HistoryTypes'
  BY <1>6 DEF ClaimRefused, At, End, Watch
<1>7. ASSUME NEW o \in Requests, LookUp(o), Watch({})
      PROVE  HistoryTypes'
  BY <1>7 DEF LookUp, At, Go, AfterBootMode, End, Watch
<1>8. ASSUME NEW o \in Requests, OpenFails(o), Watch({})
      PROVE  HistoryTypes'
  BY <1>8 DEF OpenFails, At, End, Watch
<1>9. ASSUME NEW o \in Requests, Touch(o), Watch({})
      PROVE  HistoryTypes'
  BY <1>9 DEF Touch, At, Go, AfterBootMode, End, Watch
<1>10. ASSUME NEW o \in Requests, WaitFinds(o), Watch({})
      PROVE  HistoryTypes'
  BY <1>10 DEF WaitFinds, At, Watch
<1>11. ASSUME NEW o \in Requests, WaitTimesOut(o), Watch({})
      PROVE  HistoryTypes'
  BY <1>11 DEF WaitTimesOut, At, End, Watch
<1>12. ASSUME NEW o \in Requests, FindMnt(o), Watch({})
      PROVE  HistoryTypes'
  BY <1>12 DEF FindMnt, At, Go, Watch
<1>13. ASSUME NEW o \in Requests, Mount(o), Watch({})
      PROVE  HistoryTypes'
  BY <1>13 DEF Mount, At, Watch
<1>14. ASSUME NEW o \in Requests, MountFails(o), Watch({})
      PROVE  HistoryTypes'
  BY <1>14 DEF MountFails, At, End, Watch
<1>15. ASSUME NEW o \in Requests, Create(o), Watch({})
      PROVE  HistoryTypes'
  BY <1>15 DEF Create, At, Go, Alive, Watch
<1>16. ASSUME NEW o \in Requests, CreateFails(o), Watch({})
      PROVE  HistoryTypes'
  BY <1>16 DEF CreateFails, At, End, Unmount, Watch
<1>17. ASSUME NEW o \in Requests, CopyAccepted(o), Watch({})
      PROVE  HistoryTypes'
  BY <1>17
     DEF CopyAccepted, At, Alive, Severed, Watch, RequestTypes, RequestType
<1>18. ASSUME NEW o \in Requests, CopyIgnored(o), Watch({})
      PROVE  HistoryTypes'
  BY <1>18 DEF CopyIgnored, At, Go, Alive, Watch
<1>19. ASSUME NEW o \in Requests, CopyFails(o), Watch({})
      PROVE  HistoryTypes'
  BY <1>19 DEF CopyFails, At, Watch
<1>20. ASSUME NEW o \in Requests, Check(o), Watch({})
      PROVE  HistoryTypes'
  BY <1>20 DEF Check, At, End, Unmount, Watch
<1>21. CASE UNCHANGED vars
  BY <1>21 DEF vars
<1>. QED
  BY <1>1, <1>2, <1>3, <1>4, <1>5, <1>6, <1>7, <1>8, <1>9, <1>10, <1>11,
     <1>12, <1>13, <1>14, <1>15, <1>16, <1>17, <1>18, <1>19, <1>20, <1>21
     DEF Next, Step

(* A request gets its board with the first step. *)
LEMMA HasBoardStep ==
  ASSUME TypeOK, RequestTypes, HasBoard, [Next]_vars
  PROVE  HasBoard'
<1> USE DEF HasBoard, Finding, BlockDevs, Visible, Blank
<1>1. ASSUME NEW b \in Boards, Unplug(b)
      PROVE  HasBoard'
  BY <1>1 DEF Unplug, Severed, RequestTypes, RequestType
<1>2. ASSUME NEW b \in Boards, Enumerate(b)
      PROVE  HasBoard'
  BY <1>2 DEF Enumerate, RequestTypes, RequestType
<1>3. ASSUME NEW b \in Boards, AutoMount(b)
      PROVE  HasBoard'
  BY <1>3 DEF AutoMount, RequestTypes, RequestType
<1>4. ASSUME NEW o \in Requests, NEW k \in Kinds, NEW b \in Boards,
             Prepare(o, k, b)
      PROVE  HasBoard'
  BY <1>4 DEF Prepare, At, RequestTypes, RequestType
<1>5. ASSUME NEW o \in Requests, Claim(o)
      PROVE  HasBoard'
  BY <1>5 DEF Claim, At, Go, RequestTypes, RequestType
<1>6. ASSUME NEW o \in Requests, ClaimRefused(o)
      PROVE  HasBoard'
  BY <1>6 DEF ClaimRefused, At, End, RequestTypes, RequestType
<1>7. ASSUME NEW o \in Requests, LookUp(o)
      PROVE  HasBoard'
  <2>1. Go(o, "touch") \/ Go(o, "wait") \/ End(o, "ok")
    BY <1>7 DEF LookUp, AfterBootMode
  <2>2. CASE Go(o, "touch") \/ Go(o, "wait")
    BY <1>7, <2>2 DEF Go, At, LookUp, RequestTypes, RequestType
  <2>3. CASE End(o, "ok")
    BY <1>7, <2>3 DEF End, At, LookUp, RequestTypes, RequestType
  <2>. QED
    BY <2>1, <2>2, <2>3
<1>8. ASSUME NEW o \in Requests, OpenFails(o)
      PROVE  HasBoard'
  BY <1>8 DEF OpenFails, At, End, RequestTypes, RequestType
<1>9. ASSUME NEW o \in Requests, Touch(o)
      PROVE  HasBoard'
  <2>1. Go(o, "touch") \/ Go(o, "wait") \/ End(o, "ok")
    BY <1>9 DEF Touch, AfterBootMode
  <2>2. CASE Go(o, "touch") \/ Go(o, "wait")
    BY <1>9, <2>2 DEF Go, At, Touch, RequestTypes, RequestType
  <2>3. CASE End(o, "ok")
    BY <1>9, <2>3 DEF End, At, Touch, RequestTypes, RequestType
  <2>. QED
    BY <2>1, <2>2, <2>3
<1>10. ASSUME NEW o \in Requests, WaitFinds(o)
      PROVE  HasBoard'
  BY <1>10 DEF WaitFinds, At, RequestTypes, RequestType
<1>11. ASSUME NEW o \in Requests, WaitTimesOut(o)
      PROVE  HasBoard'
  BY <1>11 DEF WaitTimesOut, At, End, RequestTypes, RequestType
<1>12. ASSUME NEW o \in Requests, FindMnt(o)
      PROVE  HasBoard'
  <2>1. CASE Go(o, "mount")
    BY <1>12, <2>1 DEF FindMnt, At, Go, RequestTypes, RequestType
  <2>2. ASSUME NEW m, req' = [req EXCEPT ![o] = [@ EXCEPT !.pc = "create", !.dir = m]]
        PROVE  HasBoard'
    <3>1. /\ req'[o].tgt = req[o].tgt /\ req'[o].vol = req[o].vol
          /\ \A q \in Requests \ {o} : req'[q] = req[q]
      BY <2>2 DEF RequestTypes, RequestType
    <3>. QED
      BY <1>12, <3>1 DEF FindMnt, At
  <2>. QED
    BY <1>12, <2>1, <2>2 DEF FindMnt
<1>13. ASSUME NEW o \in Requests, Mount(o)
      PROVE  HasBoard'
  BY <1>13 DEF Mount, At, RequestTypes, RequestType
<1>14. ASSUME NEW o \in Requests, MountFails(o)
      PROVE  HasBoard'
  BY <1>14 DEF MountFails, At, End, RequestTypes, RequestType
<1>15. ASSUME NEW o \in Requests, Create(o)
      PROVE  HasBoard'
  BY <1>15 DEF Create, At, Go, Alive, RequestTypes, RequestType
<1>16. ASSUME NEW o \in Requests, CreateFails(o)
      PROVE  HasBoard'
  BY <1>16 DEF CreateFails, At, End, Unmount, RequestTypes, RequestType
<1>17. ASSUME NEW o \in Requests, CopyAccepted(o)
      PROVE  HasBoard'
  BY <1>17 DEF CopyAccepted, At, Alive, Severed, RequestTypes, RequestType
<1>18. ASSUME NEW o \in Requests, CopyIgnored(o)
      PROVE  HasBoard'
  BY <1>18 DEF CopyIgnored, At, Go, Alive, RequestTypes, RequestType
<1>19. ASSUME NEW o \in Requests, CopyFails(o)
      PROVE  HasBoard'
  BY <1>19 DEF CopyFails, At, RequestTypes, RequestType
<1>20. ASSUME NEW o \in Requests, Check(o)
      PROVE  HasBoard'
  BY <1>20 DEF Check, At, End, Unmount, RequestTypes, RequestType
<1>21. CASE UNCHANGED vars
  BY <1>21 DEF vars
<1>. QED
  BY <1>1, <1>2, <1>3, <1>4, <1>5, <1>6, <1>7, <1>8, <1>9, <1>10, <1>11,
     <1>12, <1>13, <1>14, <1>15, <1>16, <1>17, <1>18, <1>19, <1>20, <1>21
     DEF Next, Step

(* A board whose volume is mounted is in boot mode. *)
LEMMA MountsLiveStep ==
  ASSUME TypeOK, MountsAreLive, [Next]_vars
  PROVE  MountsAreLive'
<1>a. BoardTypes
  BY TypeParts
<1> USE DEF MountsAreLive, BoardTypes
<1>1. ASSUME NEW b \in Boards, Unplug(b)
      PROVE  MountsAreLive'
  BY <1>a, <1>1 DEF Unplug, Severed
<1>2. ASSUME NEW b \in Boards, Enumerate(b)
      PROVE  MountsAreLive'
  BY <1>a, <1>2 DEF Enumerate
<1>3. ASSUME NEW b \in Boards, AutoMount(b)
      PROVE  MountsAreLive'
  BY <1>a, <1>3 DEF AutoMount
<1>4. ASSUME NEW o \in Requests, NEW k \in Kinds, NEW b \in Boards,
             Prepare(o, k, b)
      PROVE  MountsAreLive'
  BY <1>a, <1>4 DEF Prepare, At
<1>5. ASSUME NEW o \in Requests, Claim(o)
      PROVE  MountsAreLive'
  BY <1>a, <1>5 DEF Claim, At, Go
<1>6. ASSUME NEW o \in Requests, ClaimRefused(o)
      PROVE  MountsAreLive'
  BY <1>a, <1>6 DEF ClaimRefused, At, End
<1>7. ASSUME NEW o \in Requests, LookUp(o)
      PROVE  MountsAreLive'
  BY <1>a, <1>7 DEF LookUp, At, Go, AfterBootMode, End, Go, End
<1>8. ASSUME NEW o \in Requests, OpenFails(o)
      PROVE  MountsAreLive'
  BY <1>a, <1>8 DEF OpenFails, At, End
<1>9. ASSUME NEW o \in Requests, Touch(o)
      PROVE  MountsAreLive'
  BY <1>a, <1>9 DEF Touch, At, Go, AfterBootMode, End, Go, End
<1>10. ASSUME NEW o \in Requests, WaitFinds(o)
      PROVE  MountsAreLive'
  BY <1>a, <1>10 DEF WaitFinds, At
<1>11. ASSUME NEW o \in Requests, WaitTimesOut(o)
      PROVE  MountsAreLive'
  BY <1>a, <1>11 DEF WaitTimesOut, At, End
<1>12. ASSUME NEW o \in Requests, FindMnt(o)
      PROVE  MountsAreLive'
  BY <1>a, <1>12 DEF FindMnt, At, Go
<1>13. ASSUME NEW o \in Requests, Mount(o)
      PROVE  MountsAreLive'
  BY <1>a, <1>13 DEF Mount, At
<1>14. ASSUME NEW o \in Requests, MountFails(o)
      PROVE  MountsAreLive'
  BY <1>a, <1>14 DEF MountFails, At, End
<1>15. ASSUME NEW o \in Requests, Create(o)
      PROVE  MountsAreLive'
  BY <1>a, <1>15 DEF Create, At, Go, Alive
<1>16. ASSUME NEW o \in Requests, CreateFails(o)
      PROVE  MountsAreLive'
  BY <1>a, <1>16 DEF CreateFails, At, End, Unmount
<1>17. ASSUME NEW o \in Requests, CopyAccepted(o)
      PROVE  MountsAreLive'
  BY <1>a, <1>17 DEF CopyAccepted, At, Alive, Severed
<1>18. ASSUME NEW o \in Requests, CopyIgnored(o)
      PROVE  MountsAreLive'
  BY <1>a, <1>18 DEF CopyIgnored, At, Go, Alive
<1>19. ASSUME NEW o \in Requests, CopyFails(o)
      PROVE  MountsAreLive'
  BY <1>a, <1>19 DEF CopyFails, At
<1>20. ASSUME NEW o \in Requests, Check(o)
      PROVE  MountsAreLive'
  BY <1>a, <1>20 DEF Check, At, End, Unmount
<1>21. CASE UNCHANGED vars
  BY <1>a, <1>21 DEF vars
<1>. QED
  BY <1>1, <1>2, <1>3, <1>4, <1>5, <1>6, <1>7, <1>8, <1>9, <1>10, <1>11,
     <1>12, <1>13, <1>14, <1>15, <1>16, <1>17, <1>18, <1>19, <1>20, <1>21
     DEF Next, Step

(* A mount is made by a request that goes by it from then on, and taken    *)
(* down, or left to another, when that request ends.                       *)
LEMMA MountsUsedStep ==
  ASSUME TypeOK, MountsAreUsed, [Next]_vars
  PROVE  MountsAreUsed'
<1>a. BoardTypes /\ RequestTypes /\ HistoryTypes
  BY TypeParts
<1>b. None \notin Boards /\ None \notin Requests /\ "auto" \notin Requests
  BY BootselAssumption
<1> USE DEF MountsAreUsed, BoardTypes, RequestTypes, RequestType, HistoryTypes,
    Blank, AtWork, Finding, Using
<1>1. ASSUME NEW b \in Boards, Unplug(b)
      PROVE  MountsAreUsed'
  BY <1>a, <1>b, <1>1 DEF Unplug, Severed
<1>2. ASSUME NEW b \in Boards, Enumerate(b)
      PROVE  MountsAreUsed'
  BY <1>a, <1>b, <1>2 DEF Enumerate
<1>3. ASSUME NEW b \in Boards, AutoMount(b)
      PROVE  MountsAreUsed'
  BY <1>a, <1>b, <1>3 DEF AutoMount
<1>4. ASSUME NEW o \in Requests, NEW k \in Kinds, NEW b \in Boards,
             Prepare(o, k, b)
      PROVE  MountsAreUsed'
  BY <1>a, <1>b, <1>4 DEF Prepare, At
<1>5. ASSUME NEW o \in Requests, Claim(o)
      PROVE  MountsAreUsed'
  BY <1>a, <1>b, <1>5 DEF Claim, At, Go
<1>6. ASSUME NEW o \in Requests, ClaimRefused(o)
      PROVE  MountsAreUsed'
  BY <1>a, <1>b, <1>6 DEF ClaimRefused, At, End
<1>7. ASSUME NEW o \in Requests, LookUp(o)
      PROVE  MountsAreUsed'
  BY <1>a, <1>b, <1>7 DEF LookUp, At, Go, AfterBootMode, End
<1>8. ASSUME NEW o \in Requests, OpenFails(o)
      PROVE  MountsAreUsed'
  BY <1>a, <1>b, <1>8 DEF OpenFails, At, End
<1>9. ASSUME NEW o \in Requests, Touch(o)
      PROVE  MountsAreUsed'
  BY <1>a, <1>b, <1>9 DEF Touch, At, Go, AfterBootMode, End
<1>10. ASSUME NEW o \in Requests, WaitFinds(o)
      PROVE  MountsAreUsed'
  BY <1>a, <1>b, <1>10 DEF WaitFinds, At
<1>11. ASSUME NEW o \in Requests, WaitTimesOut(o)
      PROVE  MountsAreUsed'
  BY <1>a, <1>b, <1>11 DEF WaitTimesOut, At, End
<1>12. ASSUME NEW o \in Requests, FindMnt(o)
      PROVE  MountsAreUsed'
  <2>1. req[o].pc = "findmnt" /\ UNCHANGED mounts
    BY <1>12 DEF FindMnt, At
  <2>2. CASE Go(o, "mount")
    BY <1>a, <1>b, <2>1, <2>2 DEF Go
  <2>3. ASSUME NEW m \in mounts[req[o].vol],
               req' = [req EXCEPT ![o] = [@ EXCEPT !.pc = "create", !.dir = m]]
        PROVE  MountsAreUsed'
    BY <1>a, <1>b, <2>1, <2>3
  <2>. QED
    BY <1>12, <2>2, <2>3 DEF FindMnt
<1>13. ASSUME NEW o \in Requests, Mount(o)
      PROVE  MountsAreUsed'
  BY <1>a, <1>b, <1>13 DEF Mount, At
<1>14. ASSUME NEW o \in Requests, MountFails(o)
      PROVE  MountsAreUsed'
  BY <1>a, <1>b, <1>14 DEF MountFails, At, End
<1>15. ASSUME NEW o \in Requests, Create(o)
      PROVE  MountsAreUsed'
  BY <1>a, <1>b, <1>15 DEF Create, At, Go, Alive
<1>16. ASSUME NEW o \in Requests, CreateFails(o)
      PROVE  MountsAreUsed'
  BY <1>a, <1>b, <1>16 DEF CreateFails, At, End, Unmount
<1>17. ASSUME NEW o \in Requests, CopyAccepted(o)
      PROVE  MountsAreUsed'
  BY <1>a, <1>b, <1>17 DEF CopyAccepted, At, Alive, Severed
<1>18. ASSUME NEW o \in Requests, CopyIgnored(o)
      PROVE  MountsAreUsed'
  BY <1>a, <1>b, <1>18 DEF CopyIgnored, At, Go, Alive
<1>19. ASSUME NEW o \in Requests, CopyFails(o)
      PROVE  MountsAreUsed'
  BY <1>a, <1>b, <1>19 DEF CopyFails, At
<1>20. ASSUME NEW o \in Requests, Check(o)
      PROVE  MountsAreUsed'
  BY <1>a, <1>b, <1>20 DEF Check, At, End, Unmount
<1>21. CASE UNCHANGED vars
  BY <1>a, <1>b, <1>21 DEF vars
<1>. QED
  BY <1>1, <1>2, <1>3, <1>4, <1>5, <1>6, <1>7, <1>8, <1>9, <1>10, <1>11,
     <1>12, <1>13, <1>14, <1>15, <1>16, <1>17, <1>18, <1>19, <1>20, <1>21
     DEF Next, Step

(* What a request has written stays on record until it ends.               *)
LEMMA RanStep ==
  ASSUME TypeOK, RanIsWritten, [Next]_vars
  PROVE  RanIsWritten'
<1>a. BoardTypes /\ RequestTypes /\ HistoryTypes
  BY TypeParts
<1>b. None \notin Boards /\ None \notin Requests /\ "auto" \notin Requests
  BY BootselAssumption
<1> USE DEF RanIsWritten, BoardTypes, RequestTypes, RequestType, HistoryTypes,
    Blank, AtWork, Finding, Using
<1>1. ASSUME NEW b \in Boards, Unplug(b)
      PROVE  RanIsWritten'
  BY <1>a, <1>b, <1>1 DEF Unplug, Severed
<1>2. ASSUME NEW b \in Boards, Enumerate(b)
      PROVE  RanIsWritten'
  BY <1>a, <1>b, <1>2 DEF Enumerate
<1>3. ASSUME NEW b \in Boards, AutoMount(b)
      PROVE  RanIsWritten'
  BY <1>a, <1>b, <1>3 DEF AutoMount
<1>4. ASSUME NEW o \in Requests, NEW k \in Kinds, NEW b \in Boards,
             Prepare(o, k, b)
      PROVE  RanIsWritten'
  BY <1>a, <1>b, <1>4 DEF Prepare, At
<1>5. ASSUME NEW o \in Requests, Claim(o)
      PROVE  RanIsWritten'
  BY <1>a, <1>b, <1>5 DEF Claim, At, Go
<1>6. ASSUME NEW o \in Requests, ClaimRefused(o)
      PROVE  RanIsWritten'
  BY <1>a, <1>b, <1>6 DEF ClaimRefused, At, End
<1>7. ASSUME NEW o \in Requests, LookUp(o)
      PROVE  RanIsWritten'
  BY <1>a, <1>b, <1>7 DEF LookUp, At, Go, AfterBootMode, End
<1>8. ASSUME NEW o \in Requests, OpenFails(o)
      PROVE  RanIsWritten'
  BY <1>a, <1>b, <1>8 DEF OpenFails, At, End
<1>9. ASSUME NEW o \in Requests, Touch(o)
      PROVE  RanIsWritten'
  BY <1>a, <1>b, <1>9 DEF Touch, At, Go, AfterBootMode, End
<1>10. ASSUME NEW o \in Requests, WaitFinds(o)
      PROVE  RanIsWritten'
  BY <1>a, <1>b, <1>10 DEF WaitFinds, At
<1>11. ASSUME NEW o \in Requests, WaitTimesOut(o)
      PROVE  RanIsWritten'
  BY <1>a, <1>b, <1>11 DEF WaitTimesOut, At, End
<1>12. ASSUME NEW o \in Requests, FindMnt(o)
      PROVE  RanIsWritten'
  BY <1>a, <1>b, <1>12 DEF FindMnt, At, Go
<1>13. ASSUME NEW o \in Requests, Mount(o)
      PROVE  RanIsWritten'
  BY <1>a, <1>b, <1>13 DEF Mount, At
<1>14. ASSUME NEW o \in Requests, MountFails(o)
      PROVE  RanIsWritten'
  BY <1>a, <1>b, <1>14 DEF MountFails, At, End
<1>15. ASSUME NEW o \in Requests, Create(o)
      PROVE  RanIsWritten'
  BY <1>a, <1>b, <1>15 DEF Create, At, Go, Alive
<1>16. ASSUME NEW o \in Requests, CreateFails(o)
      PROVE  RanIsWritten'
  BY <1>a, <1>b, <1>16 DEF CreateFails, At, End, Unmount
<1>17. ASSUME NEW o \in Requests, CopyAccepted(o)
      PROVE  RanIsWritten'
  BY <1>a, <1>b, <1>17 DEF CopyAccepted, At, Alive, Severed
<1>18. ASSUME NEW o \in Requests, CopyIgnored(o)
      PROVE  RanIsWritten'
  BY <1>a, <1>b, <1>18 DEF CopyIgnored, At, Go, Alive
<1>19. ASSUME NEW o \in Requests, CopyFails(o)
      PROVE  RanIsWritten'
  BY <1>a, <1>b, <1>19 DEF CopyFails, At
<1>20. ASSUME NEW o \in Requests, Check(o)
      PROVE  RanIsWritten'
  BY <1>a, <1>b, <1>20 DEF Check, At, End, Unmount
<1>21. CASE UNCHANGED vars
  BY <1>a, <1>b, <1>21 DEF vars
<1>. QED
  BY <1>1, <1>2, <1>3, <1>4, <1>5, <1>6, <1>7, <1>8, <1>9, <1>10, <1>11,
     <1>12, <1>13, <1>14, <1>15, <1>16, <1>17, <1>18, <1>19, <1>20, <1>21
     DEF Next, Step

(* A request finds the mounts of its volume, and with it who mounted it.   *)
LEMMA MountsSharedStep ==
  ASSUME TypeOK, HasBoard, MountsAreUsed, MountsAreShared, [Next]_vars
  PROVE  MountsAreShared'
<1>a. BoardTypes /\ RequestTypes /\ HistoryTypes
  BY TypeParts
<1>b. None \notin Boards /\ None \notin Requests /\ "auto" \notin Requests
  BY BootselAssumption
<1> USE DEF MountsAreShared, BoardTypes, RequestTypes, RequestType,
    HistoryTypes, Blank, AtWork, Finding, Using, MountsAreUsed
<1>1. ASSUME NEW b \in Boards, Unplug(b)
      PROVE  MountsAreShared'
  BY <1>a, <1>b, <1>1 DEF Unplug, Severed
<1>2. ASSUME NEW b \in Boards, Enumerate(b)
      PROVE  MountsAreShared'
  BY <1>a, <1>b, <1>2 DEF Enumerate
<1>3. ASSUME NEW b \in Boards, AutoMount(b)
      PROVE  MountsAreShared'
  BY <1>a, <1>b, <1>3 DEF AutoMount
<1>4. ASSUME NEW o \in Requests, NEW k \in Kinds, NEW b \in Boards,
             Prepare(o, k, b)
      PROVE  MountsAreShared'
  BY <1>a, <1>b, <1>4 DEF Prepare, At
<1>5. ASSUME NEW o \in Requests, Claim(o)
      PROVE  MountsAreShared'
  BY <1>a, <1>b, <1>5 DEF Claim, At, Go
<1>6. ASSUME NEW o \in Requests, ClaimRefused(o)
      PROVE  MountsAreShared'
  BY <1>a, <1>b, <1>6 DEF ClaimRefused, At, End
<1>7. ASSUME NEW o \in Requests, LookUp(o)
      PROVE  MountsAreShared'
  <2>0. req[o].pc = "lookup" /\ UNCHANGED mounts
    BY <1>7 DEF LookUp, At
  <2>1. \/ Go(o, "touch") /\ UNCHANGED <<temp, ran>>
        \/ Go(o, "wait") /\ UNCHANGED <<temp, ran>>
        \/ End(o, "ok")
    BY <1>7 DEF LookUp, AfterBootMode
  <2>2. CASE Go(o, "touch") /\ UNCHANGED <<temp, ran>>
    BY <1>a, <1>b, <2>0, <2>2 DEF Go
  <2>3. CASE Go(o, "wait") /\ UNCHANGED <<temp, ran>>
    BY <1>a, <1>b, <2>0, <2>3 DEF Go
  <2>4. CASE End(o, "ok")
    BY <1>a, <1>b, <2>0, <2>4 DEF End
  <2>. QED
    BY <2>1, <2>2, <2>3, <2>4
<1>8. ASSUME NEW o \in Requests, OpenFails(o)
      PROVE  MountsAreShared'
  BY <1>a, <1>b, <1>8 DEF OpenFails, At, End
<1>9. ASSUME NEW o \in Requests, Touch(o)
      PROVE  MountsAreShared'
  <2>0. req[o].pc = "touch" /\ UNCHANGED mounts
    BY <1>9 DEF Touch, At
  <2>1. \/ Go(o, "touch") /\ UNCHANGED <<temp, ran>>
        \/ Go(o, "wait") /\ UNCHANGED <<temp, ran>>
        \/ End(o, "ok")
    BY <1>9 DEF Touch, AfterBootMode
  <2>2. CASE Go(o, "touch") /\ UNCHANGED <<temp, ran>>
    BY <1>a, <1>b, <2>0, <2>2 DEF Go
  <2>3. CASE Go(o, "wait") /\ UNCHANGED <<temp, ran>>
    BY <1>a, <1>b, <2>0, <2>3 DEF Go
  <2>4. CASE End(o, "ok")
    BY <1>a, <1>b, <2>0, <2>4 DEF End
  <2>. QED
    BY <2>1, <2>2, <2>3, <2>4
<1>10. ASSUME NEW o \in Requests, WaitFinds(o)
      PROVE  MountsAreShared'
  <2>1. req[o].pc = "wait" /\ UNCHANGED mounts
    BY <1>10 DEF WaitFinds, At
  <2>2. PICK v \in BlockDevs :
          req' = [req EXCEPT ![o] = [@ EXCEPT !.pc = "findmnt", !.vol = v]]
    BY <1>10 DEF WaitFinds
  <2>. QED
    BY <1>a, <1>b, <2>1, <2>2
<1>11. ASSUME NEW o \in Requests, WaitTimesOut(o)
      PROVE  MountsAreShared'
  BY <1>a, <1>b, <1>11 DEF WaitTimesOut, At, End
<1>12. ASSUME NEW o \in Requests, FindMnt(o)
      PROVE  MountsAreShared'
  <2>1. req[o].pc = "findmnt" /\ req[o].vol \in Boards
    BY <1>12 DEF FindMnt, At, HasBoard
  <2>2. CASE Go(o, "mount")
    BY <1>a, <1>b, <2>1, <2>2 DEF Go
  <2>3. ASSUME NEW m \in mounts[req[o].vol],
               req' = [req EXCEPT ![o] = [@ EXCEPT !.pc = "create", !.dir = m]]
        PROVE  MountsAreShared'
    <3>1. m \in Requests =>
            /\ m # o /\ req[m].pc \in Using \cup {"done"}
            /\ req[m].pc # "done" => req[m].vol = req[o].vol
      BY <2>1
    <3>2. /\ req'[o].pc = "create" /\ req'[o].dir = m /\ req'[o].vol = req[o].vol
          /\ \A q \in Requests \ {o} : req'[q] = req[q]
      BY <1>a, <2>3
    <3>3. \A q \in Requests : req[q].dir # o
      BY <1>b, <2>1
    <3>. QED
      BY <2>1, <3>1, <3>2, <3>3
  <2>. QED
    BY <1>12, <2>2, <2>3 DEF FindMnt
<1>13. ASSUME NEW o \in Requests, Mount(o)
      PROVE  MountsAreShared'
  BY <1>a, <1>b, <1>13 DEF Mount, At
<1>14. ASSUME NEW o \in Requests, MountFails(o)
      PROVE  MountsAreShared'
  BY <1>a, <1>b, <1>14 DEF MountFails, At, End
<1>15. ASSUME NEW o \in Requests, Create(o)
      PROVE  MountsAreShared'
  BY <1>a, <1>b, <1>15 DEF Create, At, Go, Alive
<1>16. ASSUME NEW o \in Requests, CreateFails(o)
      PROVE  MountsAreShared'
  BY <1>a, <1>b, <1>16 DEF CreateFails, At, End, Unmount
<1>17. ASSUME NEW o \in Requests, CopyAccepted(o)
      PROVE  MountsAreShared'
  BY <1>a, <1>b, <1>17 DEF CopyAccepted, At, Alive, Severed
<1>18. ASSUME NEW o \in Requests, CopyIgnored(o)
      PROVE  MountsAreShared'
  BY <1>a, <1>b, <1>18 DEF CopyIgnored, At, Go, Alive
<1>19. ASSUME NEW o \in Requests, CopyFails(o)
      PROVE  MountsAreShared'
  BY <1>a, <1>b, <1>19 DEF CopyFails, At
<1>20. ASSUME NEW o \in Requests, Check(o)
      PROVE  MountsAreShared'
  BY <1>a, <1>b, <1>20 DEF Check, At, End, Unmount
<1>21. CASE UNCHANGED vars
  BY <1>a, <1>b, <1>21 DEF vars
<1>. QED
  BY <1>1, <1>2, <1>3, <1>4, <1>5, <1>6, <1>7, <1>8, <1>9, <1>10, <1>11,
     <1>12, <1>13, <1>14, <1>15, <1>16, <1>17, <1>18, <1>19, <1>20, <1>21
     DEF Next, Step

(* A request that is undisturbed after a step was so before it, unless it  *)
(* has just begun to work, and is alone with its board.                    *)
LEMMA WatchedAlone ==
  ASSUME NEW P, Watch(P), NEW o \in Requests, Alone(o)'
  PROVE  /\ o \notin disturbed
         /\ req'[o].tgt \notin P
         /\ Visible' \subseteq {req'[o].tgt}
         /\ \A q \in Requests \ {o} :
              req'[q].pc \in AtWork => req'[o].tgt \notin {req'[q].tgt, req'[q].vol}
BY DEF Watch, Alone

(* Whoever is not alone has been seen by the step that made it so.         *)
LEMMA AloneWithBoardStep ==
  ASSUME AloneWithBoard, [Next]_vars
  PROVE  AloneWithBoard'
<1>1. CASE UNCHANGED vars
  BY <1>1 DEF AloneWithBoard, Alone, Visible, vars
<1>2. ASSUME NEW P, Watch(P)
      PROVE  AloneWithBoard'
  BY <1>2, WatchedAlone DEF AloneWithBoard
<1>. QED
  BY <1>1, <1>2 DEF Next

(* What one request has achieved, as AloneWrites says.                     *)
WritesOwn(o) ==
  /\ req[o].pc \in Finding => req[o].vol = req[o].tgt
  /\ req[o].pc \in {"create", "copy"} => mode[req[o].tgt] = "bootsel"
  /\ req[o].pc = "check" =>
       \/ ran[o] = req[o].tgt
       \/ /\ mode[req[o].tgt] = "bootsel"
          /\ req[o].err \/ req[o].family # chip[req[o].tgt]

(* A request that is alone finds its own board, mounts it while it is in   *)
(* boot mode, and nobody but itself makes it leave.                        *)
LEMMA AloneWritesStep ==
  ASSUME TypeOK, HasBoard, MountsAreLive, AloneWithBoard, AloneWrites,
         [Next]_vars
  PROVE  AloneWrites'
<1>a. BoardTypes /\ RequestTypes /\ HistoryTypes
  BY TypeParts
<1>b. None \notin Boards /\ None \notin Requests /\ "auto" \notin Requests
  BY BootselAssumption
<1> USE DEF BoardTypes, RequestTypes, RequestType, HistoryTypes, Blank, AtWork,
    Finding, Using, MountsAreLive
<1>1. ASSUME NEW b \in Boards, Unplug(b), Watch({b})
      PROVE  AloneWrites'
  <2> SUFFICES ASSUME NEW a \in Requests, Alone(a)'
               PROVE  WritesOwn(a)'
    BY DEF AloneWrites, WritesOwn
  <2>1. /\ a \notin disturbed
        /\ req'[a].tgt \notin {b}
        /\ Visible' \subseteq {req'[a].tgt}
        /\ \A q \in Requests \ {a} :
             req'[q].pc \in AtWork => req'[a].tgt \notin {req'[q].tgt, req'[q].vol}
    BY <1>1, WatchedAlone
  <2>2. req[a].pc \in AtWork => Alone(a) /\ WritesOwn(a)
    BY <2>1 DEF Alone, AloneWrites, WritesOwn
  <2>. QED
    BY <1>a, <1>b, <1>1, <2>1, <2>2
       DEF WritesOwn, Unplug, Severed
<1>2. ASSUME NEW b \in Boards, Enumerate(b), Watch({})
      PROVE  AloneWrites'
  <2> SUFFICES ASSUME NEW a \in Requests, Alone(a)'
               PROVE  WritesOwn(a)'
    BY DEF AloneWrites, WritesOwn
  <2>1. /\ a \notin disturbed
        /\ req'[a].tgt \notin {}
        /\ Visible' \subseteq {req'[a].tgt}
        /\ \A q \in Requests \ {a} :
             req'[q].pc \in AtWork => req'[a].tgt \notin {req'[q].tgt, req'[q].vol}
    BY <1>2, WatchedAlone
  <2>2. req[a].pc \in AtWork => Alone(a) /\ WritesOwn(a)
    BY <2>1 DEF Alone, AloneWrites, WritesOwn
  <2>3. \A c \in Boards : mode[c] = "bootsel" => mode'[c] = "bootsel"
    BY <1>a, <1>2 DEF Enumerate
  <2>4. UNCHANGED <<chip, req, ran>>
    BY <1>2 DEF Enumerate
  <2>5. req[a].pc \in Finding => req[a].tgt \in Boards
    BY <1>a DEF HasBoard, Finding
  <2>. QED
    BY <2>1, <2>2, <2>3, <2>4, <2>5 DEF WritesOwn
<1>3. ASSUME NEW b \in Boards, AutoMount(b), Watch({})
      PROVE  AloneWrites'
  <2> SUFFICES ASSUME NEW a \in Requests, Alone(a)'
               PROVE  WritesOwn(a)'
    BY DEF AloneWrites, WritesOwn
  <2>1. /\ a \notin disturbed
        /\ req'[a].tgt \notin {}
        /\ Visible' \subseteq {req'[a].tgt}
        /\ \A q \in Requests \ {a} :
             req'[q].pc \in AtWork => req'[a].tgt \notin {req'[q].tgt, req'[q].vol}
    BY <1>3, WatchedAlone
  <2>2. req[a].pc \in AtWork => Alone(a) /\ WritesOwn(a)
    BY <2>1 DEF Alone, AloneWrites, WritesOwn
  <2>. QED
    BY <1>a, <1>b, <1>3, <2>1, <2>2
       DEF WritesOwn, AutoMount
<1>4. ASSUME NEW o \in Requests, NEW k \in Kinds, NEW b \in Boards,
             Prepare(o, k, b), Watch({})
      PROVE  AloneWrites'
  <2> SUFFICES ASSUME NEW a \in Requests, Alone(a)'
               PROVE  WritesOwn(a)'
    BY DEF AloneWrites, WritesOwn
  <2>1. /\ a \notin disturbed
        /\ req'[a].tgt \notin {}
        /\ Visible' \subseteq {req'[a].tgt}
        /\ \A q \in Requests \ {a} :
             req'[q].pc \in AtWork => req'[a].tgt \notin {req'[q].tgt, req'[q].vol}
    BY <1>4, WatchedAlone
  <2>2. req[a].pc \in AtWork => Alone(a) /\ WritesOwn(a)
    BY <2>1 DEF Alone, AloneWrites, WritesOwn
  <2>. QED
    BY <1>a, <1>b, <1>4, <2>1, <2>2
       DEF WritesOwn, Prepare, At
<1>5. ASSUME NEW o \in Requests, Claim(o), Watch({})
      PROVE  AloneWrites'
  <2> SUFFICES ASSUME NEW a \in Requests, Alone(a)'
               PROVE  WritesOwn(a)'
    BY DEF AloneWrites, WritesOwn
  <2>1. /\ a \notin disturbed
        /\ req'[a].tgt \notin {}
        /\ Visible' \subseteq {req'[a].tgt}
        /\ \A q \in Requests \ {a} :
             req'[q].pc \in AtWork => req'[a].tgt \notin {req'[q].tgt, req'[q].vol}
    BY <1>5, WatchedAlone
  <2>2. req[a].pc \in AtWork => Alone(a) /\ WritesOwn(a)
    BY <2>1 DEF Alone, AloneWrites, WritesOwn
  <2>. QED
    BY <1>a, <1>b, <1>5, <2>1, <2>2
       DEF WritesOwn, Claim, At, Go
<1>6. ASSUME NEW o \in Requests, ClaimRefused(o), Watch({})
      PROVE  AloneWrites'
  <2> SUFFICES ASSUME NEW a \in Requests, Alone(a)'
               PROVE  WritesOwn(a)'
    BY DEF AloneWrites, WritesOwn
  <2>1. /\ a \notin disturbed
        /\ req'[a].tgt \notin {}
        /\ Visible' \subseteq {req'[a].tgt}
        /\ \A q \in Requests \ {a} :
             req'[q].pc \in AtWork => req'[a].tgt \notin {req'[q].tgt, req'[q].vol}
    BY <1>6, WatchedAlone
  <2>2. req[a].pc \in AtWork => Alone(a) /\ WritesOwn(a)
    BY <2>1 DEF Alone, AloneWrites, WritesOwn
  <2>. QED
    BY <1>a, <1>b, <1>6, <2>1, <2>2
       DEF WritesOwn, ClaimRefused, At, End
<1>7. ASSUME NEW o \in Requests, LookUp(o), Watch({})
      PROVE  AloneWrites'
  <2> SUFFICES ASSUME NEW a \in Requests, Alone(a)'
               PROVE  WritesOwn(a)'
    BY DEF AloneWrites, WritesOwn
  <2>1. /\ a \notin disturbed
        /\ req'[a].tgt \notin {}
        /\ Visible' \subseteq {req'[a].tgt}
        /\ \A q \in Requests \ {a} :
             req'[q].pc \in AtWork => req'[a].tgt \notin {req'[q].tgt, req'[q].vol}
    BY <1>7, WatchedAlone
  <2>2. req[a].pc \in AtWork => Alone(a) /\ WritesOwn(a)
    BY <2>1 DEF Alone, AloneWrites, WritesOwn
  <2>3. /\ req[o].pc = "lookup" /\ UNCHANGED chip
        /\ \A b \in Boards : mode[b] = "bootsel" => mode'[b] = "bootsel"
    BY <1>a, <1>7 DEF LookUp, At
  <2>4. \/ (Go(o, "touch") \/ Go(o, "wait")) /\ UNCHANGED ran
        \/ End(o, "ok")
    BY <1>7 DEF LookUp, AfterBootMode
  <2>5. CASE a = o
    <3>1. CASE (Go(o, "touch") \/ Go(o, "wait")) /\ UNCHANGED ran
      BY <1>a, <2>5, <3>1 DEF WritesOwn, Go
    <3>2. CASE End(o, "ok")
      BY <1>a, <2>5, <3>2 DEF WritesOwn, End
    <3>. QED
      BY <2>4, <3>1, <3>2
  <2>6. CASE a # o
    <3>1. req'[a] = req[a] /\ ran'[a] = ran[a]
      BY <1>a, <2>4, <2>6 DEF Go, End
    <3>2. req[a].pc \in Finding => req[a].tgt \in Boards
      BY <1>a DEF HasBoard
    <3>. QED
      BY <2>1, <2>2, <2>3, <3>1, <3>2 DEF WritesOwn
  <2>. QED
    BY <2>5, <2>6
<1>8. ASSUME NEW o \in Requests, OpenFails(o), Watch({})
      PROVE  AloneWrites'
  <2> SUFFICES ASSUME NEW a \in Requests, Alone(a)'
               PROVE  WritesOwn(a)'
    BY DEF AloneWrites, WritesOwn
  <2>1. /\ a \notin disturbed
        /\ req'[a].tgt \notin {}
        /\ Visible' \subseteq {req'[a].tgt}
        /\ \A q \in Requests \ {a} :
             req'[q].pc \in AtWork => req'[a].tgt \notin {req'[q].tgt, req'[q].vol}
    BY <1>8, WatchedAlone
  <2>2. req[a].pc \in AtWork => Alone(a) /\ WritesOwn(a)
    BY <2>1 DEF Alone, AloneWrites, WritesOwn
  <2>. QED
    BY <1>a, <1>b, <1>8, <2>1, <2>2
       DEF WritesOwn, OpenFails, At, End
<1>9. ASSUME NEW o \in Requests, Touch(o), Watch({})
      PROVE  AloneWrites'
  <2> SUFFICES ASSUME NEW a \in Requests, Alone(a)'
               PROVE  WritesOwn(a)'
    BY DEF AloneWrites, WritesOwn
  <2>1. /\ a \notin disturbed
        /\ req'[a].tgt \notin {}
        /\ Visible' \subseteq {req'[a].tgt}
        /\ \A q \in Requests \ {a} :
             req'[q].pc \in AtWork => req'[a].tgt \notin {req'[q].tgt, req'[q].vol}
    BY <1>9, WatchedAlone
  <2>2. req[a].pc \in AtWork => Alone(a) /\ WritesOwn(a)
    BY <2>1 DEF Alone, AloneWrites, WritesOwn
  <2>3. /\ req[o].pc = "touch" /\ UNCHANGED chip
        /\ \A b \in Boards : mode[b] = "bootsel" => mode'[b] = "bootsel"
    BY <1>a, <1>9 DEF Touch, At
  <2>4. \/ (Go(o, "touch") \/ Go(o, "wait")) /\ UNCHANGED ran
        \/ End(o, "ok")
    BY <1>9 DEF Touch, AfterBootMode
  <2>5. CASE a = o
    <3>1. CASE (Go(o, "touch") \/ Go(o, "wait")) /\ UNCHANGED ran
      BY <1>a, <2>5, <3>1 DEF WritesOwn, Go
    <3>2. CASE End(o, "ok")
      BY <1>a, <2>5, <3>2 DEF WritesOwn, End
    <3>. QED
      BY <2>4, <3>1, <3>2
  <2>6. CASE a # o
    <3>1. req'[a] = req[a] /\ ran'[a] = ran[a]
      BY <1>a, <2>4, <2>6 DEF Go, End
    <3>2. req[a].pc \in Finding => req[a].tgt \in Boards
      BY <1>a DEF HasBoard
    <3>. QED
      BY <2>1, <2>2, <2>3, <3>1, <3>2 DEF WritesOwn
  <2>. QED
    BY <2>5, <2>6
<1>10. ASSUME NEW o \in Requests, WaitFinds(o), Watch({})
      PROVE  AloneWrites'
  <2> SUFFICES ASSUME NEW a \in Requests, Alone(a)'
               PROVE  WritesOwn(a)'
    BY DEF AloneWrites, WritesOwn
  <2>1. /\ a \notin disturbed
        /\ req'[a].tgt \notin {}
        /\ Visible' \subseteq {req'[a].tgt}
        /\ \A q \in Requests \ {a} :
             req'[q].pc \in AtWork => req'[a].tgt \notin {req'[q].tgt, req'[q].vol}
    BY <1>10, WatchedAlone
  <2>2. req[a].pc \in AtWork => Alone(a) /\ WritesOwn(a)
    BY <2>1 DEF Alone, AloneWrites, WritesOwn
  <2>3. PICK v \in BlockDevs :
          req' = [req EXCEPT ![o] = [@ EXCEPT !.pc = "findmnt", !.vol = v]]
    BY <1>10 DEF WaitFinds
  <2>4. v \in Visible'
    BY <1>10 DEF BlockDevs, Visible, WaitFinds
  <2>5. UNCHANGED <<chip, mode, ran>>
    BY <1>10 DEF WaitFinds
  <2>6. CASE a = o
    <3>1. req'[a].pc = "findmnt" /\ req'[a].vol = v
      BY <1>a, <2>3, <2>6
    <3>2. v = req'[a].tgt
      BY <2>1, <2>4
    <3>. QED
      BY <3>1, <3>2 DEF WritesOwn
  <2>7. CASE a # o
    <3>1. req'[a] = req[a]
      BY <1>a, <2>3, <2>7
    <3>. QED
      BY <2>1, <2>2, <2>5, <3>1 DEF WritesOwn
  <2>. QED
    BY <2>6, <2>7
<1>11. ASSUME NEW o \in Requests, WaitTimesOut(o), Watch({})
      PROVE  AloneWrites'
  <2> SUFFICES ASSUME NEW a \in Requests, Alone(a)'
               PROVE  WritesOwn(a)'
    BY DEF AloneWrites, WritesOwn
  <2>1. /\ a \notin disturbed
        /\ req'[a].tgt \notin {}
        /\ Visible' \subseteq {req'[a].tgt}
        /\ \A q \in Requests \ {a} :
             req'[q].pc \in AtWork => req'[a].tgt \notin {req'[q].tgt, req'[q].vol}
    BY <1>11, WatchedAlone
  <2>2. req[a].pc \in AtWork => Alone(a) /\ WritesOwn(a)
    BY <2>1 DEF Alone, AloneWrites, WritesOwn
  <2>. QED
    BY <1>a, <1>b, <1>11, <2>1, <2>2
       DEF WritesOwn, WaitTimesOut, At, End
<1>12. ASSUME NEW o \in Requests, FindMnt(o), Watch({})
      PROVE  AloneWrites'
  <2> SUFFICES ASSUME NEW a \in Requests, Alone(a)'
               PROVE  WritesOwn(a)'
    BY DEF AloneWrites, WritesOwn
  <2>1. /\ a \notin disturbed
        /\ req'[a].tgt \notin {}
        /\ Visible' \subseteq {req'[a].tgt}
        /\ \A q \in Requests \ {a} :
             req'[q].pc \in AtWork => req'[a].tgt \notin {req'[q].tgt, req'[q].vol}
    BY <1>12, WatchedAlone
  <2>2. req[a].pc \in AtWork => Alone(a) /\ WritesOwn(a)
    BY <2>1 DEF Alone, AloneWrites, WritesOwn
  <2>3. req[o].pc = "findmnt" /\ UNCHANGED <<chip, mode, ran>>
    BY <1>12 DEF FindMnt, At
  <2>4. CASE a = o
    <3>1. req[a].vol = req[a].tgt /\ req[a].tgt \in Boards
      BY <1>a, <2>2, <2>3, <2>4 DEF WritesOwn, HasBoard
    <3>2. CASE Go(o, "mount")
      BY <1>a, <2>3, <2>4, <3>1, <3>2 DEF Go, WritesOwn
    <3>3. ASSUME NEW m \in mounts[req[o].vol],
                 req' = [req EXCEPT ![o] = [@ EXCEPT !.pc = "create", !.dir = m]]
          PROVE  WritesOwn(a)'
      <4>1. mode[req[a].tgt] = "bootsel"
        BY <2>4, <3>1, <3>3
      <4>2. req'[a].pc = "create" /\ req'[a].tgt = req[a].tgt /\ req'[a].vol = req[a].vol
        BY <1>a, <2>4, <3>3
      <4>. QED
        BY <2>3, <3>1, <4>1, <4>2 DEF WritesOwn
    <3>. QED
      BY <3>2, <3>3, <1>12 DEF FindMnt
  <2>5. CASE a # o
    <3>1. req'[a] = req[a]
      BY <1>a, <2>5, <1>12 DEF FindMnt, Go
    <3>. QED
      BY <2>1, <2>2, <2>3, <3>1 DEF WritesOwn
  <2>. QED
    BY <2>4, <2>5
<1>13. ASSUME NEW o \in Requests, Mount(o), Watch({})
      PROVE  AloneWrites'
  <2> SUFFICES ASSUME NEW a \in Requests, Alone(a)'
               PROVE  WritesOwn(a)'
    BY DEF AloneWrites, WritesOwn
  <2>1. /\ a \notin disturbed
        /\ req'[a].tgt \notin {}
        /\ Visible' \subseteq {req'[a].tgt}
        /\ \A q \in Requests \ {a} :
             req'[q].pc \in AtWork => req'[a].tgt \notin {req'[q].tgt, req'[q].vol}
    BY <1>13, WatchedAlone
  <2>2. req[a].pc \in AtWork => Alone(a) /\ WritesOwn(a)
    BY <2>1 DEF Alone, AloneWrites, WritesOwn
  <2>. QED
    BY <1>a, <1>b, <1>13, <2>1, <2>2
       DEF WritesOwn, Mount, At
<1>14. ASSUME NEW o \in Requests, MountFails(o), Watch({})
      PROVE  AloneWrites'
  <2> SUFFICES ASSUME NEW a \in Requests, Alone(a)'
               PROVE  WritesOwn(a)'
    BY DEF AloneWrites, WritesOwn
  <2>1. /\ a \notin disturbed
        /\ req'[a].tgt \notin {}
        /\ Visible' \subseteq {req'[a].tgt}
        /\ \A q \in Requests \ {a} :
             req'[q].pc \in AtWork => req'[a].tgt \notin {req'[q].tgt, req'[q].vol}
    BY <1>14, WatchedAlone
  <2>2. req[a].pc \in AtWork => Alone(a) /\ WritesOwn(a)
    BY <2>1 DEF Alone, AloneWrites, WritesOwn
  <2>. QED
    BY <1>a, <1>b, <1>14, <2>1, <2>2
       DEF WritesOwn, MountFails, At, End
<1>15. ASSUME NEW o \in Requests, Create(o), Watch({})
      PROVE  AloneWrites'
  <2> SUFFICES ASSUME NEW a \in Requests, Alone(a)'
               PROVE  WritesOwn(a)'
    BY DEF AloneWrites, WritesOwn
  <2>1. /\ a \notin disturbed
        /\ req'[a].tgt \notin {}
        /\ Visible' \subseteq {req'[a].tgt}
        /\ \A q \in Requests \ {a} :
             req'[q].pc \in AtWork => req'[a].tgt \notin {req'[q].tgt, req'[q].vol}
    BY <1>15, WatchedAlone
  <2>2. req[a].pc \in AtWork => Alone(a) /\ WritesOwn(a)
    BY <2>1 DEF Alone, AloneWrites, WritesOwn
  <2>. QED
    BY <1>a, <1>b, <1>15, <2>1, <2>2
       DEF WritesOwn, Create, At, Go, Alive
<1>16. ASSUME NEW o \in Requests, CreateFails(o), Watch({})
      PROVE  AloneWrites'
  <2> SUFFICES ASSUME NEW a \in Requests, Alone(a)'
               PROVE  WritesOwn(a)'
    BY DEF AloneWrites, WritesOwn
  <2>1. /\ a \notin disturbed
        /\ req'[a].tgt \notin {}
        /\ Visible' \subseteq {req'[a].tgt}
        /\ \A q \in Requests \ {a} :
             req'[q].pc \in AtWork => req'[a].tgt \notin {req'[q].tgt, req'[q].vol}
    BY <1>16, WatchedAlone
  <2>2. req[a].pc \in AtWork => Alone(a) /\ WritesOwn(a)
    BY <2>1 DEF Alone, AloneWrites, WritesOwn
  <2>. QED
    BY <1>a, <1>b, <1>16, <2>1, <2>2
       DEF WritesOwn, CreateFails, At, End, Unmount
<1>17. ASSUME NEW o \in Requests, CopyAccepted(o), Watch({})
      PROVE  AloneWrites'
  <2> SUFFICES ASSUME NEW a \in Requests, Alone(a)'
               PROVE  WritesOwn(a)'
    BY DEF AloneWrites, WritesOwn
  <2>1. /\ a \notin disturbed
        /\ req'[a].tgt \notin {}
        /\ Visible' \subseteq {req'[a].tgt}
        /\ \A q \in Requests \ {a} :
             req'[q].pc \in AtWork => req'[a].tgt \notin {req'[q].tgt, req'[q].vol}
    BY <1>17, WatchedAlone
  <2>2. req[a].pc \in AtWork => Alone(a) /\ WritesOwn(a)
    BY <2>1 DEF Alone, AloneWrites, WritesOwn
  <2>. QED
    BY <1>a, <1>b, <1>17, <2>1, <2>2
       DEF WritesOwn, CopyAccepted, At, Alive, Severed
<1>18. ASSUME NEW o \in Requests, CopyIgnored(o), Watch({})
      PROVE  AloneWrites'
  <2> SUFFICES ASSUME NEW a \in Requests, Alone(a)'
               PROVE  WritesOwn(a)'
    BY DEF AloneWrites, WritesOwn
  <2>1. /\ a \notin disturbed
        /\ req'[a].tgt \notin {}
        /\ Visible' \subseteq {req'[a].tgt}
        /\ \A q \in Requests \ {a} :
             req'[q].pc \in AtWork => req'[a].tgt \notin {req'[q].tgt, req'[q].vol}
    BY <1>18, WatchedAlone
  <2>2. req[a].pc \in AtWork => Alone(a) /\ WritesOwn(a)
    BY <2>1 DEF Alone, AloneWrites, WritesOwn
  <2>. QED
    BY <1>a, <1>b, <1>18, <2>1, <2>2
       DEF WritesOwn, CopyIgnored, At, Go, Alive
<1>19. ASSUME NEW o \in Requests, CopyFails(o), Watch({})
      PROVE  AloneWrites'
  <2> SUFFICES ASSUME NEW a \in Requests, Alone(a)'
               PROVE  WritesOwn(a)'
    BY DEF AloneWrites, WritesOwn
  <2>1. /\ a \notin disturbed
        /\ req'[a].tgt \notin {}
        /\ Visible' \subseteq {req'[a].tgt}
        /\ \A q \in Requests \ {a} :
             req'[q].pc \in AtWork => req'[a].tgt \notin {req'[q].tgt, req'[q].vol}
    BY <1>19, WatchedAlone
  <2>2. req[a].pc \in AtWork => Alone(a) /\ WritesOwn(a)
    BY <2>1 DEF Alone, AloneWrites, WritesOwn
  <2>. QED
    BY <1>a, <1>b, <1>19, <2>1, <2>2
       DEF WritesOwn, CopyFails, At
<1>20. ASSUME NEW o \in Requests, Check(o), Watch({})
      PROVE  AloneWrites'
  <2> SUFFICES ASSUME NEW a \in Requests, Alone(a)'
               PROVE  WritesOwn(a)'
    BY DEF AloneWrites, WritesOwn
  <2>1. /\ a \notin disturbed
        /\ req'[a].tgt \notin {}
        /\ Visible' \subseteq {req'[a].tgt}
        /\ \A q \in Requests \ {a} :
             req'[q].pc \in AtWork => req'[a].tgt \notin {req'[q].tgt, req'[q].vol}
    BY <1>20, WatchedAlone
  <2>2. req[a].pc \in AtWork => Alone(a) /\ WritesOwn(a)
    BY <2>1 DEF Alone, AloneWrites, WritesOwn
  <2>. QED
    BY <1>a, <1>b, <1>20, <2>1, <2>2
       DEF WritesOwn, Check, At, End, Unmount
<1>21. CASE UNCHANGED vars
  BY <1>21 DEF vars, AloneWrites, Alone
<1>. QED
  BY <1>1, <1>2, <1>3, <1>4, <1>5, <1>6, <1>7, <1>8, <1>9, <1>10, <1>11,
     <1>12, <1>13, <1>14, <1>15, <1>16, <1>17, <1>18, <1>19, <1>20, <1>21
     DEF Next, Step

(* The types are kept.                                                     *)
LEMMA TypeStep ==
  ASSUME TypeOK, HasBoard, [Next]_vars
  PROVE  TypeOK'
<1>1. BoardTypes /\ RequestTypes /\ HistoryTypes
  BY TypeParts
<1>2. BoardTypes' /\ RequestTypes' /\ HistoryTypes'
  BY <1>1, BoardTypesStep, RequestTypesStep, HistoryTypesStep
<1>. QED
  BY <1>2, TypeParts, PTL

-----------------------------------------------------------------------------
(* The end of a request.                                                   *)

(* A request returns from its own step: at Check, when the volume cannot   *)
(* be written to, or before it goes by any mount; it then succeeds only if *)
(* boot mode is all that it was asked for.                                 *)
Returns(a) ==
  \/ Check(a)
  \/ CreateFails(a)
  \/ /\ req[a].pc \notin Using
     /\ UNCHANGED mounts
     /\ a \notin temp'
     /\ req'[a].result = "ok" => req[a].kind = "boot"

(* Nothing else ends it.                                                   *)
LEMMA WhoEnds ==
  ASSUME TypeOK, [Next]_vars
  PROVE  \A a \in Requests : Ends(a) => Returns(a)
<1>a. req \in [Requests -> RequestType]
  BY TypeParts DEF RequestTypes
<1> USE DEF Ends
<1>1. ASSUME NEW b \in Boards, Unplug(b)
      PROVE  \A a \in Requests : Ends(a) => Returns(a)
  <2>1. \A a \in Requests : req'[a].pc = "done" => req[a].pc = "done"
    BY <1>a, <1>1 DEF Unplug, Severed
  <2>. QED
    BY <2>1
<1>2. ASSUME NEW b \in Boards, Enumerate(b)
      PROVE  \A a \in Requests : Ends(a) => Returns(a)
  <2>1. \A a \in Requests : req'[a].pc = "done" => req[a].pc = "done"
    BY <1>a, <1>2 DEF Enumerate
  <2>. QED
    BY <2>1
<1>3. ASSUME NEW b \in Boards, AutoMount(b)
      PROVE  \A a \in Requests : Ends(a) => Returns(a)
  <2>1. \A a \in Requests : req'[a].pc = "done" => req[a].pc = "done"
    BY <1>a, <1>3 DEF AutoMount
  <2>. QED
    BY <2>1
<1>4. ASSUME NEW o \in Requests, NEW k \in Kinds, NEW b \in Boards,
             Prepare(o, k, b)
      PROVE  \A a \in Requests : Ends(a) => Returns(a)
  <2>1. \A a \in Requests : req'[a].pc = "done" => req[a].pc = "done"
    BY <1>a, <1>4 DEF Prepare, At
  <2>. QED
    BY <2>1
<1>5. ASSUME NEW o \in Requests, Claim(o)
      PROVE  \A a \in Requests : Ends(a) => Returns(a)
  <2>1. \A a \in Requests : req'[a].pc = "done" => req[a].pc = "done"
    BY <1>a, <1>5 DEF Claim, At, Go
  <2>. QED
    BY <2>1
<1>6. ASSUME NEW o \in Requests, ClaimRefused(o)
      PROVE  \A a \in Requests : Ends(a) => Returns(a)
  <2>1. req[o].pc \notin Using /\ UNCHANGED mounts
    BY <1>6 DEF ClaimRefused, At, Using
  <2>2. PICK r : End(o, r) /\ r \in {"refused", "failed"}
    BY <1>6 DEF ClaimRefused
  <2>. QED
    BY <1>a, <2>1, <2>2 DEF End, Returns
<1>7. ASSUME NEW o \in Requests, LookUp(o)
      PROVE  \A a \in Requests : Ends(a) => Returns(a)
  <2>1. req[o].pc \notin Using /\ UNCHANGED mounts
    BY <1>7 DEF LookUp, At, Using
  <2>2. CASE Go(o, "touch") \/ Go(o, "wait")
    BY <1>a, <2>2 DEF Go, RequestType
  <2>3. CASE End(o, "ok") /\ req[o].kind = "boot"
    BY <1>a, <2>1, <2>3 DEF End, Returns
  <2>. QED
    BY <2>2, <2>3, <1>7 DEF LookUp, AfterBootMode
<1>8. ASSUME NEW o \in Requests, OpenFails(o)
      PROVE  \A a \in Requests : Ends(a) => Returns(a)
  <2>1. req[o].pc \notin Using /\ UNCHANGED mounts
    BY <1>8 DEF OpenFails, At, Using
  <2>2. PICK r : End(o, r) /\ r \in {"refused", "failed"}
    BY <1>8 DEF OpenFails
  <2>. QED
    BY <1>a, <2>1, <2>2 DEF End, Returns
<1>9. ASSUME NEW o \in Requests, Touch(o)
      PROVE  \A a \in Requests : Ends(a) => Returns(a)
  <2>1. req[o].pc \notin Using /\ UNCHANGED mounts
    BY <1>9 DEF Touch, At, Using
  <2>2. CASE Go(o, "touch") \/ Go(o, "wait")
    BY <1>a, <2>2 DEF Go, RequestType
  <2>3. CASE End(o, "ok") /\ req[o].kind = "boot"
    BY <1>a, <2>1, <2>3 DEF End, Returns
  <2>. QED
    BY <2>2, <2>3, <1>9 DEF Touch, AfterBootMode
<1>10. ASSUME NEW o \in Requests, WaitFinds(o)
      PROVE  \A a \in Requests : Ends(a) => Returns(a)
  <2>1. \A a \in Requests : req'[a].pc = "done" => req[a].pc = "done"
    BY <1>a, <1>10 DEF WaitFinds, At
  <2>. QED
    BY <2>1
<1>11. ASSUME NEW o \in Requests, WaitTimesOut(o)
      PROVE  \A a \in Requests : Ends(a) => Returns(a)
  <2>1. req[o].pc \notin Using /\ UNCHANGED mounts
    BY <1>11 DEF WaitTimesOut, At, Using
  <2>2. PICK r : End(o, r) /\ r \in {"refused", "failed"}
    BY <1>11 DEF WaitTimesOut
  <2>. QED
    BY <1>a, <2>1, <2>2 DEF End, Returns
<1>12. ASSUME NEW o \in Requests, FindMnt(o)
      PROVE  \A a \in Requests : Ends(a) => Returns(a)
  <2>1. req'[o].pc \in {"create", "mount"} /\ \A a \in Requests \ {o} : req'[a] = req[a]
    <3>1. ASSUME NEW m, req' = [req EXCEPT ![o] = [@ EXCEPT !.pc = "create", !.dir = m]]
          PROVE  req'[o].pc = "create" /\ \A a \in Requests \ {o} : req'[a] = req[a]
      BY <1>a, <3>1 DEF RequestType
    <3>2. CASE Go(o, "mount")
      BY <1>a, <3>2 DEF Go, RequestType
    <3>. QED
      BY <1>12, <3>1, <3>2 DEF FindMnt
  <2>. QED
    BY <2>1
<1>13. ASSUME NEW o \in Requests, Mount(o)
      PROVE  \A a \in Requests : Ends(a) => Returns(a)
  <2>1. \A a \in Requests : req'[a].pc = "done" => req[a].pc = "done"
    BY <1>a, <1>13 DEF Mount, At
  <2>. QED
    BY <2>1
<1>14. ASSUME NEW o \in Requests, MountFails(o)
      PROVE  \A a \in Requests : Ends(a) => Returns(a)
  <2>1. req[o].pc \notin Using /\ UNCHANGED mounts
    BY <1>14 DEF MountFails, At, Using
  <2>2. PICK r : End(o, r) /\ r \in {"refused", "failed"}
    BY <1>14 DEF MountFails
  <2>. QED
    BY <1>a, <2>1, <2>2 DEF End, Returns
<1>15. ASSUME NEW o \in Requests, Create(o)
      PROVE  \A a \in Requests : Ends(a) => Returns(a)
  <2>1. \A a \in Requests : req'[a].pc = "done" => req[a].pc = "done"
    BY <1>a, <1>15 DEF Create, At, Go, Alive
  <2>. QED
    BY <2>1
<1>16. ASSUME NEW o \in Requests, CreateFails(o)
      PROVE  \A a \in Requests : Ends(a) => Returns(a)
  <2>1. PICK r : End(o, r)
    BY <1>16 DEF CreateFails
  <2>2. Returns(o)
    BY <1>16 DEF Returns
  <2>. QED
    BY <1>a, <2>1, <2>2 DEF End
<1>17. ASSUME NEW o \in Requests, CopyAccepted(o)
      PROVE  \A a \in Requests : Ends(a) => Returns(a)
  <2>1. \A a \in Requests : req'[a].pc = "done" => req[a].pc = "done"
    BY <1>a, <1>17 DEF CopyAccepted, At, Alive, Severed
  <2>. QED
    BY <2>1
<1>18. ASSUME NEW o \in Requests, CopyIgnored(o)
      PROVE  \A a \in Requests : Ends(a) => Returns(a)
  <2>1. \A a \in Requests : req'[a].pc = "done" => req[a].pc = "done"
    BY <1>a, <1>18 DEF CopyIgnored, At, Go, Alive
  <2>. QED
    BY <2>1
<1>19. ASSUME NEW o \in Requests, CopyFails(o)
      PROVE  \A a \in Requests : Ends(a) => Returns(a)
  <2>1. \A a \in Requests : req'[a].pc = "done" => req[a].pc = "done"
    BY <1>a, <1>19 DEF CopyFails, At
  <2>. QED
    BY <2>1
<1>20. ASSUME NEW o \in Requests, Check(o)
      PROVE  \A a \in Requests : Ends(a) => Returns(a)
  <2>1. PICK r : End(o, r)
    BY <1>20 DEF Check
  <2>2. Returns(o)
    BY <1>20 DEF Returns
  <2>. QED
    BY <1>a, <2>1, <2>2 DEF End
<1>21. CASE UNCHANGED vars
  BY <1>21 DEF vars
<1>. QED
  BY <1>1, <1>2, <1>3, <1>4, <1>5, <1>6, <1>7, <1>8, <1>9, <1>10, <1>11,
     <1>12, <1>13, <1>14, <1>15, <1>16, <1>17, <1>18, <1>19, <1>20, <1>21
     DEF Next, Step

(* An undisturbed request unmounts what it has mounted: no other has a     *)
(* file open there.                                                        *)
LEMMA AloneUnmounts ==
  ASSUME HostInv, NEW o \in Requests, Alone(o), req[o].pc \in Using, Unmount(o)
  PROVE  \A b \in Boards : o \notin mounts'[b]
<1>1. ASSUME NEW q \in Requests \ {o}, req[q].dir = o,
             req[q].pc \in {"copy", "check"}
      PROVE  FALSE
  <2>1. req[q].vol = req[o].vol
    BY <1>1 DEF HostInv, MountsAreShared, Using
  <2>2. req[o].vol = req[o].tgt
    BY DEF HostInv, AloneWrites, Using, Finding
  <2>3. req[o].tgt # req[q].vol
    BY <1>1 DEF HostInv, AloneWithBoard, AtWork
  <2>. QED
    BY <2>1, <2>2, <2>3
<1>2. mounts' = [b \in Boards |-> mounts[b] \ {o}]
  BY <1>1 DEF Unmount
<1>. QED
  BY <1>2

(* An undisturbed request that reports success has the firmware running;   *)
(* what it has written it has written to its own board.                    *)
LEMMA HonestStep ==
  ASSUME HostInv, [Next]_vars, NEW o \in Requests, Ends(o), o \notin disturbed
  PROVE  /\ (/\ req[o].kind \in {"flash", "cli"}
             /\ req'[o].result = "ok"
             /\ req[o].family = chip[req[o].tgt]) => ran[o] = req[o].tgt
         /\ ran[o] \in {None, req[o].tgt}
<1>1. Returns(o)
  BY WhoEnds DEF HostInv
<1>2. req \in [Requests -> RequestType]
  BY TypeParts DEF HostInv, RequestTypes
<1>3. ran[o] \in {None, req[o].tgt}
  BY DEF HostInv, RanIsWritten, AloneWrites, Alone, AtWork, Finding
<1>4. ASSUME req[o].kind \in {"flash", "cli"}, req'[o].result = "ok",
             req[o].family = chip[req[o].tgt]
      PROVE  ran[o] = req[o].tgt
  <2>1. Check(o) \/ CreateFails(o)
    BY <1>1, <1>4 DEF Returns
  <2>2. CASE CreateFails(o)
    <3>1. req'[o].result = "failed"
      BY <1>2, <2>2 DEF CreateFails, End
    <3>. QED
      BY <1>4, <3>1
  <2>3. CASE Check(o)
    <3>1. req[o].pc = "check"
      BY <2>3 DEF Check, At
    <3>2. req[o].tgt \in Boards
      BY <3>1 DEF HostInv, HasBoard
    <3>3. Vanished(o) \/ ~req[o].err
      <4>1. CASE ~(Vanished(o) \/ ~req[o].err)
        <5>1. End(o, "failed")
          BY <2>3, <4>1 DEF Check
        <5>. QED
          BY <1>2, <1>4, <5>1 DEF End
      <4>. QED
        BY <4>1
    <3>4. ASSUME mode[req[o].tgt] = "bootsel", req[o].err
          PROVE  FALSE
      BY <3>2, <3>3, <3>4 DEF Vanished, Visible
    <3>. QED
      BY <1>4, <3>1, <3>4 DEF HostInv, AloneWrites, Alone, AtWork
  <2>. QED
    BY <2>1, <2>2, <2>3
<1>. QED
  BY <1>3, <1>4

(* A request that ends has removed its files and, undisturbed, its mounts. *)
LEMMA CleanStep ==
  ASSUME HostInv, [Next]_vars, NEW o \in Requests, Ends(o)
  PROVE  /\ o \notin temp'
         /\ o \in disturbed \/ \A b \in Boards : o \notin mounts'[b]
<1>1. Returns(o)
  BY WhoEnds DEF HostInv
<1>2. CASE req[o].pc \notin Using /\ UNCHANGED mounts /\ o \notin temp'
  BY <1>2 DEF HostInv, MountsAreUsed, Ends
<1>3. CASE Check(o) \/ CreateFails(o)
  <2>1. o \notin temp' /\ Unmount(o) /\ req[o].pc \in Using
    BY <1>3 DEF Check, CreateFails, End, At, Using
  <2>2. o \notin disturbed => Alone(o)
    BY <2>1 DEF Alone, Using, AtWork
  <2>. QED
    BY <2>1, <2>2, AloneUnmounts
<1>. QED
  BY <1>1, <1>2, <1>3 DEF Returns

-----------------------------------------------------------------------------

(* The invariant holds at the start, when no request works.                *)
LEMMA InitHost == Init => HostInv
<1> SUFFICES ASSUME Init
             PROVE  HostInv
  OBVIOUS
<1>1. \A o \in Requests : req[o] = Blank /\ ran[o] = None
  BY DEF Init
<1>2. BoardTypes /\ HistoryTypes
  BY DEF Init, BoardTypes, HistoryTypes, Modes
<1>3. RequestTypes
  BY DEF Init, RequestTypes, RequestType, Blank
<1>4. None \notin Requests
  BY BootselAssumption
<1>. QED
  BY <1>1, <1>2, <1>3, <1>4, TypeParts
     DEF Init, HostInv, HasBoard, MountsAreUsed, MountsAreLive, MountsAreShared,
         RanIsWritten, AloneWithBoard, AloneWrites, Alone, AtWork, Blank, Finding

(* No step of a request, of a board or of the desktop breaks the invariant. *)
THEOREM HostInvariance == Spec => []HostInv
<1>1. HostInv /\ [Next]_vars => HostInv'
  BY TypeParts, TypeStep, HasBoardStep, MountsUsedStep, MountsLiveStep,
     MountsSharedStep,
     RanStep, AloneWithBoardStep, AloneWritesStep DEF HostInv
<1>. QED
  BY InitHost, <1>1, PTL DEF Spec

(* The variables keep their types: a request works on a board of the host, *)
(* and mounts are a request's or the desktop's.                            *)
THEOREM TypeCorrect == Spec => []TypeOK
<1>1. HostInv => TypeOK
  BY DEF HostInv
<1>. QED
  BY HostInvariance, <1>1, PTL

(* What Flash reports of a board that it had for itself is so: after OK    *)
(* the board runs the firmware, and no other board has got it.             *)
THEOREM FlashReportsHonestly == Spec => FlashIsHonest
<1>1. HostInv /\ [Next]_vars =>
        [\A o \in Requests : (Ends(o) /\ o \notin disturbed) =>
           /\ (/\ req[o].kind \in {"flash", "cli"}
               /\ req'[o].result = "ok"
               /\ req[o].family = chip[req[o].tgt]) => ran[o] = req[o].tgt
           /\ ran[o] \in {None, req[o].tgt}]_vars
  BY HonestStep
<1>. QED
  BY HostInvariance, <1>1, PTL DEF Spec, FlashIsHonest

(* Every return of an operation removes its temporary files and, unless    *)
(* another was there, its mount.                                           *)
THEOREM HostIsLeftClean == Spec => NothingLeftOnHost
<1>1. HostInv /\ [Next]_vars =>
        [\A o \in Requests : Ends(o) =>
           /\ o \notin temp'
           /\ o \in disturbed \/ \A b \in Boards : o \notin mounts'[b]]_vars
  BY CleanStep
<1>. QED
  BY HostInvariance, <1>1, PTL DEF Spec, NothingLeftOnHost
=============================================================================
