------------------------------- MODULE Bootsel -------------------------------
(***************************************************************************)
(* The BOOTSEL volumes of a host (flash/rp2.go). Manager gives a board to  *)
(* one operation at a time, but a volume is found by its label and belongs *)
(* to whoever looks: uploads to different boards, boot mode requests and a *)
(* picoflash on the same machine, which has no part in the claims, meet on *)
(* the block devices and their mounts. How a claim is taken and a console  *)
(* let go is in Manager; here a board is claimed by who works on it.       *)
(***************************************************************************)
EXTENDS Naturals, FiniteSets

CONSTANTS
  Boards,    \* RP2 boards that may be plugged into the host
  Requests,  \* one operation each
  Kinds      \* the operations asked for

AllKinds == {"flash", "boot", "cli"}
None == "none"
Chips == {"rp2040", "rp2350"}

ASSUME BootselAssumption ==
  /\ Kinds \subseteq AllKinds
  /\ None \notin Boards
  /\ Requests \cap {None, "auto"} = {}

VARIABLES
  chip,      \* the chip of a board, and so the label of its BOOTSEL volume
  mode,      \* what each board does, see Modes
  mounts,    \* who mounted the board's volume: a desktop ("auto"), requests
  req,       \* the requests, see TypeOK
  temp,      \* requests whose temporary files exist
  ran,       \* history: the board whose bootrom accepted the firmware
  disturbed  \* history: the requests that are not alone, see Watch

vars == <<chip, mode, mounts, req, temp, ran, disturbed>>

(* A board that is resetting or unplugged is "away". One that is "leaving" *)
(* runs its new firmware, but the link to its volume is still there.       *)
Modes == {"away", "running", "bootsel", "leaving"}
AtWork == {"lookup", "touch", "wait", "findmnt", "mount", "create", "copy", "check"}

TypeOK ==
  /\ chip \in [Boards -> Chips]
  /\ mode \in [Boards -> Modes]
  /\ mounts \in [Boards -> SUBSET (Requests \cup {"auto"})]
  /\ req \in [Requests -> [pc: {"idle", "claim", "done"} \cup AtWork,
                           kind: AllKinds \cup {None},
                           tgt: Boards \cup {None},
                           family: Chips \cup {None},  \* the UF2's family id
                           vol: Boards \cup {None},    \* the volume it found,
                           dir: Requests \cup {"auto", None},  \* by this mount
                           err: BOOLEAN,               \* copy or sync failed
                           result: {None, "refused", "failed", "ok"}]]
  /\ temp \subseteq Requests
  /\ ran \in [Requests -> Boards \cup {None}]
  /\ disturbed \subseteq Requests

Blank == [pc |-> "idle", kind |-> None, tgt |-> None, family |-> None,
          vol |-> None, dir |-> None, err |-> FALSE, result |-> None]

Init ==
  /\ chip \in [Boards -> Chips]
  /\ mode \in [Boards -> {"running", "bootsel"}]
  /\ mounts = [b \in Boards |-> {}]
  /\ req = [o \in Requests |-> Blank]
  /\ temp = {}
  /\ ran = [o \in Requests |-> None]
  /\ disturbed = {}

At(o, s) == req[o].pc = s
Go(o, s) == req' = [req EXCEPT ![o].pc = s]

(* The links that udev shows under a BOOTSEL label. *)
Visible == {b \in Boards : mode[b] \in {"bootsel", "leaving"}}

(* The block device that findBootselBlockDev may return: the first label   *)
(* that exists wins, and boards of the same label share one link. The      *)
(* label RPI2 of some clones is left out.                                  *)
BlockDevs ==
  LET rp2040s == {b \in Visible : chip[b] = "rp2040"}
  IN  IF rp2040s # {} THEN rp2040s ELSE Visible

-----------------------------------------------------------------------------
(* The boards and the desktop. *)

(* The files that are open on the volume of b are lost with it. *)
Severed(r, b) ==
  [q \in Requests |-> IF r[q].pc = "copy" /\ r[q].vol = b
                        THEN [r[q] EXCEPT !.dir = None] ELSE r[q]]

Unplug(b) ==
  /\ mode[b] # "away"
  /\ mode' = [mode EXCEPT ![b] = "away"]
  /\ mounts' = [mounts EXCEPT ![b] = {}]
  /\ req' = Severed(req, b)
  /\ UNCHANGED <<chip, temp, ran>>

(* A board comes up in boot mode by a touch or by its button. *)
Enumerate(b) ==
  /\ \/ mode[b] = "away" /\ \E s \in {"running", "bootsel"} : mode' = [mode EXCEPT ![b] = s]
     \/ mode[b] = "leaving" /\ mode' = [mode EXCEPT ![b] = "running"]
  /\ UNCHANGED <<chip, mounts, req, temp, ran>>

AutoMount(b) ==
  /\ mode[b] = "bootsel"
  /\ mounts[b] = {}
  /\ mounts' = [mounts EXCEPT ![b] = {"auto"}]
  /\ UNCHANGED <<chip, mode, req, temp, ran>>

-----------------------------------------------------------------------------
(* From the request to the claim, and its end. *)

(* Mutant: an upload for an ESP board is let through. *)
PrepareAnyChip(o, k, b) ==
  /\ At(o, "idle")
  /\ \E f \in IF k = "boot" THEN {None} ELSE Chips \cup {"esp32c3"} :
       req' = [req EXCEPT ![o] =
                 [@ EXCEPT !.kind = k, !.tgt = b, !.family = f,
                           !.pc = IF k = "cli" THEN "lookup" ELSE "claim"]]
  /\ temp' = IF k = "boot" THEN temp ELSE temp \cup {o}
  /\ UNCHANGED <<chip, mode, mounts, ran>>

(* handleFlash and cmdFlash: the upload is stored and made into a UF2. Its *)
(* family is that of the chip the page shows, which may be wrong, or the   *)
(* one the user built for. An unusable upload, an ESP board, or one that   *)
(* pickDevice does not find end the request here.                          *)
Prepare(o, k, b) ==
  /\ At(o, "idle")
  /\ \E f \in IF k = "boot" THEN {None} ELSE Chips :
       req' = [req EXCEPT ![o] =
                 [@ EXCEPT !.kind = k, !.tgt = b, !.family = f,
                           !.pc = IF k = "cli" THEN "lookup" ELSE "claim"]]
  /\ temp' = IF k = "boot" THEN temp ELSE temp \cup {o}
  /\ UNCHANGED <<chip, mode, mounts, ran>>

Claimed(b) ==
  \E q \in Requests : req[q].tgt = b /\ req[q].kind # "cli" /\ req[q].pc \in AtWork

Claim(o) ==
  /\ At(o, "claim")
  /\ ~Claimed(req[o].tgt)
  /\ Go(o, "lookup")
  /\ UNCHANGED <<chip, mode, mounts, temp, ran>>

(* Mutant: the files go when an upload is turned down only. *)
EndKeepsFiles(o, r) ==
  /\ req' = [req EXCEPT ![o] = [Blank EXCEPT !.pc = "done", !.result = r]]
  /\ ran' = [ran EXCEPT ![o] = None]
  /\ temp' = IF r = "refused" THEN temp \ {o} ELSE temp

(* Every return of Flash and EnterBootMode releases the claim; after it    *)
(* the temporary files are removed.                                        *)
End(o, r) ==
  /\ req' = [req EXCEPT ![o] = [Blank EXCEPT !.pc = "done", !.result = r]]
  /\ ran' = [ran EXCEPT ![o] = None]
  /\ temp' = temp \ {o}

ClaimRefused(o) ==
  /\ At(o, "claim")
  /\ Claimed(req[o].tgt) \/ mode[req[o].tgt] = "away"
  /\ End(o, "refused")
  /\ UNCHANGED <<chip, mode, mounts>>

(* The deferred unmount, of what o has mounted. It fails, and nobody looks, *)
(* while another request has a file open there.                            *)
Unmount(o) ==
  mounts' = IF \E q \in Requests \ {o} : req[q].dir = o /\ req[q].pc \in {"copy", "check"}
              THEN mounts ELSE [b \in Boards |-> mounts[b] \ {o}]

-----------------------------------------------------------------------------
(* rp2Device.EnterBootMode, MountDir and Flash. *)

AfterBootMode(o) ==
  IF req[o].kind = "boot" THEN End(o, "ok") ELSE Go(o, "wait") /\ UNCHANGED <<temp, ran>>

(* Any volume at all counts as this board's. *)
LookUp(o) ==
  /\ At(o, "lookup")
  /\ IF Visible # {} THEN AfterBootMode(o) ELSE Go(o, "touch") /\ UNCHANGED <<temp, ran>>
  /\ UNCHANGED <<chip, mode, mounts>>

(* The firmware cannot be read. *)
OpenFails(o) ==
  /\ At(o, "lookup")
  /\ req[o].kind # "boot"
  /\ End(o, "failed")
  /\ UNCHANGED <<chip, mode, mounts>>

(* A port that does not open is no error (picohub may hold it against a    *)
(* picoflash), nor is a firmware that ignores the touch.                   *)
Touch(o) ==
  /\ At(o, "touch")
  /\ \/ UNCHANGED mode
     \/ /\ mode[req[o].tgt] = "running"
        /\ mode' = [mode EXCEPT ![req[o].tgt] = "away"]
  /\ AfterBootMode(o)
  /\ UNCHANGED <<chip, mounts>>

WaitFinds(o) ==
  /\ At(o, "wait")
  /\ \E b \in BlockDevs :
       req' = [req EXCEPT ![o] = [@ EXCEPT !.pc = "findmnt", !.vol = b]]
  /\ UNCHANGED <<chip, mode, mounts, temp, ran>>

(* After 30 seconds. An interrupt ends picoflash even if a volume came. *)
WaitTimesOut(o) ==
  /\ At(o, "wait")
  /\ Visible = {} \/ req[o].kind = "cli"
  /\ End(o, "failed")
  /\ UNCHANGED <<chip, mode, mounts>>

FindMnt(o) ==
  /\ At(o, "findmnt")
  /\ \/ \E m \in mounts[req[o].vol] :
          req' = [req EXCEPT ![o] = [@ EXCEPT !.pc = "create", !.dir = m]]
     \/ mounts[req[o].vol] = {} /\ Go(o, "mount")
  /\ UNCHANGED <<chip, mode, mounts, temp, ran>>

(* udisksctl, or sudo mount: the latter also next to another mount. *)
Mount(o) ==
  /\ At(o, "mount")
  /\ mode[req[o].vol] = "bootsel"
  /\ mounts' = [mounts EXCEPT ![req[o].vol] = @ \cup {o}]
  /\ req' = [req EXCEPT ![o] = [@ EXCEPT !.pc = "create", !.dir = o]]
  /\ UNCHANGED <<chip, mode, temp, ran>>

MountFails(o) ==
  /\ At(o, "mount")
  /\ End(o, "failed")
  /\ UNCHANGED <<chip, mode, mounts>>

(* The mount that o uses is still there. *)
Alive(o) == req[o].dir \in mounts[req[o].vol] /\ mode[req[o].vol] = "bootsel"

Create(o) ==
  /\ At(o, "create")
  /\ Alive(o)
  /\ Go(o, "copy")
  /\ UNCHANGED <<chip, mode, mounts, temp, ran>>

CreateFails(o) ==
  /\ At(o, "create")
  /\ End(o, "failed")
  /\ Unmount(o)
  /\ UNCHANGED <<chip, mode>>

(* The last block of an image of its family: the bootrom reboots into it,  *)
(* before the copy and its sync return, or after.                          *)
CopyAccepted(o) ==
  LET v == req[o].vol
  IN  /\ At(o, "copy")
      /\ Alive(o) /\ req[o].family = chip[v]
      /\ mode' = [mode EXCEPT ![v] = "leaving"]
      /\ mounts' = [mounts EXCEPT ![v] = {}]
      /\ ran' = [ran EXCEPT ![o] = v]
      /\ \E e \in BOOLEAN :
           req' = Severed([req EXCEPT ![o] = [@ EXCEPT !.pc = "check", !.err = e]], v)
      /\ UNCHANGED <<chip, temp>>

(* The bootrom silently drops an image of the other family. *)
CopyIgnored(o) ==
  /\ At(o, "copy")
  /\ Alive(o) /\ req[o].family # chip[req[o].vol]
  /\ Go(o, "check")
  /\ UNCHANGED <<chip, mode, mounts, temp, ran>>

CopyFails(o) ==
  /\ At(o, "copy")
  /\ req' = [req EXCEPT ![o] = [@ EXCEPT !.pc = "check", !.err = TRUE]]
  /\ UNCHANGED <<chip, mode, mounts, temp, ran>>

(* Mutant: a copy error always passes for the board's reboot. *)
VanishedOrFailed(o) == Visible = {} \/ req[o].err

(* The absence of any volume passes for the reboot of the board. *)
Vanished(o) == Visible = {}

Check(o) ==
  /\ At(o, "check")
  /\ End(o, IF Vanished(o) \/ ~req[o].err THEN "ok" ELSE "failed")
  /\ Unmount(o)
  /\ UNCHANGED <<chip, mode>>

-----------------------------------------------------------------------------
(* A request is disturbed if, while it works, another board is in boot     *)
(* mode, another request works on its board or that board's volume, or the *)
(* board is in P: pulled.                                                  *)
Watch(P) ==
  disturbed' = {o \in Requests :
    LET b == req'[o].tgt
    IN  /\ req'[o].pc \in AtWork
        /\ \/ o \in disturbed
           \/ Visible' \ {b} # {}
           \/ b \in P
           \/ \E q \in Requests \ {o} :
                req'[q].pc \in AtWork /\ b \in {req'[q].tgt, req'[q].vol}}

Step(o) ==
  \/ Claim(o) \/ ClaimRefused(o) \/ LookUp(o) \/ OpenFails(o) \/ Touch(o)
  \/ WaitFinds(o) \/ WaitTimesOut(o) \/ FindMnt(o) \/ Mount(o) \/ MountFails(o)
  \/ Create(o) \/ CreateFails(o) \/ CopyAccepted(o) \/ CopyIgnored(o)
  \/ CopyFails(o) \/ Check(o)

Next ==
  \/ \E b \in Boards : Unplug(b) /\ Watch({b})
  \/ \E b \in Boards : (Enumerate(b) \/ AutoMount(b)) /\ Watch({})
  \/ \E o \in Requests, k \in Kinds, b \in Boards : Prepare(o, k, b) /\ Watch({})
  \/ \E o \in Requests : Step(o) /\ Watch({})

Spec == Init /\ [][Next]_vars

-----------------------------------------------------------------------------
Ends(o) == req[o].pc # "done" /\ req'[o].pc = "done"

(* What Flash reports is so, for a firmware of the board's family and a    *)
(* request that was alone: OK means that the board runs it (rp2.go:179),   *)
(* and no firmware gets to another board.                                  *)
FlashIsHonest ==
  [][\A o \in Requests : (Ends(o) /\ o \notin disturbed) =>
       /\ (/\ req[o].kind \in {"flash", "cli"}
           /\ req'[o].result = "ok"
           /\ req[o].family = chip[req[o].tgt]) => ran[o] = req[o].tgt
       /\ ran[o] \in {None, req[o].tgt}]_vars

(* An operation leaves no temporary file behind, and no mount of its own,  *)
(* unless another request used the volume (rp2.go:172, server.go:219).     *)
NothingLeftOnHost ==
  [][\A o \in Requests : Ends(o) =>
       /\ o \notin temp'
       /\ o \in disturbed \/ \A b \in Boards : o \notin mounts'[b]]_vars

(* MountDir mounts the board's mass-storage volume (device.go:64), so no   *)
(* firmware gets to another board.                                         *)
OwnVolumeOnly == \A o \in Requests : ran[o] # None => ran[o] = req[o].tgt
=============================================================================
