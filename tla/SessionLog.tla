----------------------------- MODULE SessionLog -----------------------------
(***************************************************************************)
(* The log sessions of one board (store.go and the session half of         *)
(* manager.go): records in the bbolt store, files in the log directory,    *)
(* the pump that appends to the live one and rolls it over at the size     *)
(* limit, the detach that ends it, the handlers that delete logs, and a    *)
(* process that may be killed and started again.                           *)
(*                                                                         *)
(* A step is one store transaction, one hold of md.mu or one file          *)
(* operation: between any two of them another goroutine may run, or the    *)
(* process may die. Committed transactions and written bytes survive it.   *)
(* The console's bytes are counted in chunks of one read each.             *)
(***************************************************************************)
EXTENDS Naturals, FiniteSets

CONSTANTS
  MaxSessions,  \* bound: sessions ever started; newID never repeats one
  MaxLog,       \* maxLogBytes, in chunks
  MaxCrashes,   \* bound: how often the process is killed
  Deleters,     \* concurrent delete requests
  DiskFaults    \* may a store transaction or a file operation fail?

ASSUME BoundAssumption == MaxSessions \in Nat /\ MaxLog \in Nat \ {0} /\ MaxCrashes \in Nat
ASSUME LogFaultAssumption == DiskFaults \in BOOLEAN

VARIABLES
  up,        \* the process runs
  sessions,  \* the sessions bucket: a function on the stored ids
  used,      \* ids given out so far: 1 to used
  files,     \* the log directory: the length of each file there is
  mdPc, sess, attached, byteLen, stop, \* managed, and who works on it
  snap,      \* the sessID that detachLocked took before it waited
  fresh,     \* the session that startSession has just committed
  pumpPc, fd, fileBytes, \* the pump and its locals
  delPc, victims,        \* a delete request and what it still removes
  crashes,
  strays, suspects, orphans \* history, see below

volatile == <<mdPc, sess, attached, byteLen, stop, snap, fresh, pumpPc, fd,
              fileBytes, delPc, victims>>
mdVars == <<mdPc, sess, attached, byteLen, stop, snap>>
pumpVars == <<pumpPc, fd, fileBytes>>
delVars == <<delPc, victims>>
\* strays: left live by a failed store or file operation, or by a rollover
\*   that a detach overtook; suspects: their recorded length may be wrong, or
\*   their rollover failed; orphans: files of a delete that was cut short.
history == <<strays, suspects, orphans>>
vars == <<up, sessions, used, files, volatile, crashes, history>>

Ids == 1..MaxSessions
NoId == 0
Records == [seq : Ids, ended : BOOLEAN, len : Nat, from : Ids \cup {NoId}]

TypeOK ==
  /\ up \in BOOLEAN
  /\ used \in 0..MaxSessions
  /\ DOMAIN sessions \subseteq 1..used
  /\ \A i \in DOMAIN sessions : sessions[i] \in Records
  /\ DOMAIN files \subseteq 1..used
  /\ \A i \in DOMAIN files : files[i] \in Nat
  /\ mdPc \in {"idle", "started", "draining"}
  /\ sess \in 0..used /\ snap \in 0..used /\ fresh \in 0..used /\ fd \in 0..used
  /\ attached \in BOOLEAN /\ stop \in BOOLEAN
  /\ byteLen \in Nat /\ fileBytes \in Nat
  /\ pumpPc \in {"none", "open", "check", "read", "roll", "continue", "switch",
                 "reopen", "exited"}
  /\ delPc \in [Deleters -> {"idle", "record", "files"}]
  /\ victims \in [Deleters -> SUBSET (1..used)]
  /\ crashes \in 0..MaxCrashes
  /\ strays \subseteq 1..used /\ suspects \subseteq 1..used /\ orphans \subseteq 1..used

(* f with k mapped to v, and f without the keys in S. *)
With(f, k, v) == [x \in DOMAIN f \cup {k} |-> IF x = k THEN v ELSE f[x]]
Without(f, S) == [x \in DOMAIN f \ S |-> f[x]]

(* The first boot, with an empty database. *)
Init ==
  /\ up = TRUE
  /\ sessions = [i \in {} |-> NoId]
  /\ used = 0
  /\ files = [i \in {} |-> 0]
  /\ mdPc = "idle" /\ sess = NoId /\ attached = FALSE /\ byteLen = 0 /\ stop = FALSE
  /\ snap = NoId /\ fresh = NoId
  /\ pumpPc = "none" /\ fd = NoId /\ fileBytes = 0
  /\ delPc = [d \in Deleters |-> "idle"]
  /\ victims = [d \in Deleters |-> {}]
  /\ crashes = 0
  /\ strays = {} /\ suspects = {} /\ orphans = {}

-----------------------------------------------------------------------------
(* The store. *)

Live(i) == i \in DOMAIN sessions /\ ~sessions[i].ended

(* Mutant: the number of records, not the largest number, is continued. *)
CountSeq == Cardinality(DOMAIN sessions) + 1

(* Mutant: the largest number itself. *)
SameSeq == CHOOSE n \in 0..MaxSessions :
  /\ \A i \in DOMAIN sessions : sessions[i].seq <= n
  /\ n = 0 \/ \E i \in DOMAIN sessions : sessions[i].seq = n

(* One more than the largest number of a session that is still stored. *)
nextSeq == CHOOSE n \in 1..MaxSessions :
  /\ \A i \in DOMAIN sessions : sessions[i].seq < n
  /\ n = 1 \/ \E i \in DOMAIN sessions : sessions[i].seq = n - 1

(* startSession's transaction: the record is live before its file exists. *)
startSession(prev) ==
  /\ used < MaxSessions
  /\ used' = used + 1
  /\ fresh' = used + 1
  /\ sessions' = With(sessions, used + 1,
                      [seq |-> nextSeq, ended |-> FALSE, len |-> 0, from |-> prev])

(* SessionUpdate as detachLocked and rollover use it; a session that is no *)
(* longer stored is left alone.                                            *)
EndSession(i, n) ==
  sessions' = IF i \in DOMAIN sessions
                THEN [sessions EXCEPT ![i] = [@ EXCEPT !.ended = TRUE, !.len = n]]
                ELSE sessions

(* The transaction fails and the error is dropped. *)
EndFails(i) ==
  /\ DiskFaults
  /\ strays' = strays \cup ({i} \cap {j \in DOMAIN sessions : Live(j)})
  /\ suspects' = suspects \cup {i}
  /\ UNCHANGED sessions

-----------------------------------------------------------------------------
(* attachLocked and detachLocked, which md.ctrl keeps apart. *)

AttachStarts ==
  /\ up /\ mdPc = "idle" /\ ~attached
  /\ startSession(NoId)
  /\ mdPc' = "started"
  /\ UNCHANGED <<up, files, sess, attached, byteLen, stop, snap, pumpVars, delVars,
                 crashes, history>>

(* The transaction fails: the next pass tries again. *)
StartFails ==
  /\ up /\ mdPc = "idle" /\ ~attached
  /\ DiskFaults
  /\ UNCHANGED vars

Attach ==
  /\ up /\ mdPc = "started"
  /\ mdPc' = "idle"
  /\ sess' = fresh
  /\ byteLen' = 0
  /\ attached' = TRUE
  /\ stop' = FALSE
  /\ pumpPc' = "open"
  /\ fresh' = NoId
  /\ UNCHANGED <<up, sessions, used, files, snap, fd, fileBytes, delVars, crashes,
                 history>>

(* MkdirAll fails: the record stays, live, and nobody will end it. *)
AttachFails ==
  /\ up /\ mdPc = "started"
  /\ DiskFaults
  /\ mdPc' = "idle"
  /\ strays' = strays \cup {fresh}
  /\ fresh' = NoId
  /\ UNCHANGED <<up, sessions, used, files, sess, attached, byteLen, stop, snap,
                 pumpVars, delVars, crashes, suspects, orphans>>

DetachBegins ==
  /\ up /\ mdPc = "idle" /\ attached
  /\ mdPc' = "draining"
  /\ snap' = sess
  /\ attached' = FALSE
  /\ stop' = TRUE
  /\ UNCHANGED <<up, sessions, used, files, sess, byteLen, fresh, pumpVars, delVars,
                 crashes, history>>

(* The pump has exited: the session of the snapshot is ended. *)
DetachEnds ==
  /\ up /\ mdPc = "draining"
  /\ pumpPc = "exited"
  /\ mdPc' = "idle"
  /\ pumpPc' = "none"
  /\ \/ EndSession(snap, byteLen) /\ UNCHANGED <<strays, suspects>>
     \/ EndFails(snap)
  /\ snap' = NoId /\ fd' = NoId /\ fileBytes' = 0
  /\ UNCHANGED <<up, used, files, sess, attached, byteLen, stop, fresh, delVars,
                 crashes, orphans>>

-----------------------------------------------------------------------------
(* The pump. *)

(* Its log file is opened, and made if it is not there. *)
PumpOpens ==
  /\ up /\ pumpPc = "open"
  /\ \/ /\ files' = IF sess \in DOMAIN files THEN files ELSE With(files, sess, 0)
        /\ fd' = sess
        /\ fileBytes' = files'[sess]
        /\ pumpPc' = "check"
     \/ /\ DiskFaults
        /\ pumpPc' = "exited"
        /\ UNCHANGED <<files, fd, fileBytes>>
  /\ UNCHANGED <<up, sessions, used, mdVars, fresh, delVars, crashes, history>>

PumpChecks ==
  /\ up /\ pumpPc = "check"
  /\ pumpPc' = IF stop THEN "exited" ELSE "read"
  /\ UNCHANGED <<up, sessions, used, files, mdVars, fresh, fd, fileBytes, delVars,
                 crashes, history>>

(* The read times out, or fails. *)
PumpReadsNothing ==
  /\ up /\ pumpPc = "read"
  /\ pumpPc' \in {"check", "exited"}
  /\ UNCHANGED <<up, sessions, used, files, mdVars, fresh, fd, fileBytes, delVars,
                 crashes, history>>

(* Mutant: the log may grow past the limit before it is rolled over. *)
FullLater == fileBytes + 1 > MaxLog

Full == fileBytes + 1 >= MaxLog

(* A chunk goes to the file, wherever its name has gone, and is counted    *)
(* even if it could not be written. Two bounds end the reading: sessions   *)
(* run out, or one more chunk came after a rollover that failed.           *)
PumpReads ==
  /\ up /\ pumpPc = "read"
  /\ used < MaxSessions /\ fileBytes <= MaxLog
  /\ \/ /\ files' = IF fd \in DOMAIN files THEN [files EXCEPT ![fd] = @ + 1] ELSE files
        /\ UNCHANGED suspects
     \/ /\ DiskFaults
        /\ suspects' = suspects \cup {fd}
        /\ UNCHANGED files
  /\ byteLen' = byteLen + 1
  /\ fileBytes' = fileBytes + 1
  /\ pumpPc' = IF Full THEN "roll" ELSE "check"
  /\ UNCHANGED <<up, sessions, used, mdPc, sess, attached, stop, snap, fresh, fd,
                 delVars, crashes, strays, orphans>>

(* rollover: the session so far is ended before the next one exists. *)
RollEnds ==
  /\ up /\ pumpPc = "roll"
  /\ pumpPc' = "continue"
  /\ \/ EndSession(sess, byteLen) /\ UNCHANGED <<strays, suspects>>
     \/ EndFails(sess)
  /\ UNCHANGED <<up, used, files, mdVars, fresh, fd, fileBytes, delVars, crashes,
                 orphans>>

RollContinues ==
  /\ up /\ pumpPc = "continue"
  /\ startSession(sess)
  /\ pumpPc' = "switch"
  /\ UNCHANGED <<up, files, mdVars, fd, fileBytes, delVars, crashes, history>>

(* No continuation: the pump goes on with the file whose session is ended,  *)
(* and a directory that could not be made leaves the new record behind.     *)
RollFails ==
  /\ up /\ pumpPc \in {"continue", "switch"}
  /\ DiskFaults
  /\ pumpPc' = "check"
  /\ suspects' = suspects \cup {sess}
  /\ strays' = IF pumpPc = "switch" THEN strays \cup {fresh} ELSE strays
  /\ fresh' = NoId
  /\ UNCHANGED <<up, sessions, used, files, mdVars, fd, fileBytes, delVars,
                 crashes, orphans>>

(* Mutant: the counter goes on from the session before. *)
SwitchKeepsCount ==
  /\ up /\ pumpPc = "switch"
  /\ pumpPc' = "reopen"
  /\ sess' = fresh
  /\ UNCHANGED byteLen
  /\ strays' = IF mdPc = "draining" THEN strays \cup {fresh} ELSE strays
  /\ suspects' = IF mdPc = "draining" THEN suspects \cup {snap} ELSE suspects
  /\ fresh' = NoId
  /\ UNCHANGED <<up, sessions, used, files, mdPc, attached, stop, snap, fd, fileBytes,
                 delVars, crashes, orphans>>

(* The board moves on to the continuation. A detach that took its snapshot *)
(* before will end the wrong session.                                      *)
RollSwitches ==
  /\ up /\ pumpPc = "switch"
  /\ pumpPc' = "reopen"
  /\ sess' = fresh
  /\ byteLen' = 0
  /\ strays' = IF mdPc = "draining" THEN strays \cup {fresh} ELSE strays
  /\ suspects' = IF mdPc = "draining" THEN suspects \cup {snap} ELSE suspects
  /\ fresh' = NoId
  /\ UNCHANGED <<up, sessions, used, files, mdPc, attached, stop, snap, fd, fileBytes,
                 delVars, crashes, orphans>>

RollReopens ==
  /\ up /\ pumpPc = "reopen"
  /\ \/ /\ files' = With(files, sess, 0)
        /\ fd' = sess
        /\ fileBytes' = 0
        /\ pumpPc' = "check"
     \/ /\ DiskFaults
        /\ pumpPc' = "exited"
        /\ UNCHANGED <<files, fd, fileBytes>>
  /\ UNCHANGED <<up, sessions, used, mdVars, fresh, delVars, crashes, history>>

-----------------------------------------------------------------------------
(* The delete handlers. *)

(* Mutant: handleLogDelete does not look whether the session is live. *)
AskUnchecked(d, i) ==
  /\ up /\ delPc[d] = "idle"
  /\ i \in DOMAIN sessions
  /\ delPc' = [delPc EXCEPT ![d] = "record"]
  /\ victims' = [victims EXCEPT ![d] = {i}]
  /\ UNCHANGED <<up, sessions, used, files, mdVars, fresh, pumpVars, crashes, history>>

(* handleLogDelete: the record is read, and a live session refused. *)
DeleteAsks(d, i) ==
  /\ up /\ delPc[d] = "idle"
  /\ i \in DOMAIN sessions /\ ~Live(i)
  /\ delPc' = [delPc EXCEPT ![d] = "record"]
  /\ victims' = [victims EXCEPT ![d] = {i}]
  /\ UNCHANGED <<up, sessions, used, files, mdVars, fresh, pumpVars, crashes, history>>

(* DeleteSession's transaction, some time later. *)
DeleteOne(d) ==
  /\ up /\ delPc[d] = "record"
  /\ sessions' = Without(sessions, victims[d])
  /\ IF victims[d] \subseteq DOMAIN sessions
       THEN delPc' = [delPc EXCEPT ![d] = "files"] /\ UNCHANGED victims
       ELSE /\ delPc' = [delPc EXCEPT ![d] = "idle"]
            /\ victims' = [victims EXCEPT ![d] = {}]
  /\ UNCHANGED <<up, used, files, mdVars, fresh, pumpVars, crashes, history>>

(* DeleteSessions' transaction: every ended session of the board. *)
DeleteAll(d) ==
  /\ up /\ delPc[d] = "idle"
  /\ LET ended == {i \in DOMAIN sessions : ~Live(i)}
     IN /\ ended # {}
        /\ sessions' = Without(sessions, ended)
        /\ victims' = [victims EXCEPT ![d] = ended]
  /\ delPc' = [delPc EXCEPT ![d] = "files"]
  /\ UNCHANGED <<up, used, files, mdVars, fresh, pumpVars, crashes, history>>

(* Mutant: it is done after the first file. *)
RemoveFirst(d, i) ==
  /\ up /\ delPc[d] = "files"
  /\ i \in victims[d]
  /\ files' = Without(files, {i})
  /\ victims' = [victims EXCEPT ![d] = {}]
  /\ delPc' = [delPc EXCEPT ![d] = "idle"]
  /\ UNCHANGED <<up, sessions, used, mdVars, fresh, pumpVars, crashes, history>>

(* The files go one after the other; a missing one is no error. *)
DeleteRemoves(d, i) ==
  /\ up /\ delPc[d] = "files"
  /\ i \in victims[d]
  /\ files' = Without(files, {i})
  /\ victims' = [victims EXCEPT ![d] = @ \ {i}]
  /\ delPc' = [delPc EXCEPT ![d] = IF victims[d] = {i} THEN "idle" ELSE "files"]
  /\ UNCHANGED <<up, sessions, used, mdVars, fresh, pumpVars, crashes, history>>

(* A file that cannot be removed ends the request and leaves the others. *)
DeleteFails(d) ==
  /\ up /\ delPc[d] = "files"
  /\ DiskFaults
  /\ orphans' = orphans \cup victims[d]
  /\ victims' = [victims EXCEPT ![d] = {}]
  /\ delPc' = [delPc EXCEPT ![d] = "idle"]
  /\ UNCHANGED <<up, sessions, used, files, mdVars, fresh, pumpVars, crashes,
                 strays, suspects>>

-----------------------------------------------------------------------------
(* The process is killed, and started again. *)

Crash ==
  /\ up
  /\ crashes < MaxCrashes
  /\ crashes' = crashes + 1
  /\ up' = FALSE
  /\ orphans' = orphans \cup UNION {IF delPc[d] = "files" THEN victims[d] ELSE {} :
                                     d \in Deleters}
  /\ mdPc' = "idle" /\ sess' = NoId /\ attached' = FALSE /\ byteLen' = 0 /\ stop' = FALSE
  /\ snap' = NoId /\ fresh' = NoId
  /\ pumpPc' = "none" /\ fd' = NoId /\ fileBytes' = 0
  /\ delPc' = [d \in Deleters |-> "idle"]
  /\ victims' = [d \in Deleters |-> {}]
  /\ UNCHANGED <<sessions, used, files, strays, suspects>>

SizeOf(i) == IF i \in DOMAIN files THEN files[i] ELSE 0

(* Mutant: only sessions with a recorded length are repaired. *)
StaleWithLength == {i \in DOMAIN sessions : Live(i) /\ sessions[i].len > 0}

Stale == {i \in DOMAIN sessions : Live(i)}

(* main: EndStaleSessions before anything else runs. It takes the length   *)
(* from the file unless one was recorded; if it fails, main goes on.       *)
Boot ==
  /\ ~up
  /\ up' = TRUE
  /\ \/ /\ sessions' = [i \in DOMAIN sessions |->
                          IF i \in Stale
                            THEN [sessions[i] EXCEPT !.ended = TRUE,
                                    !.len = IF @ = 0 THEN SizeOf(i) ELSE @]
                            ELSE sessions[i]]
        /\ strays' = {}
     \/ /\ DiskFaults
        /\ strays' = strays \cup Stale
        /\ UNCHANGED sessions
  /\ UNCHANGED <<used, files, volatile, crashes, suspects, orphans>>

-----------------------------------------------------------------------------

ManagerStep ==
  AttachStarts \/ StartFails \/ Attach \/ AttachFails \/ DetachBegins \/ DetachEnds

PumpStep ==
  \/ PumpOpens \/ PumpChecks \/ PumpReadsNothing \/ PumpReads
  \/ RollEnds \/ RollContinues \/ RollFails \/ RollSwitches \/ RollReopens

DeleteStep(d) ==
  \/ \E i \in 1..used : DeleteAsks(d, i) \/ DeleteRemoves(d, i)
  \/ DeleteOne(d) \/ DeleteAll(d) \/ DeleteFails(d)

Next ==
  \/ ManagerStep
  \/ PumpStep
  \/ \E d \in Deleters : DeleteStep(d)
  \/ Crash \/ Boot

Spec == Init /\ [][Next]_vars

-----------------------------------------------------------------------------
(* The numbers of the stored sessions follow the order in which they were  *)
(* started, whatever was deleted in between: the page sorts by them        *)
(* (store.go:304-315, 413).                                                *)
SeqFollowsStart ==
  \A i, j \in DOMAIN sessions : i < j => sessions[i].seq < sessions[j].seq

(* Active says that a session is still being written to (store.go:69): the *)
(* file the pump appends to exists, and its session is stored and live, so *)
(* that the handlers refuse to delete it. Only a failed rollover, which    *)
(* has ended the session already, takes that away.                         *)
LiveLogIsKept ==
  (pumpPc \in {"check", "read"} /\ fd \notin suspects) => fd \in DOMAIN files /\ Live(fd)

(* The recorded length of an ended session is the length of its file,      *)
(* through rollovers, crashes and repairs (store.go:267-272).              *)
LengthRecorded ==
  \A i \in DOMAIN sessions \ suspects : sessions[i].ended => sessions[i].len = SizeOf(i)

(* A live session is the one the board writes to or is about to: detach    *)
(* and rollover end what they leave behind, and a boot what a crash left.  *)
OneLive ==
  \A i \in DOMAIN sessions \ strays : (up /\ Live(i)) =>
    \/ i = fresh /\ (mdPc = "started" \/ pumpPc = "switch")
    \/ i = sess /\ (attached \/ mdPc = "draining")

(* A log file belongs to a stored session, or a delete request is about to *)
(* remove it; only a request that was cut short leaves one behind.         *)
NoOrphanLogs ==
  \A i \in DOMAIN files \ orphans :
    i \in DOMAIN sessions \/ \E d \in Deleters : delPc[d] = "files" /\ i \in victims[d]

(* No file grows past the limit unless its rollover failed                 *)
(* (manager.go:463-465).                                                   *)
LogIsCapped == \A i \in DOMAIN files \ suspects : files[i] <= MaxLog

(* detach ends the live session (manager.go:356): no session is live once  *)
(* the board has been let go of.                                           *)
DetachEndsSession ==
  (up /\ mdPc = "idle" /\ ~attached) => \A i \in DOMAIN sessions : sessions[i].ended
=============================================================================
