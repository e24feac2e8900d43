-------------------------- MODULE SessionLogProofs --------------------------
(***************************************************************************)
(* Proofs about the log sessions: for every number of sessions, crashes    *)
(* and delete requests and every size limit, the numbers follow the order  *)
(* of the starts, the log that is being written is live and kept, recorded *)
(* lengths are right, and neither a live session nor a file is left over.  *)
(***************************************************************************)
EXTENDS SessionLog, WellFoundedInduction, TLAPS

-----------------------------------------------------------------------------
(* The inductive invariant. What the runs check is not inductive: nothing  *)
(* in it ties the pump's place to the session it writes, or says what the  *)
(* ids in its locals stand for.                                            *)

(* The store and the directory are functions on the ids they hold, and the *)
(* numbers do not run ahead of the ids.                                    *)
Stored ==
  /\ sessions \in [DOMAIN sessions -> Records]
  /\ files \in [DOMAIN files -> Nat]
  /\ \A i \in DOMAIN sessions : sessions[i].seq <= i

(* Where the manager and the pump can be at the same time, and which ids   *)
(* they go by; a process that is down is nowhere.                          *)
InStep ==
  /\ ~up => mdPc = "idle" /\ ~attached
  /\ mdPc # "idle" => ~attached
  /\ pumpPc # "none" <=> (attached \/ mdPc = "draining")
  /\ fresh # NoId <=> (mdPc = "started" \/ pumpPc = "switch")
  /\ pumpPc # "none" => sess # NoId
  /\ mdPc = "draining" => snap # NoId
  /\ pumpPc \in {"check", "read", "roll", "continue", "switch"} => fd = sess

(* The sessions that are stored and live.                                  *)
Alive == {i \in DOMAIN sessions : ~sessions[i].ended}

(* What a delete request is after is not live, and no longer stored when   *)
(* its files go.                                                           *)
VictimsAreEnded ==
  /\ ~up => \A d \in Deleters : delPc[d] = "idle"
  /\ \A d \in Deleters : delPc[d] = "record" => \E i \in 1..used : victims[d] = {i}
  /\ \A d \in Deleters : delPc[d] = "files" => victims[d] \cap DOMAIN sessions = {}
  /\ \A d \in Deleters : victims[d] \cap Alive = {}

(* The session that the pump writes is live and counted right, from its    *)
(* record on, unless it is suspect; the length is recorded at the end.     *)
LiveIsUncounted == \A i \in Alive : sessions[i].len = 0

FreshIsLive == fresh # NoId => fresh \in Alive /\ fresh \notin DOMAIN files

LogIsCounted ==
  /\ pumpPc \in {"open", "reopen"} => sess \in Alive /\ sess \notin DOMAIN files /\ byteLen = 0
  /\ pumpPc \in {"check", "read", "roll", "exited"} /\ sess \notin suspects
       => sess \in Alive /\ byteLen = SizeOf(sess)
  /\ pumpPc \in {"check", "read", "roll"} /\ sess \notin suspects
       => sess \in DOMAIN files /\ fileBytes = byteLen
  /\ pumpPc \in {"check", "read"} /\ sess \notin suspects => fileBytes < MaxLog

WriterCounts == LiveIsUncounted /\ FreshIsLive /\ LogIsCounted

(* A rollover has ended its session, or left it a stray; if it overtakes a *)
(* detach, the detach ends a session that is over.                         *)
LeftIsEnded ==
  /\ pumpPc \in {"continue", "switch"} /\ sess \in Alive => sess \in strays
  /\ mdPc = "draining" => snap = sess \/ (snap \in suspects /\ sess \in strays)

LogInv ==
  /\ TypeOK /\ Stored /\ InStep
  /\ VictimsAreEnded
  /\ WriterCounts
  /\ LeftIsEnded
  /\ SeqFollowsStart
  /\ LengthRecorded
  /\ OneLive
  /\ NoOrphanLogs
  /\ LogIsCapped

-----------------------------------------------------------------------------
(* The steps of the store, as what they change and what they leave alone.  *)

(* A nonempty set of naturals has a least element.                         *)
LEMMA HasLeast ==
  ASSUME NEW T \in SUBSET Nat, T # {}
  PROVE  \E n \in T : \A m \in T : n <= m
<1>. DEFINE R == OpToRel(<, Nat)
<1>1. \A m, n \in Nat : m < n => <<m, n>> \in R
  BY DEF OpToRel
<1>. HIDE DEF R
<1>2. IsWellFoundedOn(R, Nat)
  BY NatLessThanWellFounded DEF R
<1>3. PICK n \in T : \A m \in T : ~(<<m, n>> \in R)
  BY <1>2, WFMin
<1>4. \A m \in T : n <= m
  <2> SUFFICES ASSUME NEW m \in T
               PROVE  n <= m
    OBVIOUS
  <2>1. m \in Nat /\ n \in Nat
    OBVIOUS
  <2>2. ~(m < n)
    BY <2>1, <1>1, <1>3
  <2>. QED
    BY <2>1, <2>2
<1>. QED
  BY <1>4

(* While ids are left, there is a next number: above the stored ones, and  *)
(* not ahead of the next id.                                               *)
LEMMA NextSeqExists ==
  ASSUME TypeOK, Stored, used < MaxSessions
  PROVE  /\ nextSeq \in 1..(used + 1)
         /\ \A i \in DOMAIN sessions : sessions[i].seq < nextSeq
<1>. DEFINE Above == {n \in 1..MaxSessions : \A i \in DOMAIN sessions : sessions[i].seq < n}
<1>1. used \in Nat /\ MaxSessions \in Nat
  BY BoundAssumption DEF TypeOK
<1>2. \A i \in DOMAIN sessions : sessions[i].seq \in 1..used
  <2> SUFFICES ASSUME NEW i \in DOMAIN sessions
               PROVE  sessions[i].seq \in 1..used
    OBVIOUS
  <2>1. i \in 1..used /\ sessions[i].seq \in 1..MaxSessions
    BY DEF TypeOK, Records, Ids
  <2>2. sessions[i].seq <= i
    BY DEF Stored
  <2>. QED
    BY <1>1, <2>1, <2>2
<1>3. used + 1 \in Above
  BY <1>1, <1>2
<1>4. PICK n \in Above : \A m \in Above : n <= m
  <2>1. Above \in SUBSET Nat /\ Above # {}
    BY <1>1, <1>3
  <2>. HIDE DEF Above
  <2>. QED
    BY <2>1, HasLeast
<1>5. n \in 1..MaxSessions /\ \A i \in DOMAIN sessions : sessions[i].seq < n
  OBVIOUS
<1>6. n = 1 \/ \E i \in DOMAIN sessions : sessions[i].seq = n - 1
  <2> SUFFICES ASSUME n # 1, \A i \in DOMAIN sessions : sessions[i].seq # n - 1
               PROVE  FALSE
    OBVIOUS
  <2>1. n - 1 \in 1..MaxSessions /\ ~(n <= n - 1)
    BY <1>1, <1>5
  <2>2. \A i \in DOMAIN sessions : sessions[i].seq < n - 1
    BY <1>1, <1>2, <1>5
  <2>. QED
    BY <1>4, <2>1, <2>2
<1>7. /\ nextSeq \in 1..MaxSessions
      /\ \A i \in DOMAIN sessions : sessions[i].seq < nextSeq
      /\ nextSeq = 1 \/ \E i \in DOMAIN sessions : sessions[i].seq = nextSeq - 1
  <2>. HIDE DEF Above
  <2>. QED
    BY <1>5, <1>6 DEF nextSeq
<1>8. nextSeq <= used + 1
  BY <1>1, <1>2, <1>7
<1>. QED
  BY <1>1, <1>7, <1>8

(* What a start, an end of session i at length n, a repair and a deletion  *)
(* do to the store.                                                        *)
Adds ==
  /\ used \in Nat /\ used + 1 \in 1..MaxSessions
  /\ used' = used + 1 /\ fresh' = used + 1
  /\ used + 1 \notin DOMAIN sessions /\ used + 1 \notin DOMAIN files
  /\ DOMAIN sessions' = DOMAIN sessions \cup {used + 1}
  /\ sessions' \in [DOMAIN sessions' -> Records]
  /\ \A i \in DOMAIN sessions : sessions'[i] = sessions[i]
  /\ ~sessions'[used + 1].ended /\ sessions'[used + 1].len = 0
  /\ sessions'[used + 1].seq \in 1..(used + 1)
  /\ \A i \in DOMAIN sessions : sessions[i].seq < sessions'[used + 1].seq

Ends(i, n) ==
  /\ DOMAIN sessions' = DOMAIN sessions
  /\ sessions' \in [DOMAIN sessions -> Records]
  /\ \A j \in DOMAIN sessions : sessions'[j].seq = sessions[j].seq
  /\ \A j \in DOMAIN sessions : j # i => sessions'[j] = sessions[j]
  /\ i \in DOMAIN sessions => sessions'[i].ended /\ sessions'[i].len = n

Repairs ==
  /\ DOMAIN sessions' = DOMAIN sessions
  /\ sessions' \in [DOMAIN sessions -> Records]
  /\ \A j \in DOMAIN sessions : sessions'[j].seq = sessions[j].seq
  /\ \A j \in DOMAIN sessions \ Alive : sessions'[j] = sessions[j]
  /\ \A j \in Alive : sessions'[j].ended /\ sessions'[j].len = SizeOf(j)
  /\ strays' = {}

Drops(S) ==
  /\ DOMAIN sessions' = DOMAIN sessions \ S
  /\ sessions' \in [DOMAIN sessions \ S -> Records]
  /\ \A j \in DOMAIN sessions \ S : sessions'[j] = sessions[j]

(* A start adds a live record under the next id, with the next number.     *)
LEMMA StartAdds ==
  ASSUME TypeOK, Stored, NEW prev \in 0..used, startSession(prev)
  PROVE  Adds
<1>. DEFINE id == used + 1
<1>. DEFINE rec == [seq |-> nextSeq, ended |-> FALSE, len |-> 0, from |-> prev]
<1>1. used \in Nat /\ MaxSessions \in Nat /\ used < MaxSessions
  BY BoundAssumption DEF TypeOK, startSession
<1>2. id \notin DOMAIN sessions /\ id \notin DOMAIN files
  BY <1>1 DEF TypeOK
<1>3. sessions' = With(sessions, id, rec)
  BY DEF startSession
<1>4. DOMAIN sessions' = DOMAIN sessions \cup {id}
  BY <1>3 DEF With
<1>5. sessions'[id] = rec
  BY <1>3 DEF With
<1>6. \A i \in DOMAIN sessions : sessions'[i] = sessions[i]
  BY <1>2, <1>3 DEF With
<1>7. nextSeq \in 1..id /\ \A i \in DOMAIN sessions : sessions[i].seq < nextSeq
  BY <1>1, NextSeqExists
<1>8. prev \in Ids \cup {NoId}
  BY <1>1 DEF Ids, NoId
<1>9. rec \in Records
  BY <1>1, <1>7, <1>8 DEF Records, Ids
<1>10. \A i \in DOMAIN sessions' : sessions'[i] \in Records
  BY <1>4, <1>5, <1>6, <1>9 DEF TypeOK
<1>11. sessions' = [i \in DOMAIN sessions' |-> sessions'[i]]
  BY <1>3 DEF With
<1>12. sessions' \in [DOMAIN sessions' -> Records]
  BY <1>10, <1>11
<1>13. used' = id /\ fresh' = id
  BY DEF startSession
<1>14. id \in 1..MaxSessions
  BY <1>1
<1>. QED
  BY <1>1, <1>2, <1>4, <1>5, <1>6, <1>7, <1>12, <1>13, <1>14 DEF Adds

(* An end changes one record, if it is there.                              *)
LEMMA EndChangesOne ==
  ASSUME TypeOK, Stored, NEW i \in 0..used, NEW n \in Nat, EndSession(i, n)
  PROVE  Ends(i, n)
<1>1. \A j \in DOMAIN sessions : sessions[j] \in Records
  BY DEF TypeOK
<1>2. sessions \in [DOMAIN sessions -> Records]
  BY DEF Stored
<1>3. CASE i \notin DOMAIN sessions
  BY <1>2, <1>3 DEF EndSession, Ends
<1>4. CASE i \in DOMAIN sessions
  <2>1. sessions' = [sessions EXCEPT ![i] = [@ EXCEPT !.ended = TRUE, !.len = n]]
    BY <1>4 DEF EndSession
  <2>2. DOMAIN sessions' = DOMAIN sessions
    BY <2>1
  <2>3. \A j \in DOMAIN sessions : j # i => sessions'[j] = sessions[j]
    BY <2>1
  <2>4. sessions'[i] = [[sessions[i] EXCEPT !.ended = TRUE] EXCEPT !.len = n]
    BY <1>2, <1>4, <2>1
  <2>5. sessions'[i] \in Records /\ sessions'[i].ended /\ sessions'[i].len = n
        /\ sessions'[i].seq = sessions[i].seq
    BY <1>1, <1>4, <2>4 DEF Records
  <2>6. \A j \in DOMAIN sessions : sessions'[j] \in Records
    BY <1>1, <2>3, <2>5
  <2>7. sessions' = [j \in DOMAIN sessions' |-> sessions'[j]]
    BY <2>1
  <2>8. sessions' \in [DOMAIN sessions -> Records]
    BY <2>2, <2>6, <2>7
  <2>. QED
    BY <1>4, <2>2, <2>3, <2>5, <2>8 DEF Ends
<1>. QED
  BY <1>3, <1>4

(* A function without some keys keeps the others.                          *)
LEMMA WithoutKeeps ==
  ASSUME NEW f, NEW S, NEW V, f \in [DOMAIN f -> V]
  PROVE  /\ DOMAIN Without(f, S) = DOMAIN f \ S
         /\ Without(f, S) \in [DOMAIN f \ S -> V]
         /\ \A x \in DOMAIN f \ S : Without(f, S)[x] = f[x]
BY DEF Without

(* A deletion leaves the other records as they are.                        *)
LEMMA DeleteDrops ==
  ASSUME Stored, NEW S, sessions' = Without(sessions, S)
  PROVE  Drops(S)
BY WithoutKeeps DEF Stored, Drops

(* A repair at boot ends what is live, with the length of its file; it     *)
(* changes nothing else.                                                   *)
LEMMA RepairEnds ==
  ASSUME TypeOK, Stored, WriterCounts, Boot,
         ~(UNCHANGED sessions /\ strays' = strays \cup Stale)
  PROVE  Repairs
<1>1. \A j \in DOMAIN sessions : sessions[j] \in Records
  BY DEF TypeOK
<1>2. /\ sessions' = [i \in DOMAIN sessions |->
                       IF i \in Stale
                         THEN [sessions[i] EXCEPT !.ended = TRUE,
                                 !.len = IF @ = 0 THEN SizeOf(i) ELSE @]
                         ELSE sessions[i]]
      /\ strays' = {}
  BY DEF Boot
<1>3. \A j \in Alive : sessions[j].len = 0
  BY DEF WriterCounts, LiveIsUncounted
<1>4. Stale = Alive /\ Alive \subseteq DOMAIN sessions
  BY DEF Stale, Alive, Live
<1>5. \A j \in DOMAIN sessions \ Alive : sessions'[j] = sessions[j]
  BY <1>2, <1>4
<1>6. ASSUME NEW j \in Alive
      PROVE  sessions'[j] = [[sessions[j] EXCEPT !.ended = TRUE] EXCEPT !.len = SizeOf(j)]
  <2>1. sessions'[j] = [sessions[j] EXCEPT !.ended = TRUE,
                          !.len = IF @ = 0 THEN SizeOf(j) ELSE @]
    BY <1>2, <1>4
  <2>. QED
    BY <1>1, <1>3, <1>4, <2>1 DEF Records
<1>7. \A j \in DOMAIN sessions : SizeOf(j) \in Nat
  BY DEF SizeOf, TypeOK
<1>8. ASSUME NEW j \in Alive
      PROVE  sessions'[j] \in Records /\ sessions'[j].ended /\ sessions'[j].len = SizeOf(j)
             /\ sessions'[j].seq = sessions[j].seq
  <2>1. j \in DOMAIN sessions /\ sessions[j] \in Records /\ SizeOf(j) \in Nat
    BY <1>1, <1>4, <1>7
  <2>. QED
    BY <1>6, <2>1 DEF Records
<1>9. DOMAIN sessions' = DOMAIN sessions
  BY <1>2
<1>10. \A j \in DOMAIN sessions : sessions'[j] \in Records
  BY <1>1, <1>5, <1>8
<1>11. sessions' = [j \in DOMAIN sessions' |-> sessions'[j]]
  BY <1>2
<1>12. sessions' \in [DOMAIN sessions -> Records]
  BY <1>9, <1>10, <1>11
<1>. QED
  BY <1>2, <1>4, <1>5, <1>8, <1>9, <1>12 DEF Repairs

-----------------------------------------------------------------------------
(* Which steps touch what.                                                 *)

(* The store.                                                              *)
LEMMA StoreSteps ==
  [Next]_vars =>
    \/ UNCHANGED <<sessions, used>>
    \/ AttachStarts \/ RollContinues \/ DetachEnds \/ RollEnds \/ Boot
    \/ \E d \in Deleters : DeleteOne(d) \/ DeleteAll(d)
BY DEF Next, ManagerStep, PumpStep, DeleteStep, vars, StartFails, Attach,
       AttachFails,
       DetachBegins, PumpOpens, PumpChecks, PumpReadsNothing, PumpReads, RollFails,
       RollSwitches, RollReopens, DeleteAsks, DeleteRemoves, DeleteFails, Crash

(* The log directory.                                                      *)
LEMMA FileSteps ==
  [Next]_vars =>
    \/ UNCHANGED files
    \/ PumpOpens \/ PumpReads \/ RollReopens
    \/ \E d \in Deleters : \E i \in 1..used : DeleteRemoves(d, i)
BY DEF Next, ManagerStep, PumpStep, DeleteStep, vars, AttachStarts, StartFails,
       Attach,
       AttachFails, DetachBegins, DetachEnds, PumpChecks, PumpReadsNothing, RollEnds,
       RollContinues, RollFails, RollSwitches, DeleteAsks, DeleteOne, DeleteAll,
       DeleteFails, Crash, Boot

(* The ids that the manager and the pump go by.                            *)
LEMMA IdSteps ==
  [Next]_vars =>
    \/ UNCHANGED <<sess, snap, fresh, fd>>
    \/ AttachStarts \/ Attach \/ AttachFails \/ DetachBegins \/ DetachEnds \/ PumpOpens
    \/ RollContinues \/ RollFails \/ RollSwitches \/ RollReopens \/ Crash
BY DEF Next, ManagerStep, PumpStep, DeleteStep, vars, volatile, mdVars,
       pumpVars,
       StartFails, PumpChecks, PumpReadsNothing, PumpReads, RollEnds, DeleteAsks,
       DeleteRemoves, DeleteOne, DeleteAll, DeleteFails, Boot

(* The delete requests.                                                    *)
LEMMA RequestSteps ==
  [Next]_vars =>
    \/ UNCHANGED <<delPc, victims>>
    \/ \E d \in Deleters : \E i \in 1..used : DeleteAsks(d, i) \/ DeleteRemoves(d, i)
    \/ \E d \in Deleters : DeleteOne(d) \/ DeleteAll(d) \/ DeleteFails(d)
    \/ Crash
BY DEF Next, ManagerStep, PumpStep, DeleteStep, vars, volatile, delVars,
       AttachStarts,
       StartFails, Attach, AttachFails, DetachBegins, DetachEnds, PumpOpens, PumpChecks,
       PumpReadsNothing, PumpReads, RollEnds, RollContinues, RollFails, RollSwitches,
       RollReopens, Boot

(* Whether the process runs.                                               *)
LEMMA UpSteps == [Next]_vars => UNCHANGED up \/ Crash \/ Boot
BY DEF Next, ManagerStep, PumpStep, DeleteStep, vars, AttachStarts, StartFails,
       Attach,
       AttachFails, DetachBegins, DetachEnds, PumpOpens, PumpChecks, PumpReadsNothing,
       PumpReads, RollEnds, RollContinues, RollFails, RollSwitches, RollReopens,
       DeleteAsks, DeleteRemoves, DeleteOne, DeleteAll, DeleteFails

(* The pump, its session and its counters.                                 *)
LEMMA PumpSteps ==
  [Next]_vars =>
    \/ UNCHANGED <<pumpPc, sess, byteLen, fileBytes>>
    \/ Attach \/ DetachEnds \/ PumpOpens \/ PumpChecks \/ PumpReadsNothing \/ PumpReads
    \/ RollEnds \/ RollContinues \/ RollFails \/ RollSwitches \/ RollReopens \/ Crash
BY DEF Next, ManagerStep, PumpStep, DeleteStep, vars, volatile, mdVars,
       pumpVars,
       AttachStarts, StartFails, AttachFails, DetachBegins, DeleteAsks, DeleteRemoves,
       DeleteOne, DeleteAll, DeleteFails, Boot

(* The manager's place.                                                    *)
LEMMA MdSteps ==
  [Next]_vars =>
    \/ UNCHANGED <<mdPc, attached>>
    \/ AttachStarts \/ Attach \/ AttachFails \/ DetachBegins \/ DetachEnds \/ Crash
BY DEF Next, ManagerStep, PumpStep, DeleteStep, vars, volatile, mdVars,
       StartFails,
       PumpOpens, PumpChecks, PumpReadsNothing, PumpReads, RollEnds, RollContinues,
       RollFails, RollSwitches, RollReopens, DeleteAsks, DeleteRemoves, DeleteOne,
       DeleteAll, DeleteFails, Boot

(* The history.                                                            *)
LEMMA HistorySteps ==
  [Next]_vars =>
    \/ UNCHANGED <<strays, suspects, orphans>>
    \/ AttachFails \/ DetachEnds \/ PumpReads \/ RollEnds \/ RollFails \/ RollSwitches
    \/ Crash \/ Boot
    \/ \E d \in Deleters : DeleteFails(d)
BY DEF Next, ManagerStep, PumpStep, DeleteStep, vars, history, AttachStarts,
       StartFails,
       Attach, DetachBegins, PumpOpens, PumpChecks, PumpReadsNothing, RollContinues,
       RollReopens, DeleteAsks, DeleteRemoves, DeleteOne, DeleteAll

-----------------------------------------------------------------------------
(* The types. They come in parts, each with what its steps need.           *)
StoreTypes ==
  /\ used \in 0..MaxSessions
  /\ DOMAIN sessions \subseteq 1..used
  /\ sessions \in [DOMAIN sessions -> Records]
  /\ \A i \in DOMAIN sessions : sessions[i].seq <= i

FileTypes ==
  /\ DOMAIN files \subseteq 1..used
  /\ files \in [DOMAIN files -> Nat]

PlaceTypes ==
  /\ up \in BOOLEAN /\ attached \in BOOLEAN /\ stop \in BOOLEAN
  /\ mdPc \in {"idle", "started", "draining"}
  /\ byteLen \in Nat /\ fileBytes \in Nat
  /\ pumpPc \in {"none", "open", "check", "read", "roll", "continue", "switch",
                 "reopen", "exited"}
  /\ crashes \in 0..MaxCrashes

IdTypes ==
  sess \in 0..used /\ snap \in 0..used /\ fresh \in 0..used /\ fd \in 0..used

RequestTypes ==
  /\ delPc \in [Deleters -> {"idle", "record", "files"}]
  /\ victims \in [Deleters -> SUBSET (1..used)]

HistoryTypes ==
  strays \subseteq 1..used /\ suspects \subseteq 1..used /\ orphans \subseteq 1..used

(* Together they are the type invariant.                                   *)
LEMMA TypeParts ==
  TypeOK /\ Stored <=> /\ StoreTypes /\ FileTypes /\ PlaceTypes
                       /\ IdTypes /\ RequestTypes /\ HistoryTypes
BY DEF TypeOK, Stored, StoreTypes, FileTypes, PlaceTypes, IdTypes, RequestTypes,
       HistoryTypes

(* The store holds ids that were given out, with numbers not ahead of them. *)
LEMMA StoreTypesStep ==
  ASSUME TypeOK, Stored, WriterCounts, StoreTypes, [Next]_vars
  PROVE  StoreTypes'
<1> USE BoundAssumption DEF StoreTypes
<1>1. CASE AttachStarts
  <2>1. startSession(NoId) /\ NoId \in 0..used
    BY <1>1 DEF AttachStarts, TypeOK, NoId
  <2>2. Adds
    BY <2>1, StartAdds
  <2>. HIDE DEF startSession
  <2>. QED
    BY <1>1, <2>2 DEF AttachStarts, Adds
<1>2. CASE DetachEnds
  <2>1. CASE EndSession(snap, byteLen) /\ UNCHANGED <<strays, suspects>>
    <3>1. snap \in 0..used /\ byteLen \in Nat
      BY DEF TypeOK
    <3>2. Ends(snap, byteLen)
      BY <2>1, <3>1, EndChangesOne
    <3>. QED
      BY <1>2, <2>1, <3>2 DEF DetachEnds, Ends
  <2>2. CASE EndFails(snap)
    BY <1>2, <2>2 DEF DetachEnds, EndFails
  <2>. QED
    BY <1>2, <2>1, <2>2 DEF DetachEnds
<1>3. CASE RollEnds
  <2>1. CASE EndSession(sess, byteLen) /\ UNCHANGED <<strays, suspects>>
    <3>1. sess \in 0..used /\ byteLen \in Nat
      BY DEF TypeOK
    <3>2. Ends(sess, byteLen)
      BY <2>1, <3>1, EndChangesOne
    <3>. QED
      BY <1>3, <2>1, <3>2 DEF RollEnds, Ends
  <2>2. CASE EndFails(sess)
    BY <1>3, <2>2 DEF RollEnds, EndFails
  <2>. QED
    BY <1>3, <2>1, <2>2 DEF RollEnds
<1>4. CASE RollContinues
  <2>1. startSession(sess) /\ sess \in 0..used
    BY <1>4 DEF RollContinues, TypeOK, NoId
  <2>2. Adds
    BY <2>1, StartAdds
  <2>. HIDE DEF startSession
  <2>. QED
    BY <1>4, <2>2 DEF RollContinues, Adds
<1>5. ASSUME NEW d \in Deleters, DeleteOne(d)
      PROVE  StoreTypes'
  <2>1. Drops(victims[d])
    BY <1>5, DeleteDrops DEF DeleteOne
  <2>. QED
    BY <1>5, <2>1 DEF DeleteOne, Drops
<1>6. ASSUME NEW d \in Deleters, DeleteAll(d)
      PROVE  StoreTypes'
  <2>. DEFINE ended == DOMAIN sessions \ Alive
  <2>1. Drops(ended)
    BY <1>6, DeleteDrops DEF DeleteAll, Alive, Live
  <2>. QED
    BY <1>6, <2>1 DEF DeleteAll, Drops
<1>7. CASE Boot
  <2>1. CASE UNCHANGED sessions /\ strays' = strays \cup Stale
    BY <1>7, <2>1 DEF Boot, Stale
  <2>2. CASE ~(UNCHANGED sessions /\ strays' = strays \cup Stale)
    <3>1. Repairs
      BY <1>7, <2>2, RepairEnds
    <3>2. UNCHANGED <<used, files, volatile, crashes, suspects, orphans>> /\ up'
      BY <1>7 DEF Boot
    <3>. QED
      BY <3>1, <3>2 DEF Repairs
  <2>. QED
    BY <2>1, <2>2
<1>8. CASE UNCHANGED <<sessions, used>>
  BY <1>8
<1>. QED
  BY <1>1, <1>2, <1>3, <1>4, <1>5, <1>6, <1>7, <1>8, StoreSteps

(* Ids are only ever given out.                                            *)
LEMMA UsedGrows ==
  ASSUME TypeOK, Stored, [Next]_vars
  PROVE  used \in Nat /\ used' \in Nat /\ used <= used'
<1>1. used \in Nat
  BY BoundAssumption DEF TypeOK
<1>2. CASE UNCHANGED used
  BY <1>1, <1>2
<1>3. CASE used' = used + 1
  BY <1>1, <1>3
<1>. QED
  BY <1>2, <1>3, StoreSteps
     DEF AttachStarts, RollContinues, startSession, DetachEnds, RollEnds, Boot, DeleteOne,
         DeleteAll

(* A file is made for an id that is in use. *)
LEMMA FileTypesStep ==
  ASSUME TypeOK, Stored, InStep, FileTypes, [Next]_vars
  PROVE  FileTypes'
<1> USE DEF FileTypes
<1>0. used \in Nat /\ used' \in Nat /\ used <= used' /\ 1..used \subseteq 1..used'
  BY UsedGrows
<1>1. CASE PumpOpens
  <2>1. sess \in 1..used'
    BY <1>0, <1>1 DEF PumpOpens, InStep, TypeOK, NoId
  <2>2. files' = files \/ files' = With(files, sess, 0)
    BY <1>1 DEF PumpOpens
  <2>. QED
    BY <1>0, <2>1, <2>2 DEF With
<1>2. CASE PumpReads
  <2>1. files' = files \/ files' = [files EXCEPT ![fd] = files[fd] + 1]
    BY <1>2 DEF PumpReads
  <2>. QED
    BY <1>0, <2>1
<1>3. CASE RollReopens
  <2>1. sess \in 1..used'
    BY <1>0, <1>3 DEF RollReopens, InStep, TypeOK, NoId
  <2>2. files' = files \/ files' = With(files, sess, 0)
    BY <1>3 DEF RollReopens
  <2>. QED
    BY <1>0, <2>1, <2>2 DEF With
<1>4. ASSUME NEW d \in Deleters, NEW i \in 1..used, DeleteRemoves(d, i)
      PROVE  FileTypes'
  <2>1. files' = Without(files, {i})
    BY <1>4 DEF DeleteRemoves
  <2>2. files \in [DOMAIN files -> Nat]
    OBVIOUS
  <2>3. DOMAIN files' = DOMAIN files \ {i} /\ files' \in [DOMAIN files \ {i} -> Nat]
    BY <2>1, <2>2, WithoutKeeps
  <2>. QED
    BY <1>0, <2>3
<1>5. CASE UNCHANGED files
  BY <1>5, <1>0
<1>. QED
  BY <1>1, <1>2, <1>3, <1>4, <1>5, FileSteps

(* Where the manager and the pump are. *)
LEMMA PlaceTypesStep ==
  TypeOK /\ Stored /\ InStep /\ WriterCounts /\ FileTypes /\ FileTypes' /\ PlaceTypes
    /\ [Next]_vars => PlaceTypes'
<1> SUFFICES ASSUME TypeOK, Stored, InStep, WriterCounts, FileTypes, FileTypes',
                    PlaceTypes, [Next]_vars
             PROVE  PlaceTypes'
  OBVIOUS
<1> USE BoundAssumption DEF volatile, mdVars, pumpVars, delVars, history, PlaceTypes
<1>1. CASE AttachStarts
  BY <1>1 DEF AttachStarts
<1>2. CASE StartFails
  BY <1>2 DEF StartFails, vars
<1>3. CASE Attach
  BY <1>3 DEF Attach
<1>4. CASE AttachFails
  BY <1>4 DEF AttachFails
<1>5. CASE DetachBegins
  BY <1>5 DEF DetachBegins
<1>6. CASE DetachEnds
  BY <1>6 DEF DetachEnds
<1>7. CASE PumpOpens
  <2>1. DOMAIN files' = DOMAIN files \/ sess \in DOMAIN files'
    BY <1>7 DEF PumpOpens, With
  <2>2. fileBytes' \in Nat
    BY <1>7 DEF PumpOpens, With, FileTypes
  <2>. QED
    BY <1>7, <2>2 DEF PumpOpens
<1>8. CASE PumpChecks
  BY <1>8 DEF PumpChecks
<1>9. CASE PumpReadsNothing
  BY <1>9 DEF PumpReadsNothing
<1>10. CASE PumpReads
  BY <1>10 DEF PumpReads
<1>11. CASE RollEnds
  BY <1>11 DEF RollEnds
<1>12. CASE RollContinues
  BY <1>12 DEF RollContinues
<1>13. CASE RollFails
  BY <1>13 DEF RollFails
<1>14. CASE RollSwitches
  BY <1>14 DEF RollSwitches
<1>15. CASE RollReopens
  BY <1>15 DEF RollReopens
<1>16. ASSUME NEW d \in Deleters, NEW i \in 1..used, DeleteAsks(d, i)
      PROVE  PlaceTypes'
  BY <1>16 DEF DeleteAsks
<1>17. ASSUME NEW d \in Deleters, NEW i \in 1..used, DeleteRemoves(d, i)
      PROVE  PlaceTypes'
  BY <1>17 DEF DeleteRemoves
<1>18. ASSUME NEW d \in Deleters, DeleteOne(d)
      PROVE  PlaceTypes'
  BY <1>18 DEF DeleteOne
<1>19. ASSUME NEW d \in Deleters, DeleteAll(d)
      PROVE  PlaceTypes'
  BY <1>19 DEF DeleteAll
<1>20. ASSUME NEW d \in Deleters, DeleteFails(d)
      PROVE  PlaceTypes'
  BY <1>20 DEF DeleteFails
<1>21. CASE Crash
  <2>1. crashes' \in 0..MaxCrashes
    BY <1>21 DEF Crash
  <2>2. /\ up' = FALSE /\ attached' = FALSE /\ stop' = FALSE /\ mdPc' = "idle"
        /\ byteLen' = 0 /\ fileBytes' = 0 /\ pumpPc' = "none"
    BY <1>21 DEF Crash
  <2>. QED
    BY <2>1, <2>2
<1>22. CASE Boot
  BY <1>22 DEF Boot
<1>23. CASE UNCHANGED vars
  BY <1>23 DEF vars
<1>. QED
  BY <1>1, <1>2, <1>3, <1>4, <1>5, <1>6, <1>7, <1>8, <1>9, <1>10, <1>11,
     <1>12, <1>13, <1>14, <1>15, <1>16, <1>17, <1>18, <1>19, <1>20, <1>21,
     <1>22, <1>23
     DEF Next, ManagerStep, PumpStep, DeleteStep

(* The ids they go by have been given out. *)
LEMMA IdTypesStep ==
  ASSUME TypeOK, Stored, InStep, IdTypes, [Next]_vars
  PROVE  IdTypes'
<1> USE DEF IdTypes, NoId
<1>0. used \in Nat /\ used' \in Nat /\ used <= used' /\ 0..used \subseteq 0..used'
  BY UsedGrows
<1>1. CASE AttachStarts
  BY <1>0, <1>1 DEF AttachStarts, mdVars, pumpVars, startSession
<1>2. CASE Attach
  BY <1>0, <1>2 DEF Attach, mdVars, pumpVars
<1>3. CASE AttachFails
  BY <1>0, <1>3 DEF AttachFails, mdVars, pumpVars
<1>4. CASE DetachBegins
  BY <1>0, <1>4 DEF DetachBegins, mdVars, pumpVars
<1>5. CASE DetachEnds
  BY <1>0, <1>5 DEF DetachEnds, mdVars, pumpVars
<1>6. CASE PumpOpens
  BY <1>0, <1>6 DEF PumpOpens, mdVars, pumpVars
<1>7. CASE RollContinues
  BY <1>0, <1>7 DEF RollContinues, mdVars, pumpVars, startSession
<1>8. CASE RollFails
  BY <1>0, <1>8 DEF RollFails, mdVars, pumpVars
<1>9. CASE RollSwitches
  BY <1>0, <1>9 DEF RollSwitches, mdVars, pumpVars
<1>10. CASE RollReopens
  BY <1>0, <1>10 DEF RollReopens, mdVars, pumpVars
<1>11. CASE Crash
  BY <1>0, <1>11 DEF Crash, mdVars, pumpVars
<1>12. CASE UNCHANGED <<sess, snap, fresh, fd>>
  BY <1>12, <1>0
<1>. QED
  BY <1>1, <1>2, <1>3, <1>4, <1>5, <1>6, <1>7, <1>8, <1>9, <1>10, <1>11,
     <1>12, IdSteps

(* What a request is after has been given out. *)
LEMMA RequestTypesStep ==
  ASSUME TypeOK, Stored, InStep, RequestTypes, [Next]_vars
  PROVE  RequestTypes'
<1> USE DEF RequestTypes
<1>0. used \in Nat /\ used' \in Nat /\ used <= used' /\ 1..used \subseteq 1..used'
  BY UsedGrows
<1>1. ASSUME NEW d \in Deleters, NEW i \in 1..used, DeleteAsks(d, i)
      PROVE  RequestTypes'
  BY <1>0, <1>1 DEF DeleteAsks
<1>2. ASSUME NEW d \in Deleters, NEW i \in 1..used, DeleteRemoves(d, i)
      PROVE  RequestTypes'
  BY <1>0, <1>2 DEF DeleteRemoves
<1>3. ASSUME NEW d \in Deleters, DeleteOne(d)
      PROVE  RequestTypes'
  BY <1>0, <1>3 DEF DeleteOne
<1>4. ASSUME NEW d \in Deleters, DeleteAll(d)
      PROVE  RequestTypes'
  <2>1. {i \in DOMAIN sessions : ~Live(i)} \in SUBSET (1..used')
    BY <1>0 DEF TypeOK
  <2>. QED
    BY <1>0, <1>4, <2>1 DEF DeleteAll
<1>5. ASSUME NEW d \in Deleters, DeleteFails(d)
      PROVE  RequestTypes'
  BY <1>0, <1>5 DEF DeleteFails
<1>6. CASE Crash
  BY <1>0, <1>6 DEF Crash
<1>7. CASE UNCHANGED <<delPc, victims>>
  BY <1>7, <1>0
<1>. QED
  BY <1>1, <1>2, <1>3, <1>4, <1>5, <1>6, <1>7, RequestSteps

(* So has what the history remembers. *)
LEMMA HistoryTypesStep ==
  ASSUME TypeOK, Stored, InStep, HistoryTypes, [Next]_vars
  PROVE  HistoryTypes'
<1> USE DEF HistoryTypes
<1>0. used \in Nat /\ used' \in Nat /\ used <= used' /\ 1..used \subseteq 1..used'
  BY UsedGrows
<1>a. /\ sess # 0 => sess \in 1..used
      /\ snap # 0 => snap \in 1..used
      /\ fresh # 0 => fresh \in 1..used
      /\ fd # 0 => fd \in 1..used
  BY <1>0 DEF TypeOK
<1>1. CASE AttachFails
  BY <1>0, <1>a, <1>1 DEF AttachFails, InStep, NoId
<1>2. CASE DetachEnds
  BY <1>0, <1>a, <1>2 DEF DetachEnds, EndFails, InStep, NoId
<1>3. CASE PumpReads
  BY <1>0, <1>a, <1>3 DEF PumpReads, InStep, NoId
<1>4. CASE RollEnds
  BY <1>0, <1>a, <1>4 DEF RollEnds, EndFails, InStep, NoId
<1>5. CASE RollFails
  BY <1>0, <1>a, <1>5 DEF RollFails, InStep, NoId
<1>6. CASE RollSwitches
  BY <1>0, <1>a, <1>6 DEF RollSwitches, InStep, NoId
<1>7. ASSUME NEW d \in Deleters, DeleteFails(d)
      PROVE  HistoryTypes'
  <2>1. victims[d] \subseteq 1..used'
    BY <1>0, <1>7 DEF TypeOK
  <2>. QED
    BY <1>0, <1>7, <2>1 DEF DeleteFails
<1>8. CASE Crash
  <2>1. UNION {IF delPc[d] = "files" THEN victims[d] ELSE {} : d \in Deleters} \subseteq 1..used'
    BY <1>0 DEF TypeOK
  <2>. QED
    BY <1>0, <1>8, <2>1 DEF Crash
<1>9. CASE Boot
  <2>1. Stale \subseteq 1..used'
    BY <1>0 DEF Stale, TypeOK
  <2>. QED
    BY <1>0, <1>9, <2>1 DEF Boot
<1>10. CASE UNCHANGED <<strays, suspects, orphans>>
  BY <1>10, <1>0
<1>. QED
  BY <1>1, <1>2, <1>3, <1>4, <1>5, <1>6, <1>7, <1>8, <1>9, <1>10,
     HistorySteps

(* The types and the places they come with, in one.                        *)
LEMMA TypeStep ==
  ASSUME TypeOK, Stored, InStep, WriterCounts, [Next]_vars
  PROVE  TypeOK' /\ Stored'
<1>1. /\ StoreTypes /\ FileTypes /\ PlaceTypes
      /\ IdTypes /\ RequestTypes /\ HistoryTypes
  BY TypeParts
<1>2. StoreTypes' /\ FileTypes'
  BY <1>1, StoreTypesStep, FileTypesStep
<1>3. PlaceTypes'
  BY <1>1, <1>2, PlaceTypesStep
<1>4. IdTypes' /\ RequestTypes' /\ HistoryTypes'
  BY <1>1, IdTypesStep, RequestTypesStep, HistoryTypesStep
<1>5. TypeOK' /\ Stored' <=> /\ StoreTypes' /\ FileTypes' /\ PlaceTypes'
                             /\ IdTypes' /\ RequestTypes' /\ HistoryTypes'
  BY TypeParts, PTL
<1>. QED
  BY <1>2, <1>3, <1>4, <1>5

-----------------------------------------------------------------------------
(* Places and ids. *)

(* The manager's and the pump's places fit together. *)
LEMMA InStepStep == TypeOK /\ InStep /\ [Next]_vars => InStep'
<1> SUFFICES ASSUME TypeOK, InStep, [Next]_vars
             PROVE  InStep'
  OBVIOUS
<1> USE DEF volatile, mdVars, pumpVars, delVars, history, TypeOK, InStep, NoId
<1>1. CASE AttachStarts
  <2>1. fresh' = used + 1 /\ used + 1 # 0
    BY <1>1, BoundAssumption DEF AttachStarts, startSession
  <2>. QED
    BY <1>1, <2>1 DEF AttachStarts
<1>2. CASE StartFails
  BY <1>2 DEF StartFails, vars
<1>3. CASE Attach
  BY <1>3 DEF Attach
<1>4. CASE AttachFails
  BY <1>4 DEF AttachFails
<1>5. CASE DetachBegins
  BY <1>5 DEF DetachBegins
<1>6. CASE DetachEnds
  BY <1>6 DEF DetachEnds
<1>7. CASE PumpOpens
  BY <1>7 DEF PumpOpens
<1>8. CASE PumpChecks
  BY <1>8 DEF PumpChecks
<1>9. CASE PumpReadsNothing
  BY <1>9 DEF PumpReadsNothing
<1>10. CASE PumpReads
  BY <1>10 DEF PumpReads
<1>11. CASE RollEnds
  BY <1>11 DEF RollEnds
<1>12. CASE RollContinues
  <2>1. fresh' = used + 1 /\ used + 1 # 0
    BY <1>12, BoundAssumption DEF RollContinues, startSession
  <2>. QED
    BY <1>12, <2>1 DEF RollContinues
<1>13. CASE RollFails
  BY <1>13 DEF RollFails
<1>14. CASE RollSwitches
  BY <1>14 DEF RollSwitches
<1>15. CASE RollReopens
  BY <1>15 DEF RollReopens
<1>16. ASSUME NEW d \in Deleters, NEW i \in 1..used, DeleteAsks(d, i)
      PROVE  InStep'
  BY <1>16 DEF DeleteAsks
<1>17. ASSUME NEW d \in Deleters, NEW i \in 1..used, DeleteRemoves(d, i)
      PROVE  InStep'
  BY <1>17 DEF DeleteRemoves
<1>18. ASSUME NEW d \in Deleters, DeleteOne(d)
      PROVE  InStep'
  BY <1>18 DEF DeleteOne
<1>19. ASSUME NEW d \in Deleters, DeleteAll(d)
      PROVE  InStep'
  BY <1>19 DEF DeleteAll
<1>20. ASSUME NEW d \in Deleters, DeleteFails(d)
      PROVE  InStep'
  BY <1>20 DEF DeleteFails
<1>21. CASE Crash
  BY <1>21 DEF Crash
<1>22. CASE Boot
  BY <1>22 DEF Boot
<1>23. CASE UNCHANGED vars
  BY <1>23 DEF vars
<1>. QED
  BY <1>1, <1>2, <1>3, <1>4, <1>5, <1>6, <1>7, <1>8, <1>9, <1>10, <1>11,
     <1>12, <1>13, <1>14, <1>15, <1>16, <1>17, <1>18, <1>19, <1>20, <1>21,
     <1>22, <1>23
     DEF Next, ManagerStep, PumpStep, DeleteStep

-----------------------------------------------------------------------------
(* The store. *)

(* A new session gets a number above the stored ones; nothing renumbers. *)
LEMMA SeqStep ==
  ASSUME TypeOK, Stored, InStep, WriterCounts, SeqFollowsStart, [Next]_vars
  PROVE  SeqFollowsStart'
<1> USE DEF SeqFollowsStart
<1>1. CASE AttachStarts
  <2>1. startSession(NoId) /\ NoId \in 0..used
    BY <1>1 DEF AttachStarts, TypeOK, NoId
  <2>2. Adds
    BY <2>1, StartAdds
  <2>. HIDE DEF startSession
  <2>3. \A i \in DOMAIN sessions : i \in Nat /\ i < used + 1
    BY <2>2 DEF Adds, TypeOK
  <2>. QED
    BY <2>2, <2>3 DEF Adds
<1>2. CASE DetachEnds
  <2>1. CASE EndSession(snap, byteLen) /\ UNCHANGED <<strays, suspects>>
    <3>1. snap \in 0..used /\ byteLen \in Nat
      BY DEF TypeOK
    <3>2. Ends(snap, byteLen)
      BY <2>1, <3>1, EndChangesOne
    <3>. QED
      BY <1>2, <2>1, <3>2 DEF DetachEnds, Ends
  <2>2. CASE EndFails(snap)
    BY <1>2, <2>2 DEF DetachEnds, EndFails
  <2>. QED
    BY <1>2, <2>1, <2>2 DEF DetachEnds
<1>3. CASE RollEnds
  <2>1. CASE EndSession(sess, byteLen) /\ UNCHANGED <<strays, suspects>>
    <3>1. sess \in 0..used /\ byteLen \in Nat
      BY DEF TypeOK
    <3>2. Ends(sess, byteLen)
      BY <2>1, <3>1, EndChangesOne
    <3>. QED
      BY <1>3, <2>1, <3>2 DEF RollEnds, Ends
  <2>2. CASE EndFails(sess)
    BY <1>3, <2>2 DEF RollEnds, EndFails
  <2>. QED
    BY <1>3, <2>1, <2>2 DEF RollEnds
<1>4. CASE RollContinues
  <2>1. startSession(sess) /\ sess \in 0..used
    BY <1>4 DEF RollContinues, TypeOK, NoId
  <2>2. Adds
    BY <2>1, StartAdds
  <2>. HIDE DEF startSession
  <2>3. \A i \in DOMAIN sessions : i \in Nat /\ i < used + 1
    BY <2>2 DEF Adds, TypeOK
  <2>. QED
    BY <2>2, <2>3 DEF Adds
<1>5. ASSUME NEW d \in Deleters, DeleteOne(d)
      PROVE  SeqFollowsStart'
  <2>1. Drops(victims[d])
    BY <1>5, DeleteDrops DEF DeleteOne
  <2>. QED
    BY <1>5, <2>1 DEF DeleteOne, Drops
<1>6. ASSUME NEW d \in Deleters, DeleteAll(d)
      PROVE  SeqFollowsStart'
  <2>. DEFINE ended == DOMAIN sessions \ Alive
  <2>1. Drops(ended)
    BY <1>6, DeleteDrops DEF DeleteAll, Alive, Live
  <2>. QED
    BY <1>6, <2>1 DEF DeleteAll, Drops
<1>7. CASE Boot
  <2>1. CASE UNCHANGED sessions /\ strays' = strays \cup Stale
    BY <1>7, <2>1 DEF Boot, Stale
  <2>2. CASE ~(UNCHANGED sessions /\ strays' = strays \cup Stale)
    <3>1. Repairs
      BY <1>7, <2>2, RepairEnds
    <3>2. UNCHANGED <<used, files, volatile, crashes, suspects, orphans>> /\ up'
      BY <1>7 DEF Boot
    <3>. QED
      BY <3>1, <3>2 DEF Repairs
  <2>. QED
    BY <2>1, <2>2
<1>8. CASE UNCHANGED <<sessions, used>>
  BY <1>8
<1>. QED
  BY <1>1, <1>2, <1>3, <1>4, <1>5, <1>6, <1>7, <1>8, StoreSteps

(* Nothing but a start adds a session, and nothing revives one.            *)
OnlyStartsAdd ==
  /\ \A j \in DOMAIN sessions' \ DOMAIN sessions : j = fresh' /\ j = used + 1
  /\ \A j \in Alive' \ Alive :
       j = fresh' /\ j = used + 1 /\ fresh = NoId /\ fresh' # NoId

(* Every step has this effect.                                             *)
LEMMA NothingRevives ==
  ASSUME TypeOK, Stored, InStep, WriterCounts, [Next]_vars
  PROVE  OnlyStartsAdd
<1> USE DEF OnlyStartsAdd, Alive
<1>1. CASE AttachStarts
  <2>1. startSession(NoId) /\ NoId \in 0..used
    BY <1>1 DEF AttachStarts, TypeOK, NoId
  <2>2. Adds
    BY <2>1, StartAdds
  <2>. HIDE DEF startSession
  <2>. QED
    BY <1>1, <2>2 DEF AttachStarts, Adds, InStep, NoId
<1>2. CASE DetachEnds
  <2>1. CASE EndSession(snap, byteLen) /\ UNCHANGED <<strays, suspects>>
    <3>1. snap \in 0..used /\ byteLen \in Nat
      BY DEF TypeOK
    <3>2. Ends(snap, byteLen)
      BY <2>1, <3>1, EndChangesOne
    <3>. QED
      BY <1>2, <2>1, <3>2 DEF DetachEnds, Ends, InStep, NoId
  <2>2. CASE EndFails(snap)
    BY <1>2, <2>2 DEF DetachEnds, EndFails, InStep, NoId
  <2>. QED
    BY <1>2, <2>1, <2>2 DEF DetachEnds
<1>3. CASE RollEnds
  <2>1. CASE EndSession(sess, byteLen) /\ UNCHANGED <<strays, suspects>>
    <3>1. sess \in 0..used /\ byteLen \in Nat
      BY DEF TypeOK
    <3>2. Ends(sess, byteLen)
      BY <2>1, <3>1, EndChangesOne
    <3>. QED
      BY <1>3, <2>1, <3>2 DEF RollEnds, Ends, InStep, NoId
  <2>2. CASE EndFails(sess)
    BY <1>3, <2>2 DEF RollEnds, EndFails, InStep, NoId
  <2>. QED
    BY <1>3, <2>1, <2>2 DEF RollEnds
<1>4. CASE RollContinues
  <2>1. startSession(sess) /\ sess \in 0..used
    BY <1>4 DEF RollContinues, TypeOK, NoId
  <2>2. Adds
    BY <2>1, StartAdds
  <2>. HIDE DEF startSession
  <2>. QED
    BY <1>4, <2>2 DEF RollContinues, Adds, InStep, NoId
<1>5. ASSUME NEW d \in Deleters, DeleteOne(d)
      PROVE  OnlyStartsAdd
  <2>1. Drops(victims[d])
    BY <1>5, DeleteDrops DEF DeleteOne
  <2>. QED
    BY <1>5, <2>1 DEF DeleteOne, Drops, InStep, NoId
<1>6. ASSUME NEW d \in Deleters, DeleteAll(d)
      PROVE  OnlyStartsAdd
  <2>. DEFINE ended == DOMAIN sessions \ Alive
  <2>1. Drops(ended)
    BY <1>6, DeleteDrops DEF DeleteAll, Alive, Live
  <2>. QED
    BY <1>6, <2>1 DEF DeleteAll, Drops, InStep, NoId
<1>7. CASE Boot
  <2>1. CASE UNCHANGED sessions /\ strays' = strays \cup Stale
    BY <1>7, <2>1 DEF Boot, Stale, InStep, NoId
  <2>2. CASE ~(UNCHANGED sessions /\ strays' = strays \cup Stale)
    <3>1. Repairs
      BY <1>7, <2>2, RepairEnds
    <3>2. UNCHANGED <<used, files, volatile, crashes, suspects, orphans>> /\ up'
      BY <1>7 DEF Boot
    <3>. QED
      BY <3>1, <3>2 DEF Repairs, InStep, NoId
  <2>. QED
    BY <2>1, <2>2
<1>8. CASE UNCHANGED <<sessions, used>>
  BY <1>8
<1>. QED
  BY <1>1, <1>2, <1>3, <1>4, <1>5, <1>6, <1>7, <1>8, StoreSteps

(* A request is after sessions that have ended. *)
LEMMA VictimsStep ==
  ASSUME TypeOK, Stored, InStep, WriterCounts, VictimsAreEnded, [Next]_vars
  PROVE  VictimsAreEnded'
<1>0. used \in Nat /\ used' \in Nat /\ used <= used' /\ 1..used \subseteq 1..used'
  BY UsedGrows
<1>a. /\ \A d \in Deleters : victims[d] \subseteq 1..used
      /\ used + 1 \notin 1..used /\ DOMAIN sessions \subseteq 1..used
      /\ delPc \in [Deleters -> {"idle", "record", "files"}]
      /\ victims \in [Deleters -> SUBSET (1..used)]
  BY <1>0 DEF TypeOK
<1>b. /\ \A j \in 1..used : j \notin DOMAIN sessions => j \notin DOMAIN sessions'
      /\ \A j \in 1..used : j \notin Alive => j \notin Alive'
  BY <1>0, NothingRevives DEF OnlyStartsAdd
<1>1. CASE AttachStarts
  BY <1>0, <1>a, <1>b, <1>1
     DEF AttachStarts, VictimsAreEnded, delVars, volatile, InStep
<1>2. CASE DetachEnds
  BY <1>0, <1>a, <1>b, <1>2
     DEF DetachEnds, VictimsAreEnded, delVars, volatile, InStep
<1>3. CASE RollEnds
  BY <1>0, <1>a, <1>b, <1>3
     DEF RollEnds, VictimsAreEnded, delVars, volatile, InStep
<1>4. CASE RollContinues
  BY <1>0, <1>a, <1>b, <1>4
     DEF RollContinues, VictimsAreEnded, delVars, volatile, InStep
<1>5. ASSUME NEW d \in Deleters, NEW i \in 1..used, DeleteAsks(d, i)
      PROVE  VictimsAreEnded'
  <2>1. i \in 1..used /\ i \notin Alive
    BY <1>5 DEF DeleteAsks, Alive, Live
  <2>. QED
    BY <1>0, <1>a, <1>b, <1>5, <2>1 DEF DeleteAsks, VictimsAreEnded
<1>6. ASSUME NEW d \in Deleters, NEW i \in 1..used, DeleteRemoves(d, i)
      PROVE  VictimsAreEnded'
  BY <1>0, <1>a, <1>b, <1>6
     DEF DeleteRemoves, VictimsAreEnded, delVars, volatile, InStep
<1>7. ASSUME NEW d \in Deleters, DeleteOne(d)
      PROVE  VictimsAreEnded'
  <2>1. Drops(victims[d])
    BY <1>7, DeleteDrops DEF DeleteOne
  <2>2. victims[d] \cap DOMAIN sessions' = {}
    BY <2>1 DEF Drops
  <2>. QED
    BY <1>0, <1>a, <1>b, <1>7, <2>2 DEF DeleteOne, VictimsAreEnded
<1>8. ASSUME NEW d \in Deleters, DeleteAll(d)
      PROVE  VictimsAreEnded'
  <2>. DEFINE ended == DOMAIN sessions \ Alive
  <2>1. Drops(ended)
    BY <1>8, DeleteDrops DEF DeleteAll, Alive, Live
  <2>2. ended \cap DOMAIN sessions' = {} /\ ended \subseteq 1..used
        /\ ended \cap Alive = {}
    BY <1>a, <2>1 DEF Drops
  <2>3. delPc' = [delPc EXCEPT ![d] = "files"] /\ victims' = [victims EXCEPT ![d] = ended]
        /\ up' = up /\ up /\ used' = used
    BY <1>8 DEF DeleteAll, Alive, Live
  <2>. HIDE DEF ended
  <2>. QED
    BY <1>0, <1>a, <1>b, <2>2, <2>3 DEF VictimsAreEnded
<1>9. ASSUME NEW d \in Deleters, DeleteFails(d)
      PROVE  VictimsAreEnded'
  BY <1>0, <1>a, <1>b, <1>9
     DEF DeleteFails, VictimsAreEnded, delVars, volatile, InStep
<1>10. CASE Crash
  BY <1>0, <1>a, <1>b, <1>10
     DEF Crash, VictimsAreEnded, delVars, volatile, InStep
<1>11. CASE Boot
  BY <1>0, <1>a, <1>b, <1>11
     DEF Boot, VictimsAreEnded, delVars, volatile, InStep
<1>12. CASE /\ UNCHANGED <<sessions, used>>
            /\ UNCHANGED <<delPc, victims>>
            /\ UNCHANGED up
  BY <1>12, <1>0, <1>a, <1>b DEF VictimsAreEnded
<1>. QED
  BY <1>1, <1>2, <1>3, <1>4, <1>5, <1>6, <1>7, <1>8, <1>9, <1>10, <1>11,
     <1>12, StoreSteps, RequestSteps, UpSteps

(* A session that is live stays so, but for an end and a repair.           *)
LEMMA OnlyEndsEnd ==
  ASSUME TypeOK, Stored, InStep, VictimsAreEnded, [Next]_vars,
         ~DetachEnds, ~RollEnds, ~Boot
  PROVE  Alive \subseteq Alive'
<1>1. CASE UNCHANGED <<sessions, used>>
  BY <1>1 DEF Alive
<1>2. CASE AttachStarts
  <2>1. Adds
    BY <1>2, StartAdds DEF AttachStarts, TypeOK, NoId
  <2>. QED
    BY <2>1 DEF Adds, Alive
<1>3. CASE RollContinues
  <2>1. Adds
    BY <1>3, StartAdds DEF RollContinues, TypeOK
  <2>. QED
    BY <2>1 DEF Adds, Alive
<1>4. ASSUME NEW d \in Deleters, DeleteOne(d)
      PROVE  Alive \subseteq Alive'
  <2>1. Drops(victims[d]) /\ victims[d] \cap Alive = {}
    BY <1>4, DeleteDrops DEF DeleteOne, VictimsAreEnded
  <2>. QED
    BY <2>1 DEF Drops, Alive
<1>5. ASSUME NEW d \in Deleters, DeleteAll(d)
      PROVE  Alive \subseteq Alive'
  <2>1. Drops(DOMAIN sessions \ Alive)
    BY <1>5, DeleteDrops DEF DeleteAll, Alive, Live
  <2>. QED
    BY <2>1 DEF Drops, Alive
<1>. QED
  BY <1>1, <1>2, <1>3, <1>4, <1>5, StoreSteps

(* The history only grows, but for the strays that a boot repairs.         *)
LEMMA HistoryGrows ==
  ASSUME [Next]_vars
  PROVE  suspects \subseteq suspects' /\ orphans \subseteq orphans'
         /\ (~Boot => strays \subseteq strays')
BY HistorySteps
   DEF AttachFails, DetachEnds, EndFails, PumpReads, RollEnds, RollFails, RollSwitches,
       Crash, Boot, DeleteFails

-----------------------------------------------------------------------------
(* What is in the logs.                                                    *)

(* A file grows past the limit only if its rollover failed. *)
LEMMA CappedStep ==
  ASSUME TypeOK, Stored, InStep, WriterCounts, LogIsCapped, [Next]_vars
  PROVE  LogIsCapped'
<1>0. suspects \subseteq suspects' /\ MaxLog \in Nat \ {0}
  BY HistoryGrows, BoundAssumption
<1>1. CASE PumpOpens
  BY <1>0, <1>1 DEF PumpOpens, With, LogIsCapped
<1>2. CASE PumpReads
  <2>1. fd = sess /\ files \in [DOMAIN files -> Nat]
    BY <1>2 DEF PumpReads, InStep, Stored
  <2>2. sess \notin suspects => sess \in DOMAIN files /\ files[sess] < MaxLog
    BY <1>2 DEF PumpReads, WriterCounts, LogIsCounted, SizeOf
  <2>3. files' = files \/ (sess \in DOMAIN files /\ files' = [files EXCEPT ![sess] = files[sess] + 1])
    BY <1>2, <2>1 DEF PumpReads
  <2>. QED
    BY <1>0, <2>1, <2>2, <2>3 DEF LogIsCapped
<1>3. CASE RollReopens
  BY <1>0, <1>3 DEF RollReopens, With, LogIsCapped
<1>4. ASSUME NEW d \in Deleters, NEW i \in 1..used, DeleteRemoves(d, i)
      PROVE  LogIsCapped'
  BY <1>0, <1>4 DEF DeleteRemoves, Without, LogIsCapped
<1>5. CASE UNCHANGED files
  BY <1>5, <1>0 DEF LogIsCapped
<1>. QED
  BY <1>1, <1>2, <1>3, <1>4, <1>5, FileSteps

(* A recorded length is the length of the file, which does not change. *)
LEMMA LengthStep ==
  ASSUME TypeOK, Stored, InStep, WriterCounts, VictimsAreEnded, LeftIsEnded,
         LengthRecorded, [Next]_vars
  PROVE  LengthRecorded'
<1>0. suspects \subseteq suspects'
  BY HistoryGrows
<1> USE DEF LengthRecorded, SizeOf
<1>1. CASE AttachStarts
  <2>1. startSession(NoId) /\ NoId \in 0..used
    BY <1>1 DEF AttachStarts, TypeOK, NoId
  <2>2. Adds
    BY <2>1, StartAdds
  <2>. HIDE DEF startSession
  <2>. QED
    BY <1>0, <1>1, <2>2 DEF AttachStarts, Adds
<1>2. CASE DetachEnds
  <2>1. snap \notin suspects => byteLen = SizeOf(snap)
    BY <1>2 DEF DetachEnds, WriterCounts, LogIsCounted, LeftIsEnded
  <2>2. CASE EndSession(snap, byteLen)
    <3>1. Ends(snap, byteLen)
      BY <2>2, EndChangesOne DEF TypeOK
    <3>. QED
      BY <1>0, <1>2, <2>1, <3>1 DEF DetachEnds, Ends
  <2>3. CASE EndFails(snap)
    BY <1>0, <1>2, <2>3 DEF DetachEnds, EndFails
  <2>. QED
    BY <1>2, <2>2, <2>3 DEF DetachEnds
<1>3. CASE PumpOpens
  BY <1>0, <1>3 DEF PumpOpens, With, WriterCounts, LogIsCounted, Alive
<1>4. CASE PumpReads
  <2>1. fd = sess
    BY <1>4 DEF PumpReads, InStep
  <2>2. sess \notin suspects => sess \in Alive
    BY <1>4 DEF PumpReads, WriterCounts, LogIsCounted
  <2>3. \A i \in DOMAIN sessions : i # sess =>
          (i \in DOMAIN files <=> i \in DOMAIN files') /\ (i \in DOMAIN files => files'[i] = files[i])
    BY <1>4, <2>1 DEF PumpReads
  <2>4. sessions' = sessions
    BY <1>4 DEF PumpReads
  <2>. QED
    BY <1>0, <2>2, <2>3, <2>4 DEF Alive
<1>5. CASE RollEnds
  <2>1. sess \notin suspects => byteLen = SizeOf(sess)
    BY <1>5 DEF RollEnds, WriterCounts, LogIsCounted
  <2>2. CASE EndSession(sess, byteLen)
    <3>1. Ends(sess, byteLen)
      BY <2>2, EndChangesOne DEF TypeOK
    <3>. QED
      BY <1>0, <1>5, <2>1, <3>1 DEF RollEnds, Ends
  <2>3. CASE EndFails(sess)
    BY <1>0, <1>5, <2>3 DEF RollEnds, EndFails
  <2>. QED
    BY <1>5, <2>2, <2>3 DEF RollEnds
<1>6. CASE RollContinues
  <2>1. startSession(sess) /\ sess \in 0..used
    BY <1>6 DEF RollContinues, TypeOK, NoId
  <2>2. Adds
    BY <2>1, StartAdds
  <2>. HIDE DEF startSession
  <2>. QED
    BY <1>0, <1>6, <2>2 DEF RollContinues, Adds
<1>7. CASE RollReopens
  BY <1>0, <1>7 DEF RollReopens, With, WriterCounts, LogIsCounted, Alive
<1>8. ASSUME NEW d \in Deleters, NEW i \in 1..used, DeleteRemoves(d, i)
      PROVE  LengthRecorded'
  <2>1. i \notin DOMAIN sessions
    BY <1>8 DEF DeleteRemoves, VictimsAreEnded
  <2>. QED
    BY <1>0, <1>8, <2>1 DEF DeleteRemoves, Without
<1>9. ASSUME NEW d \in Deleters, DeleteOne(d)
      PROVE  LengthRecorded'
  <2>1. Drops(victims[d])
    BY <1>9, DeleteDrops DEF DeleteOne
  <2>. QED
    BY <1>0, <1>9, <2>1 DEF DeleteOne, Drops
<1>10. ASSUME NEW d \in Deleters, DeleteAll(d)
      PROVE  LengthRecorded'
  <2>. DEFINE ended == DOMAIN sessions \ Alive
  <2>1. Drops(ended)
    BY <1>10, DeleteDrops DEF DeleteAll, Alive, Live
  <2>. QED
    BY <1>0, <1>10, <2>1 DEF DeleteAll, Drops
<1>11. CASE Boot
  <2>1. suspects' = suspects /\ files' = files
    BY <1>11 DEF Boot
  <2>2. CASE UNCHANGED sessions /\ strays' = strays \cup Stale
    BY <2>1, <2>2
  <2>3. CASE ~(UNCHANGED sessions /\ strays' = strays \cup Stale)
    <3>1. Repairs
      BY <1>11, <2>3, RepairEnds
    <3>. QED
      BY <2>1, <3>1 DEF Repairs, Alive
  <2>. QED
    BY <2>2, <2>3
<1>12. CASE UNCHANGED <<sessions, used>> /\ UNCHANGED files
  BY <1>12, <1>0
<1>. QED
  BY <1>1, <1>2, <1>3, <1>4, <1>5, <1>6, <1>7, <1>8, <1>9, <1>10, <1>11,
     <1>12, StoreSteps, FileSteps

(* A file outlives its record only while a request is about to remove it. *)
LEMMA OrphansStep ==
  ASSUME TypeOK, Stored, InStep, WriterCounts, VictimsAreEnded, NoOrphanLogs,
         [Next]_vars
  PROVE  NoOrphanLogs'
<1>0. orphans \subseteq orphans'
  BY HistoryGrows
<1> USE DEF NoOrphanLogs, volatile, delVars
<1>1. CASE AttachStarts
  <2>1. startSession(NoId) /\ NoId \in 0..used
    BY <1>1 DEF AttachStarts, TypeOK, NoId
  <2>2. Adds
    BY <2>1, StartAdds
  <2>. HIDE DEF startSession
  <2>. QED
    BY <1>0, <1>1, <2>2 DEF AttachStarts, Adds
<1>2. CASE DetachEnds
  <2>1. CASE EndSession(snap, byteLen) /\ UNCHANGED <<strays, suspects>>
    <3>1. snap \in 0..used /\ byteLen \in Nat
      BY DEF TypeOK
    <3>2. Ends(snap, byteLen)
      BY <2>1, <3>1, EndChangesOne
    <3>. QED
      BY <1>0, <1>2, <2>1, <3>2 DEF DetachEnds, Ends
  <2>2. CASE EndFails(snap)
    BY <1>0, <1>2, <2>2 DEF DetachEnds, EndFails
  <2>. QED
    BY <1>0, <1>2, <2>1, <2>2 DEF DetachEnds
<1>3. CASE PumpOpens
  BY <1>0, <1>3 DEF PumpOpens, With, WriterCounts, LogIsCounted, Alive
<1>4. CASE PumpReads
  BY <1>0, <1>4 DEF PumpReads, TypeOK
<1>5. CASE RollEnds
  <2>1. CASE EndSession(sess, byteLen) /\ UNCHANGED <<strays, suspects>>
    <3>1. sess \in 0..used /\ byteLen \in Nat
      BY DEF TypeOK
    <3>2. Ends(sess, byteLen)
      BY <2>1, <3>1, EndChangesOne
    <3>. QED
      BY <1>0, <1>5, <2>1, <3>2 DEF RollEnds, Ends
  <2>2. CASE EndFails(sess)
    BY <1>0, <1>5, <2>2 DEF RollEnds, EndFails
  <2>. QED
    BY <1>0, <1>5, <2>1, <2>2 DEF RollEnds
<1>6. CASE RollContinues
  <2>1. startSession(sess) /\ sess \in 0..used
    BY <1>6 DEF RollContinues, TypeOK, NoId
  <2>2. Adds
    BY <2>1, StartAdds
  <2>. HIDE DEF startSession
  <2>. QED
    BY <1>0, <1>6, <2>2 DEF RollContinues, Adds
<1>7. CASE RollReopens
  BY <1>0, <1>7 DEF RollReopens, With, WriterCounts, LogIsCounted, Alive
<1>8. ASSUME NEW d \in Deleters, NEW i \in 1..used, DeleteAsks(d, i)
      PROVE  NoOrphanLogs'
  BY <1>0, <1>8 DEF DeleteAsks, TypeOK
<1>9. ASSUME NEW d \in Deleters, NEW i \in 1..used, DeleteRemoves(d, i)
      PROVE  NoOrphanLogs'
  BY <1>0, <1>9 DEF DeleteRemoves, Without, TypeOK
<1>10. ASSUME NEW d \in Deleters, DeleteOne(d)
      PROVE  NoOrphanLogs'
  <2>1. Drops(victims[d])
    BY <1>10, DeleteDrops DEF DeleteOne
  <2>. QED
    BY <1>0, <1>10, <2>1 DEF TypeOK, VictimsAreEnded, DeleteOne, Drops
<1>11. ASSUME NEW d \in Deleters, DeleteAll(d)
      PROVE  NoOrphanLogs'
  <2>. DEFINE ended == DOMAIN sessions \ Alive
  <2>1. Drops(ended)
    BY <1>11, DeleteDrops DEF DeleteAll, Alive, Live
  <2>2. DOMAIN sessions' = DOMAIN sessions \ ended
    BY <2>1 DEF Drops
  <2>3. delPc' = [delPc EXCEPT ![d] = "files"] /\ victims' = [victims EXCEPT ![d] = ended]
        /\ delPc[d] = "idle" /\ files' = files
    BY <1>11 DEF DeleteAll, Alive, Live
  <2>. HIDE DEF ended
  <2>. QED
    BY <1>0, <2>2, <2>3 DEF TypeOK
<1>12. ASSUME NEW d \in Deleters, DeleteFails(d)
      PROVE  NoOrphanLogs'
  BY <1>0, <1>12 DEF DeleteFails, TypeOK
<1>13. CASE Crash
  BY <1>0, <1>13 DEF Crash, TypeOK
<1>14. CASE Boot
  <2>1. UNCHANGED <<files, delPc, victims>>
    BY <1>14 DEF Boot
  <2>2. DOMAIN sessions' = DOMAIN sessions
    BY <1>14 DEF Boot
  <2>. QED
    BY <1>0, <2>1, <2>2
<1>15. CASE /\ UNCHANGED <<sessions, used>>
            /\ UNCHANGED files
            /\ UNCHANGED <<delPc, victims>>
  BY <1>15, <1>0
<1>. QED
  BY <1>1, <1>2, <1>3, <1>4, <1>5, <1>6, <1>7, <1>8, <1>9, <1>10, <1>11,
     <1>12, <1>13, <1>14, <1>15, StoreSteps, FileSteps, RequestSteps

-----------------------------------------------------------------------------
(* Which sessions are live.                                                *)

(* A live session has no length recorded. *)
LEMMA UncountedStep ==
  ASSUME TypeOK, Stored, InStep, WriterCounts, LiveIsUncounted, [Next]_vars
  PROVE  LiveIsUncounted'
<1> USE DEF LiveIsUncounted, Alive
<1>1. CASE AttachStarts
  <2>1. startSession(NoId) /\ NoId \in 0..used
    BY <1>1 DEF AttachStarts, TypeOK, NoId
  <2>2. Adds
    BY <2>1, StartAdds
  <2>. HIDE DEF startSession
  <2>. QED
    BY <1>1, <2>2 DEF AttachStarts, Adds
<1>2. CASE DetachEnds
  <2>1. CASE EndSession(snap, byteLen) /\ UNCHANGED <<strays, suspects>>
    <3>1. snap \in 0..used /\ byteLen \in Nat
      BY DEF TypeOK
    <3>2. Ends(snap, byteLen)
      BY <2>1, <3>1, EndChangesOne
    <3>. QED
      BY <1>2, <2>1, <3>2 DEF DetachEnds, Ends
  <2>2. CASE EndFails(snap)
    BY <1>2, <2>2 DEF DetachEnds, EndFails
  <2>. QED
    BY <1>2, <2>1, <2>2 DEF DetachEnds
<1>3. CASE RollEnds
  <2>1. CASE EndSession(sess, byteLen) /\ UNCHANGED <<strays, suspects>>
    <3>1. sess \in 0..used /\ byteLen \in Nat
      BY DEF TypeOK
    <3>2. Ends(sess, byteLen)
      BY <2>1, <3>1, EndChangesOne
    <3>. QED
      BY <1>3, <2>1, <3>2 DEF RollEnds, Ends
  <2>2. CASE EndFails(sess)
    BY <1>3, <2>2 DEF RollEnds, EndFails
  <2>. QED
    BY <1>3, <2>1, <2>2 DEF RollEnds
<1>4. CASE RollContinues
  <2>1. startSession(sess) /\ sess \in 0..used
    BY <1>4 DEF RollContinues, TypeOK, NoId
  <2>2. Adds
    BY <2>1, StartAdds
  <2>. HIDE DEF startSession
  <2>. QED
    BY <1>4, <2>2 DEF RollContinues, Adds
<1>5. ASSUME NEW d \in Deleters, DeleteOne(d)
      PROVE  LiveIsUncounted'
  <2>1. Drops(victims[d])
    BY <1>5, DeleteDrops DEF DeleteOne
  <2>. QED
    BY <1>5, <2>1 DEF DeleteOne, Drops
<1>6. ASSUME NEW d \in Deleters, DeleteAll(d)
      PROVE  LiveIsUncounted'
  <2>. DEFINE ended == DOMAIN sessions \ Alive
  <2>1. Drops(ended)
    BY <1>6, DeleteDrops DEF DeleteAll, Alive, Live
  <2>. QED
    BY <1>6, <2>1 DEF DeleteAll, Drops
<1>7. CASE Boot
  <2>1. CASE UNCHANGED sessions /\ strays' = strays \cup Stale
    BY <1>7, <2>1 DEF Boot, Stale
  <2>2. CASE ~(UNCHANGED sessions /\ strays' = strays \cup Stale)
    <3>1. Repairs
      BY <1>7, <2>2, RepairEnds
    <3>2. UNCHANGED <<used, files, volatile, crashes, suspects, orphans>> /\ up'
      BY <1>7 DEF Boot
    <3>. QED
      BY <3>1, <3>2 DEF Repairs
  <2>. QED
    BY <2>1, <2>2
<1>8. CASE UNCHANGED <<sessions, used>>
  BY <1>8
<1>. QED
  BY <1>1, <1>2, <1>3, <1>4, <1>5, <1>6, <1>7, <1>8, StoreSteps

(* A rollover ends its session before it goes on to the next. *)
LEMMA LeftStep ==
  ASSUME TypeOK, Stored, InStep, WriterCounts, LeftIsEnded, [Next]_vars
  PROVE  LeftIsEnded'
<1>0. \A j \in 0..used : j \in Alive' => j \in Alive
  <2>1. used + 1 \notin 0..used
    BY UsedGrows
  <2>. QED
    BY <2>1, NothingRevives DEF OnlyStartsAdd
<1>a. /\ sess \in 0..used /\ snap \in 0..used
      /\ suspects \subseteq suspects'
      /\ up => strays \subseteq strays'
  BY HistoryGrows DEF TypeOK, Boot
<1>1. CASE AttachStarts
  BY <1>0, <1>a, <1>1
     DEF AttachStarts, mdVars, pumpVars, volatile, history, LeftIsEnded, InStep
<1>2. CASE Attach
  BY <1>0, <1>a, <1>2
     DEF Attach, mdVars, pumpVars, volatile, history, LeftIsEnded, InStep
<1>3. CASE AttachFails
  BY <1>0, <1>a, <1>3
     DEF AttachFails, mdVars, pumpVars, volatile, history, LeftIsEnded, InStep
<1>4. CASE DetachBegins
  BY <1>0, <1>a, <1>4
     DEF DetachBegins, mdVars, pumpVars, volatile, history, LeftIsEnded, InStep
<1>5. CASE DetachEnds
  BY <1>0, <1>a, <1>5
     DEF DetachEnds, mdVars, pumpVars, volatile, history, LeftIsEnded, InStep
<1>6. CASE PumpOpens
  BY <1>0, <1>a, <1>6
     DEF PumpOpens, mdVars, pumpVars, volatile, history, LeftIsEnded, InStep
<1>7. CASE PumpChecks
  BY <1>0, <1>a, <1>7
     DEF PumpChecks, mdVars, pumpVars, volatile, history, LeftIsEnded, InStep
<1>8. CASE PumpReadsNothing
  BY <1>0, <1>a, <1>8
     DEF PumpReadsNothing, mdVars, pumpVars, volatile, history, LeftIsEnded,
         InStep
<1>9. CASE PumpReads
  BY <1>0, <1>a, <1>9
     DEF PumpReads, mdVars, pumpVars, volatile, history, LeftIsEnded, InStep
<1>10. CASE RollEnds
  <2>1. sess \in strays' \/ sess \notin Alive'
    <3>1. CASE EndSession(sess, byteLen)
      <4>1. Ends(sess, byteLen)
        BY <3>1, EndChangesOne DEF TypeOK
      <4>. QED
        BY <4>1 DEF Ends, Alive
    <3>2. CASE EndFails(sess)
      BY <3>2 DEF EndFails, Alive, Live
    <3>. QED
      BY <1>10, <3>1, <3>2 DEF RollEnds
  <2>2. UNCHANGED <<mdPc, sess, snap>> /\ pumpPc' = "continue"
    BY <1>10 DEF RollEnds, mdVars
  <2>. QED
    BY <1>0, <1>a, <1>10, <2>1, <2>2 DEF LeftIsEnded, RollEnds
<1>11. CASE RollContinues
  BY <1>0, <1>a, <1>11
     DEF RollContinues, mdVars, pumpVars, volatile, history, LeftIsEnded, InStep
<1>12. CASE RollFails
  BY <1>0, <1>a, <1>12
     DEF RollFails, mdVars, pumpVars, volatile, history, LeftIsEnded, InStep
<1>13. CASE RollSwitches
  BY <1>0, <1>a, <1>13
     DEF RollSwitches, mdVars, pumpVars, volatile, history, LeftIsEnded, InStep
<1>14. CASE RollReopens
  BY <1>0, <1>a, <1>14
     DEF RollReopens, mdVars, pumpVars, volatile, history, LeftIsEnded, InStep
<1>15. CASE Crash
  BY <1>0, <1>a, <1>15
     DEF Crash, mdVars, pumpVars, volatile, history, LeftIsEnded, InStep
<1>16. CASE Boot
  BY <1>0, <1>a, <1>16
     DEF Boot, mdVars, pumpVars, volatile, history, LeftIsEnded, InStep
<1>17. CASE /\ UNCHANGED <<pumpPc, sess, byteLen, fileBytes>>
            /\ UNCHANGED <<mdPc, attached>>
            /\ UNCHANGED <<sess, snap, fresh, fd>>
            /\ UNCHANGED up
  BY <1>17, <1>0, <1>a DEF LeftIsEnded, Boot, InStep
<1>. QED
  BY <1>1, <1>2, <1>3, <1>4, <1>5, <1>6, <1>7, <1>8, <1>9, <1>10, <1>11,
     <1>12, <1>13, <1>14, <1>15, <1>16, <1>17, PumpSteps, MdSteps, IdSteps,
     UpSteps

(* OneLive in terms of Alive: what is live in a process that runs is the   *)
(* board's, about to be, or a stray.                                       *)
OneLiveHere ==
  \A j \in Alive : up =>
    \/ j \in strays
    \/ j = fresh /\ (mdPc = "started" \/ pumpPc = "switch")
    \/ j = sess /\ (attached \/ mdPc = "draining")

(* A live session is the board's, about to be, or a stray. *)
LEMMA OneLiveHereStep ==
  ASSUME TypeOK, Stored, InStep, WriterCounts, LeftIsEnded, OneLiveHere,
         [Next]_vars
  PROVE  OneLiveHere'
<1>0. \A j \in Alive' \ Alive :
         j = fresh' /\ j = used + 1 /\ fresh = NoId /\ fresh' # NoId
  BY NothingRevives DEF OnlyStartsAdd
<1>a. /\ up => strays \subseteq strays'
      /\ \A j \in Alive : up =>
           \/ j \in strays
           \/ j = fresh /\ (mdPc = "started" \/ pumpPc = "switch")
           \/ j = sess /\ (attached \/ mdPc = "draining")
  BY HistoryGrows DEF OneLiveHere, Boot
<1>1. CASE AttachStarts
  BY <1>0, <1>a, <1>1
     DEF AttachStarts, mdVars, pumpVars, volatile, history, OneLiveHere, InStep,
         NoId
<1>2. CASE Attach
  BY <1>0, <1>a, <1>2
     DEF Attach, mdVars, pumpVars, volatile, history, OneLiveHere, InStep, NoId
<1>3. CASE AttachFails
  BY <1>0, <1>a, <1>3
     DEF AttachFails, mdVars, pumpVars, volatile, history, OneLiveHere, InStep,
         NoId
<1>4. CASE DetachBegins
  BY <1>0, <1>a, <1>4
     DEF DetachBegins, mdVars, pumpVars, volatile, history, OneLiveHere, InStep,
         NoId
<1>5. CASE DetachEnds
  <2>1. sess \in strays' \/ sess \notin Alive'
    <3>1. CASE snap # sess
      BY <1>a, <1>5, <3>1 DEF DetachEnds, LeftIsEnded, Boot, InStep
    <3>2. CASE snap = sess /\ EndSession(snap, byteLen)
      <4>1. Ends(sess, byteLen)
        BY <3>2, EndChangesOne DEF TypeOK
      <4>. QED
        BY <4>1 DEF Ends, Alive
    <3>3. CASE snap = sess /\ EndFails(snap)
      BY <3>3 DEF EndFails, Alive, Live
    <3>. QED
      BY <1>5, <3>1, <3>2, <3>3 DEF DetachEnds
  <2>. QED
    BY <1>0, <1>a, <1>5, <2>1 DEF DetachEnds, OneLiveHere, InStep, NoId
<1>6. CASE PumpOpens
  BY <1>0, <1>a, <1>6
     DEF PumpOpens, mdVars, pumpVars, volatile, history, OneLiveHere, InStep,
         NoId
<1>7. CASE PumpChecks
  BY <1>0, <1>a, <1>7
     DEF PumpChecks, mdVars, pumpVars, volatile, history, OneLiveHere, InStep,
         NoId
<1>8. CASE PumpReadsNothing
  BY <1>0, <1>a, <1>8
     DEF PumpReadsNothing, mdVars, pumpVars, volatile, history, OneLiveHere,
         InStep, NoId
<1>9. CASE PumpReads
  BY <1>0, <1>a, <1>9
     DEF PumpReads, mdVars, pumpVars, volatile, history, OneLiveHere, InStep,
         NoId
<1>10. CASE RollEnds
  BY <1>0, <1>a, <1>10
     DEF RollEnds, mdVars, pumpVars, volatile, history, OneLiveHere, InStep,
         NoId
<1>11. CASE RollContinues
  BY <1>0, <1>a, <1>11
     DEF RollContinues, mdVars, pumpVars, volatile, history, OneLiveHere, InStep,
         NoId
<1>12. CASE RollFails
  BY <1>0, <1>a, <1>12
     DEF RollFails, mdVars, pumpVars, volatile, history, OneLiveHere, InStep,
         NoId
<1>13. CASE RollSwitches
  <2>1. sess \in Alive => sess \in strays
    BY <1>13 DEF RollSwitches, LeftIsEnded
  <2>. QED
    BY <1>0, <1>a, <1>13, <2>1 DEF RollSwitches, OneLiveHere, InStep, NoId
<1>14. CASE RollReopens
  BY <1>0, <1>a, <1>14
     DEF RollReopens, mdVars, pumpVars, volatile, history, OneLiveHere, InStep,
         NoId
<1>15. CASE Crash
  BY <1>0, <1>a, <1>15
     DEF Crash, mdVars, pumpVars, volatile, history, OneLiveHere, InStep, NoId
<1>16. CASE Boot
  <2>1. CASE UNCHANGED sessions /\ strays' = strays \cup Stale
    BY <2>1 DEF OneLiveHere, Stale, Live, Alive
  <2>2. CASE ~(UNCHANGED sessions /\ strays' = strays \cup Stale)
    <3>1. Repairs
      BY <1>16, <2>2, RepairEnds
    <3>. QED
      BY <3>1 DEF Repairs, OneLiveHere, Alive
  <2>. QED
    BY <2>1, <2>2
<1>17. CASE /\ UNCHANGED <<pumpPc, sess, byteLen, fileBytes>>
            /\ UNCHANGED <<mdPc, attached>>
            /\ UNCHANGED <<sess, snap, fresh, fd>>
            /\ UNCHANGED up
  BY <1>17, <1>0, <1>a DEF OneLiveHere, Boot
<1>. QED
  BY <1>1, <1>2, <1>3, <1>4, <1>5, <1>6, <1>7, <1>8, <1>9, <1>10, <1>11,
     <1>12, <1>13, <1>14, <1>15, <1>16, <1>17, PumpSteps, MdSteps, IdSteps,
     UpSteps

(* A session that was just started is live and has no file. *)
LEMMA FreshStep ==
  ASSUME TypeOK, Stored, InStep, VictimsAreEnded, WriterCounts, [Next]_vars
  PROVE  FreshIsLive'
<1>0. fresh # NoId \/ pumpPc' \notin {"none", "continue"} => Alive \subseteq Alive'
  BY OnlyEndsEnd DEF InStep, DetachEnds, RollEnds, Boot, volatile
<1>a. /\ suspects \subseteq suspects' /\ MaxLog \in Nat \ {0}
      /\ sess \in 0..used /\ byteLen \in Nat /\ fileBytes \in Nat /\ used \in Nat
      /\ \A d \in Deleters : victims[d] \cap Alive = {}
  BY HistoryGrows, BoundAssumption DEF TypeOK, VictimsAreEnded
<1>1. CASE AttachStarts
  <2>1. Adds
    BY <1>1, StartAdds DEF AttachStarts, TypeOK, NoId
  <2>2. files' = files
    BY <1>1 DEF AttachStarts
  <2>. QED
    BY <2>1, <2>2 DEF Adds, FreshIsLive, Alive
<1>2. CASE Attach
  BY <1>0, <1>a, <1>2
     DEF Attach, mdVars, pumpVars, volatile, history, WriterCounts, FreshIsLive,
         InStep, NoId
<1>3. CASE AttachFails
  BY <1>0, <1>a, <1>3
     DEF AttachFails, mdVars, pumpVars, volatile, history, WriterCounts,
         FreshIsLive, InStep, NoId
<1>4. CASE DetachBegins
  BY <1>0, <1>a, <1>4
     DEF DetachBegins, mdVars, pumpVars, volatile, history, WriterCounts,
         FreshIsLive, InStep, NoId
<1>5. CASE DetachEnds
  BY <1>0, <1>a, <1>5
     DEF DetachEnds, mdVars, pumpVars, volatile, history, WriterCounts,
         FreshIsLive, InStep, NoId
<1>6. CASE PumpOpens
  BY <1>0, <1>a, <1>6
     DEF PumpOpens, mdVars, pumpVars, volatile, history, WriterCounts,
         FreshIsLive, InStep, NoId, With
<1>7. CASE PumpReads
  BY <1>0, <1>a, <1>7
     DEF PumpReads, mdVars, pumpVars, volatile, history, WriterCounts,
         FreshIsLive, InStep, NoId
<1>8. CASE RollEnds
  BY <1>0, <1>a, <1>8
     DEF RollEnds, mdVars, pumpVars, volatile, history, WriterCounts,
         FreshIsLive, InStep, NoId
<1>9. CASE RollContinues
  <2>1. Adds
    BY <1>9, StartAdds DEF RollContinues, TypeOK
  <2>2. files' = files
    BY <1>9 DEF RollContinues
  <2>. QED
    BY <2>1, <2>2 DEF Adds, FreshIsLive, Alive
<1>10. CASE RollFails
  BY <1>0, <1>a, <1>10
     DEF RollFails, mdVars, pumpVars, volatile, history, WriterCounts,
         FreshIsLive, InStep, NoId
<1>11. CASE RollSwitches
  BY <1>0, <1>a, <1>11
     DEF RollSwitches, mdVars, pumpVars, volatile, history, WriterCounts,
         FreshIsLive, InStep, NoId
<1>12. CASE RollReopens
  BY <1>0, <1>a, <1>12
     DEF RollReopens, mdVars, pumpVars, volatile, history, WriterCounts,
         FreshIsLive, InStep, NoId, With
<1>13. ASSUME NEW d \in Deleters, NEW i \in 1..used, DeleteRemoves(d, i)
      PROVE  FreshIsLive'
  BY <1>0, <1>a, <1>13
     DEF DeleteRemoves, mdVars, pumpVars, volatile, history, WriterCounts,
         FreshIsLive, InStep, NoId, Without
<1>14. ASSUME NEW d \in Deleters, DeleteOne(d)
      PROVE  FreshIsLive'
  BY <1>0, <1>a, <1>14
     DEF DeleteOne, mdVars, pumpVars, volatile, history, WriterCounts,
         FreshIsLive, InStep, NoId
<1>15. ASSUME NEW d \in Deleters, DeleteAll(d)
      PROVE  FreshIsLive'
  BY <1>0, <1>a, <1>15
     DEF DeleteAll, mdVars, pumpVars, volatile, history, WriterCounts,
         FreshIsLive, InStep, NoId
<1>16. CASE Crash
  BY <1>0, <1>a, <1>16
     DEF Crash, mdVars, pumpVars, volatile, history, WriterCounts, FreshIsLive,
         InStep, NoId
<1>17. CASE Boot
  BY <1>0, <1>a, <1>17
     DEF Boot, mdVars, pumpVars, volatile, history, WriterCounts, FreshIsLive,
         InStep, NoId
<1>18. CASE /\ UNCHANGED <<sessions, used>>
            /\ UNCHANGED files
            /\ UNCHANGED <<sess, snap, fresh, fd>>
            /\ UNCHANGED up
  BY <1>18, <1>0, <1>a DEF WriterCounts, FreshIsLive, Alive
<1>. QED
  BY <1>1, <1>2, <1>3, <1>4, <1>5, <1>6, <1>7, <1>8, <1>9, <1>10, <1>11,
     <1>12, <1>13, <1>14, <1>15, <1>16, <1>17, <1>18, StoreSteps, FileSteps,
     IdSteps, UpSteps

(* The pump counts what it writes into the file of a live session. *)
LEMMA CountedStep ==
  ASSUME TypeOK, Stored, InStep, VictimsAreEnded, WriterCounts, [Next]_vars
  PROVE  LogIsCounted'
<1>0. fresh # NoId \/ pumpPc' \notin {"none", "continue"} => Alive \subseteq Alive'
  BY OnlyEndsEnd DEF InStep, DetachEnds, RollEnds, Boot, volatile
<1>a. /\ suspects \subseteq suspects' /\ MaxLog \in Nat \ {0}
      /\ sess \in 0..used /\ byteLen \in Nat /\ fileBytes \in Nat /\ used \in Nat
      /\ \A d \in Deleters : victims[d] \cap Alive = {}
  BY HistoryGrows, BoundAssumption DEF TypeOK, VictimsAreEnded
<1>1. CASE AttachStarts
  BY <1>0, <1>a, <1>1
     DEF AttachStarts, mdVars, pumpVars, volatile, history, WriterCounts,
         LogIsCounted, FreshIsLive, InStep, SizeOf, NoId
<1>2. CASE Attach
  BY <1>0, <1>a, <1>2
     DEF Attach, mdVars, pumpVars, volatile, history, WriterCounts, LogIsCounted,
         FreshIsLive, InStep, SizeOf, NoId
<1>3. CASE DetachEnds
  BY <1>0, <1>a, <1>3
     DEF DetachEnds, mdVars, pumpVars, volatile, history, WriterCounts,
         LogIsCounted, FreshIsLive, InStep, SizeOf, NoId
<1>4. CASE PumpOpens
  <2>1. sess \in Alive /\ sess \notin DOMAIN files /\ byteLen = 0
    BY <1>4 DEF PumpOpens, WriterCounts, LogIsCounted
  <2>2. Alive' = Alive /\ UNCHANGED <<sess, byteLen, suspects>>
    BY <1>4 DEF PumpOpens, Alive, mdVars, history
  <2>3. CASE files' = files /\ pumpPc' = "exited"
    BY <2>1, <2>2, <2>3 DEF LogIsCounted, SizeOf
  <2>4. CASE files' = With(files, sess, 0) /\ fileBytes' = files'[sess] /\ pumpPc' = "check"
    <3>1. sess \in DOMAIN files' /\ files'[sess] = 0
      BY <2>4 DEF With
    <3>. QED
      BY <1>a, <2>1, <2>2, <2>4, <3>1 DEF LogIsCounted, SizeOf
  <2>. QED
    BY <1>4, <2>1, <2>3, <2>4 DEF PumpOpens
<1>5. CASE PumpChecks
  BY <1>0, <1>a, <1>5
     DEF PumpChecks, mdVars, pumpVars, volatile, history, WriterCounts,
         LogIsCounted, FreshIsLive, InStep, SizeOf, NoId
<1>6. CASE PumpReadsNothing
  BY <1>0, <1>a, <1>6
     DEF PumpReadsNothing, mdVars, pumpVars, volatile, history, WriterCounts,
         LogIsCounted, FreshIsLive, InStep, SizeOf, NoId
<1>7. CASE PumpReads
  <2>1. fd = sess /\ pumpPc = "read" /\ files \in [DOMAIN files -> Nat]
    BY <1>7 DEF PumpReads, InStep, Stored
  <2>2. sess \notin suspects =>
          /\ sess \in Alive /\ byteLen = files[sess] /\ sess \in DOMAIN files
          /\ fileBytes = byteLen /\ fileBytes < MaxLog
    BY <2>1 DEF WriterCounts, LogIsCounted, SizeOf
  <2>3. /\ Alive' = Alive /\ sess' = sess
        /\ byteLen' = byteLen + 1 /\ fileBytes' = fileBytes + 1
        /\ pumpPc' = IF fileBytes + 1 >= MaxLog THEN "roll" ELSE "check"
    BY <1>7 DEF PumpReads, Full, Alive
  <2>4. CASE sess \in suspects'
    BY <2>3, <2>4 DEF LogIsCounted
  <2>5. CASE sess \notin suspects'
    <3>1. sess \notin suspects
      BY <1>a, <2>5
    <3>2. files' = [files EXCEPT ![sess] = files[sess] + 1]
      BY <1>7, <2>1, <2>2, <2>5, <3>1 DEF PumpReads
    <3>3. sess \in DOMAIN files' /\ files'[sess] = files[sess] + 1
      BY <2>2, <3>1, <3>2
    <3>. QED
      BY <1>a, <2>2, <2>3, <3>1, <3>3 DEF LogIsCounted, SizeOf
  <2>. QED
    BY <2>4, <2>5
<1>8. CASE RollEnds
  BY <1>0, <1>a, <1>8
     DEF RollEnds, mdVars, pumpVars, volatile, history, WriterCounts,
         LogIsCounted, FreshIsLive, InStep, SizeOf, NoId
<1>9. CASE RollContinues
  BY <1>0, <1>a, <1>9
     DEF RollContinues, mdVars, pumpVars, volatile, history, WriterCounts,
         LogIsCounted, FreshIsLive, InStep, SizeOf, NoId
<1>10. CASE RollFails
  BY <1>0, <1>a, <1>10
     DEF RollFails, mdVars, pumpVars, volatile, history, WriterCounts,
         LogIsCounted, FreshIsLive, InStep, SizeOf, NoId
<1>11. CASE RollSwitches
  BY <1>0, <1>a, <1>11
     DEF RollSwitches, mdVars, pumpVars, volatile, history, WriterCounts,
         LogIsCounted, FreshIsLive, InStep, SizeOf, NoId
<1>12. CASE RollReopens
  <2>1. sess \in Alive /\ sess \notin DOMAIN files /\ byteLen = 0
    BY <1>12 DEF RollReopens, WriterCounts, LogIsCounted
  <2>2. Alive' = Alive /\ UNCHANGED <<sess, byteLen, suspects>>
    BY <1>12 DEF RollReopens, Alive, mdVars, history
  <2>3. CASE files' = files /\ pumpPc' = "exited"
    BY <2>1, <2>2, <2>3 DEF LogIsCounted, SizeOf
  <2>4. CASE files' = With(files, sess, 0) /\ fileBytes' = 0 /\ pumpPc' = "check"
    <3>1. sess \in DOMAIN files' /\ files'[sess] = 0
      BY <2>4 DEF With
    <3>. QED
      BY <1>a, <2>1, <2>2, <2>4, <3>1 DEF LogIsCounted, SizeOf
  <2>. QED
    BY <1>12, <2>3, <2>4 DEF RollReopens
<1>13. ASSUME NEW d \in Deleters, NEW i \in 1..used, DeleteRemoves(d, i)
      PROVE  LogIsCounted'
  <2>1. i \in victims[d] /\ files' = Without(files, {i})
        /\ UNCHANGED <<sessions, mdVars, pumpVars, strays, suspects, orphans>>
    BY <1>13 DEF DeleteRemoves, history
  <2>2. Alive' = Alive /\ i \notin Alive
    BY <1>a, <2>1 DEF Alive
  <2>3. sess # i => (sess \in DOMAIN files <=> sess \in DOMAIN files')
                    /\ (sess \in DOMAIN files => files'[sess] = files[sess])
    BY <2>1 DEF Without
  <2>. QED
    BY <2>1, <2>2, <2>3 DEF mdVars, pumpVars, WriterCounts, LogIsCounted, SizeOf
<1>14. ASSUME NEW d \in Deleters, DeleteOne(d)
      PROVE  LogIsCounted'
  BY <1>0, <1>a, <1>14
     DEF DeleteOne, mdVars, pumpVars, volatile, history, WriterCounts,
         LogIsCounted, FreshIsLive, InStep, SizeOf, NoId
<1>15. ASSUME NEW d \in Deleters, DeleteAll(d)
      PROVE  LogIsCounted'
  BY <1>0, <1>a, <1>15
     DEF DeleteAll, mdVars, pumpVars, volatile, history, WriterCounts,
         LogIsCounted, FreshIsLive, InStep, SizeOf, NoId
<1>16. CASE Crash
  BY <1>0, <1>a, <1>16
     DEF Crash, mdVars, pumpVars, volatile, history, WriterCounts, LogIsCounted,
         FreshIsLive, InStep, SizeOf, NoId
<1>17. CASE Boot
  BY <1>0, <1>a, <1>17
     DEF Boot, mdVars, pumpVars, volatile, history, WriterCounts, LogIsCounted,
         FreshIsLive, InStep, SizeOf, NoId
<1>18. CASE /\ UNCHANGED <<sessions, used>>
            /\ UNCHANGED files
            /\ UNCHANGED <<pumpPc, sess, byteLen, fileBytes>>
            /\ UNCHANGED up
  BY <1>18, <1>0, <1>a DEF WriterCounts, LogIsCounted, Alive, SizeOf
<1>. QED
  BY <1>1, <1>2, <1>3, <1>4, <1>5, <1>6, <1>7, <1>8, <1>9, <1>10, <1>11,
     <1>12, <1>13, <1>14, <1>15, <1>16, <1>17, <1>18, StoreSteps, FileSteps,
     PumpSteps, UpSteps

-----------------------------------------------------------------------------
(* The theorems.                                                           *)

(* OneLive, in terms of the sessions that are live.                        *)
LEMMA OneLiveIsHere == OneLive <=> OneLiveHere
BY DEF OneLive, OneLiveHere, Alive, Live

(* The invariant holds at the start.                                       *)
LEMMA InitLog == Init => LogInv
<1> SUFFICES ASSUME Init
             PROVE  LogInv
  OBVIOUS
<1> USE DEF Init
<1>1. DOMAIN sessions = {} /\ DOMAIN files = {}
  OBVIOUS
<1>2. /\ sessions \in [DOMAIN sessions -> Records]
      /\ files \in [DOMAIN files -> Nat]
  BY <1>1
<1>3. StoreTypes /\ FileTypes
  BY <1>1, <1>2, BoundAssumption DEF StoreTypes, FileTypes
<1>4. PlaceTypes /\ IdTypes
  <2>1. 0 \in 0..MaxCrashes
    BY BoundAssumption
  <2>2. PlaceTypes
    BY <2>1 DEF PlaceTypes
  <2>3. IdTypes
    BY DEF IdTypes, NoId
  <2>. QED
    BY <2>2, <2>3
<1>5. RequestTypes /\ HistoryTypes
  BY DEF RequestTypes, HistoryTypes
<1>6. TypeOK /\ Stored
  BY <1>3, <1>4, <1>5, TypeParts
<1>7. InStep /\ VictimsAreEnded /\ LeftIsEnded
  BY <1>1 DEF InStep, VictimsAreEnded, LeftIsEnded, NoId
<1>8. WriterCounts
  BY <1>1
     DEF WriterCounts, LiveIsUncounted, FreshIsLive, LogIsCounted, Alive, NoId
<1>9. /\ SeqFollowsStart /\ LengthRecorded /\ OneLive /\ NoOrphanLogs
      /\ LogIsCapped
  BY <1>1
     DEF SeqFollowsStart, LengthRecorded, OneLive, NoOrphanLogs, LogIsCapped
<1>. QED
  BY <1>6, <1>7, <1>8, <1>9 DEF LogInv

(* No step of the manager, the pump, a delete request or the process       *)
(* breaks the invariant.                                                   *)
THEOREM LogInvariance == Spec => []LogInv
<1>1. LogInv /\ [Next]_vars => LogInv'
  <2> SUFFICES ASSUME LogInv, [Next]_vars
               PROVE  LogInv'
    OBVIOUS
  <2>1. /\ TypeOK /\ Stored /\ InStep /\ VictimsAreEnded /\ WriterCounts /\ LeftIsEnded
        /\ SeqFollowsStart /\ LengthRecorded /\ OneLive /\ NoOrphanLogs /\ LogIsCapped
    BY DEF LogInv
  <2>2. LiveIsUncounted /\ OneLiveHere
    BY <2>1, OneLiveIsHere DEF WriterCounts
  <2>3. TypeOK' /\ Stored' /\ InStep'
    BY <2>1, TypeStep, InStepStep
  <2>4. VictimsAreEnded' /\ LeftIsEnded'
    BY <2>1, VictimsStep, LeftStep
  <2>5. LiveIsUncounted' /\ FreshIsLive' /\ LogIsCounted'
    BY <2>1, <2>2, UncountedStep, FreshStep, CountedStep
  <2>6. SeqFollowsStart' /\ LengthRecorded'
    BY <2>1, SeqStep, LengthStep
  <2>7. OneLiveHere'
    BY <2>1, <2>2, OneLiveHereStep
  <2>8. OneLive'
    BY <2>7, OneLiveIsHere, PTL
  <2>9. NoOrphanLogs' /\ LogIsCapped'
    BY <2>1, OrphansStep, CappedStep
  <2>. QED
    BY <2>3, <2>4, <2>5, <2>6, <2>8, <2>9 DEF LogInv, WriterCounts
<1>. QED
  BY InitLog, <1>1, PTL DEF Spec

(* The variables keep their types: nobody goes by an id that was not given *)
(* out.                                                                    *)
THEOREM TypeCorrect == Spec => []TypeOK
<1>1. LogInv => TypeOK
  BY DEF LogInv
<1>. QED
  BY LogInvariance, <1>1, PTL

(* However many sessions were deleted, the number of a new one is above    *)
(* those that are stored, and the stored ones keep theirs: the page sorts  *)
(* the sessions as they were started.                                      *)
THEOREM NumbersFollowStarts == Spec => []SeqFollowsStart
<1>1. LogInv => SeqFollowsStart
  BY DEF LogInv
<1>. QED
  BY LogInvariance, <1>1, PTL

(* An ended session has the length of its file recorded, whoever ended it: *)
(* a detach, a rollover or the repair after a crash. The pump counts from  *)
(* the record on, and nobody writes a file whose session has ended.        *)
THEOREM LengthsAreTrue == Spec => []LengthRecorded
<1>1. LogInv => LengthRecorded
  BY DEF LogInv
<1>. QED
  BY LogInvariance, <1>1, PTL

(* What is live is the board's: every session it leaves behind is ended,   *)
(* or counted among the strays of a failed operation.                      *)
THEOREM NothingStaysLive == Spec => []OneLive
<1>1. LogInv => OneLive
  BY DEF LogInv
<1>. QED
  BY LogInvariance, <1>1, PTL

(* A file is made for a stored session and goes before anyone forgets it,  *)
(* but for a delete that was cut short.                                    *)
THEOREM FilesHaveOwners == Spec => []NoOrphanLogs
<1>1. LogInv => NoOrphanLogs
  BY DEF LogInv
<1>. QED
  BY LogInvariance, <1>1, PTL

(* The pump appends to a file only below the limit, so that no chunk takes *)
(* it past, unless a rollover failed.                                      *)
THEOREM LogsAreCapped == Spec => []LogIsCapped
<1>1. LogInv => LogIsCapped
  BY DEF LogInv
<1>. QED
  BY LogInvariance, <1>1, PTL

(* The file the pump appends to is there and its session stored and live:  *)
(* the delete handlers look before they delete, and what they delete has   *)
(* ended and cannot come back.                                             *)
THEOREM LiveLogStays == Spec => []LiveLogIsKept
<1>1. LogInv => LiveLogIsKept
  <2> SUFFICES ASSUME LogInv, pumpPc \in {"check", "read"}, fd \notin suspects
               PROVE  fd \in DOMAIN files /\ Live(fd)
    BY DEF LiveLogIsKept
  <2>1. fd = sess
    BY DEF LogInv, InStep
  <2>2. sess \in DOMAIN files /\ sess \in Alive
    BY <2>1 DEF LogInv, WriterCounts, LogIsCounted
  <2>. QED
    BY <2>1, <2>2 DEF Alive, Live
<1>. QED
  BY LogInvariance, <1>1, PTL

=============================================================================
