-------------------------- MODULE ManagerPassProofs --------------------------
(***************************************************************************)
(* What a pass of the manager's discovery loop and its shutdown leave      *)
(* behind, for every set of boards and requests: no wake-up is lost, the   *)
(* mirror follows the store, a stopped manager holds nothing, and a board  *)
(* that was let go of has its port closed. The invariants here extend      *)
(* ManagerInv.                                                             *)
(***************************************************************************)
EXTENDS ManagerProofs

-----------------------------------------------------------------------------
(* A request at these points has changed something that a pass has yet to  *)
(* look at, or keeps the pass from a board; it leaves them with a poke, or *)
(* with missed.                                                            *)
ActivePcs == {"claimed", "accepted", "owned", "draining", "work", "touch", "write",
              "launch", "abort", "watch", "release", "unlock", "poke", "mirror", "lock"}

Unsettled == poked \/ missed \/ \E o \in Requests : pc[o] \in ActivePcs

ShutdownPcs == {"stopDebugs", "stopWait", "lock", "owned", "lastDrain", "stopped"}

(* The mutex of a board is held by someone who is inside its section.      *)
LockedByHolder ==
  \A b \in Boards :
    \/ ctrl[b] = Free
    \/ ctrl[b] = Run /\ RunHolds /\ cur = b
    \/ ctrl[b] \in Requests /\ Holds(ctrl[b]) /\ tgt[ctrl[b]] = b

(* What a pass leaves behind: the mirror is the record's, and the board is *)
(* attached if and only if what the pass saw and the record say so.        *)
Agrees(b) ==
  /\ presence[b] # "Gone" => ignored[b] = recIgnored[b]
  /\ attached[b] <=> (presence[b] = "OnConsole" /\ ~recIgnored[b])

AtCur == runPc \in {"observe", "tryLock", "decide"}

PassAgrees ==
  /\ runPc \in {"select", "scan"} => todo = {}
  /\ runPc \notin {"scan"} \cup ShutdownPcs /\ ~Unsettled =>
       /\ \A b \in devices : b \notin todo /\ ~(AtCur /\ b = cur) => Agrees(b)
       /\ AtCur /\ seen[cur] # "absent" => policy = recIgnored[cur]
       /\ runPc \in {"tryLock", "decide"} =>
            /\ presence[cur] = PresenceOf(seen[cur])
            /\ seen[cur] # "absent" => ignored[cur] = policy

(* Pumps run on tracked boards only, and shutdown leaves none behind on a  *)
(* board it has been to.                                                   *)
ShutdownExact ==
  /\ AtCur => cur \in devices
  /\ \A b \in Boards : pump[b] # "none" =>
       /\ b \in devices
       /\ runPc \in {"stopDebugs", "stopWait"} => b \in mds
       /\ runPc \in {"lock", "stopped"} => b \in todo
       /\ runPc \in {"owned", "lastDrain"} => b \in todo \cup {cur}
  /\ runPc = "stopped" => todo = {}

(* A request is of a kind that is made, and a tty that a request holds     *)
(* through a device of its own is being touched, unless a Send left it.    *)
OthersExact ==
  /\ \A o \in Requests : kind[o] \in Kinds \cup {None}
  /\ \A o \in Requests : pc[o] = "send" => kind[o] = "send"
  /\ \A b \in Boards : \A o \in others[b] :
       (pc[o] = "touch" /\ tgt[o] = b) \/ (pc[o] = "done" /\ kind[o] = "send")

PassInv ==
  /\ ManagerInv
  /\ LockedByHolder
  /\ PassAgrees
  /\ ShutdownExact
  /\ OthersExact

-----------------------------------------------------------------------------
(* Whoever takes a mutex is inside its section until he gives it back. *)
LEMMA LockedStep ==
  TypeOK /\ Shape /\ BoardsAreOwned /\ LockedByHolder
    /\ [Next]_vars => LockedByHolder'
<1> SUFFICES ASSUME TypeOK, Shape, BoardsAreOwned, LockedByHolder, [Next]_vars
             PROVE  LockedByHolder'
  OBVIOUS
<1> USE RequestAssumption DEF TypeOK, Shape, BoardsAreOwned, LockedByHolder,
    Holds, RunHolds, envVars, boardVars, pumpVars, runVars, reqVars, ocdVars,
    Goto, Free, Run
<1>1. ASSUME NEW b \in Boards, BoardLeaves(b)
      PROVE  LockedByHolder'
  BY <1>1 DEF BoardLeaves
<1>2. ASSUME NEW b \in Boards, NEW s \in {"console", "bootsel"},
             BoardReturns(b, s)
      PROVE  LockedByHolder'
  BY <1>2 DEF BoardReturns
<1>3. CASE Cancel
  BY <1>3 DEF Cancel
<1>4. CASE Tick
  BY <1>4 DEF Tick
<1>5. CASE Poked
  BY <1>5 DEF Poked
<1>6. CASE Scan
  BY <1>6 DEF Scan
<1>7. CASE ScanFails
  BY <1>7 DEF ScanFails
<1>8. ASSUME NEW b \in Boards, ReadPolicy(b)
      PROVE  LockedByHolder'
  BY <1>8 DEF ReadPolicy
<1>9. CASE Observe
  BY <1>9 DEF Observe
<1>10. CASE TryLock
  BY <1>10 DEF TryLock
<1>11. CASE Attach
  BY <1>11 DEF Attach
<1>12. CASE AttachFails
  BY <1>12 DEF AttachFails
<1>13. CASE Keep
  BY <1>13 DEF Keep
<1>14. CASE LetGo
  BY <1>14 DEF LetGo, DetachBegin
<1>15. CASE Drained
  BY <1>15 DEF Drained, DetachEnd
<1>16. CASE PassEnds
  BY <1>16 DEF PassEnds
<1>17. CASE Shutdown
  BY <1>17 DEF Shutdown
<1>18. ASSUME NEW b \in Boards, ShutdownStops(b)
      PROVE  LockedByHolder'
  BY <1>18 DEF ShutdownStops
<1>19. CASE ShutdownWaited
  BY <1>19 DEF ShutdownWaited
<1>20. CASE ShutdownStopped
  BY <1>20 DEF ShutdownStopped
<1>21. ASSUME NEW b \in Boards, ShutdownLocks(b)
      PROVE  LockedByHolder'
  BY <1>21 DEF ShutdownLocks
<1>22. CASE ShutdownDetaches
  BY <1>22 DEF ShutdownDetaches, DetachBegin
<1>23. CASE ShutdownEnds
  BY <1>23 DEF ShutdownEnds
<1>24. ASSUME NEW b \in Boards, PumpOpens(b)
      PROVE  LockedByHolder'
  BY <1>24 DEF PumpOpens
<1>25. ASSUME NEW b \in Boards, PumpFails(b)
      PROVE  LockedByHolder'
  BY <1>25 DEF PumpFails
<1>26. ASSUME NEW b \in Boards, PumpStops(b)
      PROVE  LockedByHolder'
  BY <1>26 DEF PumpStops
<1>27. ASSUME NEW b \in Boards, NEW o \in Requests, NEW k \in Kinds,
              Begin(o, k, b)
      PROVE  LockedByHolder'
  BY <1>27 DEF Begin
<1>28. ASSUME NEW o \in Requests, ClaimLock(o)
      PROVE  LockedByHolder'
  BY <1>28 DEF ClaimLock
<1>29. ASSUME NEW o \in Requests, ClaimCheck(o)
      PROVE  LockedByHolder'
  BY <1>29 DEF ClaimCheck
<1>30. ASSUME NEW o \in Requests, ClaimMark(o)
      PROVE  LockedByHolder'
  BY <1>30 DEF ClaimMark
<1>31. ASSUME NEW o \in Requests, ReleaseIdle(o)
      PROVE  LockedByHolder'
  BY <1>31 DEF ReleaseIdle
<1>32. ASSUME NEW o \in Requests, Unlock(o)
      PROVE  LockedByHolder'
  BY <1>32 DEF Unlock
<1>33. ASSUME NEW o \in Requests, Poke(o)
      PROVE  LockedByHolder'
  BY <1>33 DEF Poke
<1>34. ASSUME NEW o \in Requests, Detach(o)
      PROVE  LockedByHolder'
  BY <1>34 DEF Detach, DetachBegin, AfterDetach
<1>35. ASSUME NEW o \in Requests, Detached(o)
      PROVE  LockedByHolder'
  BY <1>35 DEF Detached, DetachEnd, AfterDetach
<1>36. ASSUME NEW o \in Requests, Touch(o)
      PROVE  LockedByHolder'
  BY <1>36 DEF Touch
<1>37. ASSUME NEW o \in Requests, TouchEnds(o)
      PROVE  LockedByHolder'
  BY <1>37 DEF TouchEnds
<1>38. ASSUME NEW o \in Requests, WorkEnds(o)
      PROVE  LockedByHolder'
  BY <1>38 DEF WorkEnds
<1>39. ASSUME NEW o \in Requests, DebugFails(o)
      PROVE  LockedByHolder'
  BY <1>39 DEF DebugFails
<1>40. ASSUME NEW o \in Requests, DebugStarts(o)
      PROVE  LockedByHolder'
  BY <1>40 DEF DebugStarts
<1>41. ASSUME NEW o \in Requests, DebugDies(o)
      PROVE  LockedByHolder'
  BY <1>41 DEF DebugDies
<1>42. ASSUME NEW o \in Requests, DebugTimesOut(o)
      PROVE  LockedByHolder'
  BY <1>42 DEF DebugTimesOut
<1>43. ASSUME NEW o \in Requests, DebugAborted(o)
      PROVE  LockedByHolder'
  BY <1>43 DEF DebugAborted
<1>44. ASSUME NEW o \in Requests, SessionEnds(o)
      PROVE  LockedByHolder'
  BY <1>44 DEF SessionEnds
<1>45. ASSUME NEW o \in Requests, StopDebug(o)
      PROVE  LockedByHolder'
  BY <1>45 DEF StopDebug
<1>46. ASSUME NEW o \in Requests, StopSignals(o)
      PROVE  LockedByHolder'
  BY <1>46 DEF StopSignals
<1>47. ASSUME NEW o \in Requests, StopReturns(o)
      PROVE  LockedByHolder'
  BY <1>47 DEF StopReturns
<1>48. ASSUME NEW o \in Requests, SetRecord(o)
      PROVE  LockedByHolder'
  BY <1>48 DEF SetRecord
<1>49. ASSUME NEW o \in Requests, SettingFails(o)
      PROVE  LockedByHolder'
  BY <1>49 DEF SettingFails
<1>50. ASSUME NEW o \in Requests, SetMirror(o)
      PROVE  LockedByHolder'
  BY <1>50 DEF SetMirror
<1>51. ASSUME NEW o \in Requests, SetTarget(o)
      PROVE  LockedByHolder'
  BY <1>51 DEF SetTarget
<1>52. ASSUME NEW o \in Requests, SendLooksUp(o)
      PROVE  LockedByHolder'
  BY <1>52 DEF SendLooksUp
<1>53. ASSUME NEW o \in Requests, SendWrites(o)
      PROVE  LockedByHolder'
  BY <1>53 DEF SendWrites
<1>54. ASSUME NEW o \in Requests, IgnoreLock(o)
      PROVE  LockedByHolder'
  BY <1>54 DEF IgnoreLock
<1>55. ASSUME NEW o \in Requests, OcdListens(o)
      PROVE  LockedByHolder'
  BY <1>55 DEF OcdListens
<1>56. ASSUME NEW o \in Requests, OcdExits(o)
      PROVE  LockedByHolder'
  BY <1>56 DEF OcdExits
<1>57. CASE UNCHANGED vars
  BY <1>57 DEF vars
<1> HIDE DEF TypeOK, Shape, BoardsAreOwned, LockedByHolder, Holds, RunHolds, Goto
<1>. QED
  BY <1>1, <1>2, <1>3, <1>4, <1>5, <1>6, <1>7, <1>8, <1>9, <1>10, <1>11,
     <1>12, <1>13, <1>14, <1>15, <1>16, <1>17, <1>18, <1>19, <1>20, <1>21,
     <1>22, <1>23, <1>24, <1>25, <1>26, <1>27, <1>28, <1>29, <1>30, <1>31,
     <1>32, <1>33, <1>34, <1>35, <1>36, <1>37, <1>38, <1>39, <1>40, <1>41,
     <1>42, <1>43, <1>44, <1>45, <1>46, <1>47, <1>48, <1>49, <1>50, <1>51,
     <1>52, <1>53, <1>54, <1>55, <1>56, <1>57
     DEF Next, BusStep, RunStep, PumpStep, ReqStep

(* Devices held by requests. *)
LEMMA OthersStep == TypeOK /\ Shape /\ OthersExact /\ [Next]_vars => OthersExact'
<1> SUFFICES ASSUME TypeOK, Shape, OthersExact, [Next]_vars
             PROVE  OthersExact'
  OBVIOUS
<1> USE RequestAssumption DEF TypeOK, Shape, OthersExact, Holds, Claims,
    envVars, boardVars, pumpVars, runVars, reqVars, ocdVars, Goto
<1>1. ASSUME NEW b \in Boards, BoardLeaves(b)
      PROVE  OthersExact'
  BY <1>1 DEF BoardLeaves
<1>2. ASSUME NEW b \in Boards, NEW s \in {"console", "bootsel"},
             BoardReturns(b, s)
      PROVE  OthersExact'
  BY <1>2 DEF BoardReturns
<1>3. CASE Cancel
  BY <1>3 DEF Cancel
<1>4. CASE Tick
  BY <1>4 DEF Tick
<1>5. CASE Poked
  BY <1>5 DEF Poked
<1>6. CASE Scan
  BY <1>6 DEF Scan
<1>7. CASE ScanFails
  BY <1>7 DEF ScanFails
<1>8. ASSUME NEW b \in Boards, ReadPolicy(b)
      PROVE  OthersExact'
  BY <1>8 DEF ReadPolicy
<1>9. CASE Observe
  BY <1>9 DEF Observe
<1>10. CASE TryLock
  BY <1>10 DEF TryLock
<1>11. CASE Attach
  BY <1>11 DEF Attach
<1>12. CASE AttachFails
  BY <1>12 DEF AttachFails
<1>13. CASE Keep
  BY <1>13 DEF Keep
<1>14. CASE LetGo
  BY <1>14 DEF LetGo, DetachBegin
<1>15. CASE Drained
  BY <1>15 DEF Drained, DetachEnd
<1>16. CASE PassEnds
  BY <1>16 DEF PassEnds
<1>17. CASE Shutdown
  BY <1>17 DEF Shutdown
<1>18. ASSUME NEW b \in Boards, ShutdownStops(b)
      PROVE  OthersExact'
  BY <1>18 DEF ShutdownStops
<1>19. CASE ShutdownWaited
  BY <1>19 DEF ShutdownWaited
<1>20. CASE ShutdownStopped
  BY <1>20 DEF ShutdownStopped
<1>21. ASSUME NEW b \in Boards, ShutdownLocks(b)
      PROVE  OthersExact'
  BY <1>21 DEF ShutdownLocks
<1>22. CASE ShutdownDetaches
  BY <1>22 DEF ShutdownDetaches, DetachBegin
<1>23. CASE ShutdownEnds
  BY <1>23 DEF ShutdownEnds
<1>24. ASSUME NEW b \in Boards, PumpOpens(b)
      PROVE  OthersExact'
  BY <1>24 DEF PumpOpens
<1>25. ASSUME NEW b \in Boards, PumpFails(b)
      PROVE  OthersExact'
  BY <1>25 DEF PumpFails
<1>26. ASSUME NEW b \in Boards, PumpStops(b)
      PROVE  OthersExact'
  BY <1>26 DEF PumpStops
<1>27. ASSUME NEW b \in Boards, NEW o \in Requests, NEW k \in Kinds,
              Begin(o, k, b)
      PROVE  OthersExact'
  BY <1>27 DEF Begin
<1>28. ASSUME NEW o \in Requests, ClaimLock(o)
      PROVE  OthersExact'
  BY <1>28 DEF ClaimLock
<1>29. ASSUME NEW o \in Requests, ClaimCheck(o)
      PROVE  OthersExact'
  BY <1>29 DEF ClaimCheck
<1>30. ASSUME NEW o \in Requests, ClaimMark(o)
      PROVE  OthersExact'
  BY <1>30 DEF ClaimMark
<1>31. ASSUME NEW o \in Requests, ReleaseIdle(o)
      PROVE  OthersExact'
  BY <1>31 DEF ReleaseIdle
<1>32. ASSUME NEW o \in Requests, Unlock(o)
      PROVE  OthersExact'
  BY <1>32 DEF Unlock
<1>33. ASSUME NEW o \in Requests, Poke(o)
      PROVE  OthersExact'
  BY <1>33 DEF Poke
<1>34. ASSUME NEW o \in Requests, Detach(o)
      PROVE  OthersExact'
  BY <1>34 DEF Detach, DetachBegin, AfterDetach
<1>35. ASSUME NEW o \in Requests, Detached(o)
      PROVE  OthersExact'
  BY <1>35 DEF Detached, DetachEnd, AfterDetach
<1>36. ASSUME NEW o \in Requests, Touch(o)
      PROVE  OthersExact'
  BY <1>36 DEF Touch
<1>37. ASSUME NEW o \in Requests, TouchEnds(o)
      PROVE  OthersExact'
  BY <1>37 DEF TouchEnds
<1>38. ASSUME NEW o \in Requests, WorkEnds(o)
      PROVE  OthersExact'
  BY <1>38 DEF WorkEnds
<1>39. ASSUME NEW o \in Requests, DebugFails(o)
      PROVE  OthersExact'
  BY <1>39 DEF DebugFails
<1>40. ASSUME NEW o \in Requests, DebugStarts(o)
      PROVE  OthersExact'
  BY <1>40 DEF DebugStarts
<1>41. ASSUME NEW o \in Requests, DebugDies(o)
      PROVE  OthersExact'
  BY <1>41 DEF DebugDies
<1>42. ASSUME NEW o \in Requests, DebugTimesOut(o)
      PROVE  OthersExact'
  BY <1>42 DEF DebugTimesOut
<1>43. ASSUME NEW o \in Requests, DebugAborted(o)
      PROVE  OthersExact'
  BY <1>43 DEF DebugAborted
<1>44. ASSUME NEW o \in Requests, SessionEnds(o)
      PROVE  OthersExact'
  BY <1>44 DEF SessionEnds
<1>45. ASSUME NEW o \in Requests, StopDebug(o)
      PROVE  OthersExact'
  BY <1>45 DEF StopDebug
<1>46. ASSUME NEW o \in Requests, StopSignals(o)
      PROVE  OthersExact'
  BY <1>46 DEF StopSignals
<1>47. ASSUME NEW o \in Requests, StopReturns(o)
      PROVE  OthersExact'
  BY <1>47 DEF StopReturns
<1>48. ASSUME NEW o \in Requests, SetRecord(o)
      PROVE  OthersExact'
  BY <1>48 DEF SetRecord
<1>49. ASSUME NEW o \in Requests, SettingFails(o)
      PROVE  OthersExact'
  BY <1>49 DEF SettingFails
<1>50. ASSUME NEW o \in Requests, SetMirror(o)
      PROVE  OthersExact'
  BY <1>50 DEF SetMirror
<1>51. ASSUME NEW o \in Requests, SetTarget(o)
      PROVE  OthersExact'
  BY <1>51 DEF SetTarget
<1>52. ASSUME NEW o \in Requests, SendLooksUp(o)
      PROVE  OthersExact'
  BY <1>52 DEF SendLooksUp
<1>53. ASSUME NEW o \in Requests, SendWrites(o)
      PROVE  OthersExact'
  <2>1. \A b \in Boards : others'[b] = others[b] \/ (b = tgt[o] /\ others'[b] = others[b] \cup {o})
    BY <1>53 DEF SendWrites
  <2>2. pc[o] = "send" /\ kind[o] = "send" /\ UNCHANGED <<kind, tgt>>
    BY <1>53 DEF SendWrites
  <2>3. pc' = [pc EXCEPT ![o] = "done"]
    BY <1>53 DEF SendWrites, Goto
  <2>4. /\ pc'[o] = "done" /\ kind'[o] = "send"
        /\ \A q \in Requests \ {o} : pc'[q] = pc[q] /\ kind'[q] = kind[q] /\ tgt'[q] = tgt[q]
    BY <2>2, <2>3
  <2>5. ASSUME NEW b \in Boards, NEW q \in others'[b]
        PROVE  \/ pc'[q] = "touch" /\ tgt'[q] = b
               \/ pc'[q] = "done" /\ kind'[q] = "send"
    <3>1. CASE q = o
      BY <2>4, <3>1
    <3>2. CASE q # o
      <4>1. q \in others[b] /\ q \in Requests
        BY <2>1, <3>2
      <4>. QED
        BY <2>4, <3>2, <4>1
    <3>. QED
      BY <3>1, <3>2
  <2>6. \A q \in Requests : kind'[q] \in Kinds \cup {None} /\ (pc'[q] = "send" => kind'[q] = "send")
    BY <2>2, <2>4
  <2>. QED
    BY <2>5, <2>6
<1>54. ASSUME NEW o \in Requests, IgnoreLock(o)
      PROVE  OthersExact'
  BY <1>54 DEF IgnoreLock
<1>55. ASSUME NEW o \in Requests, OcdListens(o)
      PROVE  OthersExact'
  BY <1>55 DEF OcdListens
<1>56. ASSUME NEW o \in Requests, OcdExits(o)
      PROVE  OthersExact'
  BY <1>56 DEF OcdExits
<1>57. CASE UNCHANGED vars
  BY <1>57 DEF vars
<1> HIDE DEF TypeOK, Shape, OthersExact, Goto
<1>. QED
  BY <1>1, <1>2, <1>3, <1>4, <1>5, <1>6, <1>7, <1>8, <1>9, <1>10, <1>11,
     <1>12, <1>13, <1>14, <1>15, <1>16, <1>17, <1>18, <1>19, <1>20, <1>21,
     <1>22, <1>23, <1>24, <1>25, <1>26, <1>27, <1>28, <1>29, <1>30, <1>31,
     <1>32, <1>33, <1>34, <1>35, <1>36, <1>37, <1>38, <1>39, <1>40, <1>41,
     <1>42, <1>43, <1>44, <1>45, <1>46, <1>47, <1>48, <1>49, <1>50, <1>51,
     <1>52, <1>53, <1>54, <1>55, <1>56, <1>57
     DEF Next, BusStep, RunStep, PumpStep, ReqStep

(* Pumps run on tracked boards, and shutdown visits them all. *)
LEMMA ShutdownStep ==
  TypeOK /\ Shape /\ BoardsAreOwned /\ PumpExact /\ ShutdownExact
    /\ [Next]_vars => ShutdownExact'
<1> SUFFICES ASSUME TypeOK, Shape, BoardsAreOwned, PumpExact, ShutdownExact,
                    [Next]_vars
             PROVE  ShutdownExact'
  OBVIOUS
<1> USE RequestAssumption DEF TypeOK, Shape, BoardsAreOwned, PumpExact,
    Draining, ShutdownExact, AtCur, Holds, RunHolds, envVars, boardVars,
    pumpVars, runVars, reqVars, ocdVars, Goto, Run
<1>1. ASSUME NEW b \in Boards, BoardLeaves(b)
      PROVE  ShutdownExact'
  BY <1>1 DEF BoardLeaves
<1>2. ASSUME NEW b \in Boards, NEW s \in {"console", "bootsel"},
             BoardReturns(b, s)
      PROVE  ShutdownExact'
  BY <1>2 DEF BoardReturns
<1>3. CASE Cancel
  BY <1>3 DEF Cancel
<1>4. CASE Tick
  BY <1>4 DEF Tick
<1>5. CASE Poked
  BY <1>5 DEF Poked
<1>6. CASE Scan
  BY <1>6 DEF Scan
<1>7. CASE ScanFails
  BY <1>7 DEF ScanFails
<1>8. ASSUME NEW b \in Boards, ReadPolicy(b)
      PROVE  ShutdownExact'
  BY <1>8 DEF ReadPolicy
<1>9. CASE Observe
  BY <1>9 DEF Observe
<1>10. CASE TryLock
  BY <1>10 DEF TryLock
<1>11. CASE Attach
  BY <1>11 DEF Attach
<1>12. CASE AttachFails
  BY <1>12 DEF AttachFails
<1>13. CASE Keep
  BY <1>13 DEF Keep
<1>14. CASE LetGo
  BY <1>14 DEF LetGo, DetachBegin
<1>15. CASE Drained
  BY <1>15 DEF Drained, DetachEnd
<1>16. CASE PassEnds
  BY <1>16 DEF PassEnds
<1>17. CASE Shutdown
  BY <1>17 DEF Shutdown
<1>18. ASSUME NEW b \in Boards, ShutdownStops(b)
      PROVE  ShutdownExact'
  BY <1>18 DEF ShutdownStops
<1>19. CASE ShutdownWaited
  BY <1>19 DEF ShutdownWaited
<1>20. CASE ShutdownStopped
  BY <1>20 DEF ShutdownStopped
<1>21. ASSUME NEW b \in Boards, ShutdownLocks(b)
      PROVE  ShutdownExact'
  BY <1>21 DEF ShutdownLocks
<1>22. CASE ShutdownDetaches
  BY <1>22 DEF ShutdownDetaches, DetachBegin
<1>23. CASE ShutdownEnds
  BY <1>23 DEF ShutdownEnds
<1>24. ASSUME NEW b \in Boards, PumpOpens(b)
      PROVE  ShutdownExact'
  BY <1>24 DEF PumpOpens
<1>25. ASSUME NEW b \in Boards, PumpFails(b)
      PROVE  ShutdownExact'
  BY <1>25 DEF PumpFails
<1>26. ASSUME NEW b \in Boards, PumpStops(b)
      PROVE  ShutdownExact'
  BY <1>26 DEF PumpStops
<1>27. ASSUME NEW b \in Boards, NEW o \in Requests, NEW k \in Kinds,
              Begin(o, k, b)
      PROVE  ShutdownExact'
  BY <1>27 DEF Begin
<1>28. ASSUME NEW o \in Requests, ClaimLock(o)
      PROVE  ShutdownExact'
  BY <1>28 DEF ClaimLock
<1>29. ASSUME NEW o \in Requests, ClaimCheck(o)
      PROVE  ShutdownExact'
  BY <1>29 DEF ClaimCheck
<1>30. ASSUME NEW o \in Requests, ClaimMark(o)
      PROVE  ShutdownExact'
  BY <1>30 DEF ClaimMark
<1>31. ASSUME NEW o \in Requests, ReleaseIdle(o)
      PROVE  ShutdownExact'
  BY <1>31 DEF ReleaseIdle
<1>32. ASSUME NEW o \in Requests, Unlock(o)
      PROVE  ShutdownExact'
  BY <1>32 DEF Unlock
<1>33. ASSUME NEW o \in Requests, Poke(o)
      PROVE  ShutdownExact'
  BY <1>33 DEF Poke
<1>34. ASSUME NEW o \in Requests, Detach(o)
      PROVE  ShutdownExact'
  BY <1>34 DEF Detach, DetachBegin, AfterDetach
<1>35. ASSUME NEW o \in Requests, Detached(o)
      PROVE  ShutdownExact'
  BY <1>35 DEF Detached, DetachEnd, AfterDetach
<1>36. ASSUME NEW o \in Requests, Touch(o)
      PROVE  ShutdownExact'
  BY <1>36 DEF Touch
<1>37. ASSUME NEW o \in Requests, TouchEnds(o)
      PROVE  ShutdownExact'
  BY <1>37 DEF TouchEnds
<1>38. ASSUME NEW o \in Requests, WorkEnds(o)
      PROVE  ShutdownExact'
  BY <1>38 DEF WorkEnds
<1>39. ASSUME NEW o \in Requests, DebugFails(o)
      PROVE  ShutdownExact'
  BY <1>39 DEF DebugFails
<1>40. ASSUME NEW o \in Requests, DebugStarts(o)
      PROVE  ShutdownExact'
  BY <1>40 DEF DebugStarts
<1>41. ASSUME NEW o \in Requests, DebugDies(o)
      PROVE  ShutdownExact'
  BY <1>41 DEF DebugDies
<1>42. ASSUME NEW o \in Requests, DebugTimesOut(o)
      PROVE  ShutdownExact'
  BY <1>42 DEF DebugTimesOut
<1>43. ASSUME NEW o \in Requests, DebugAborted(o)
      PROVE  ShutdownExact'
  BY <1>43 DEF DebugAborted
<1>44. ASSUME NEW o \in Requests, SessionEnds(o)
      PROVE  ShutdownExact'
  BY <1>44 DEF SessionEnds
<1>45. ASSUME NEW o \in Requests, StopDebug(o)
      PROVE  ShutdownExact'
  BY <1>45 DEF StopDebug
<1>46. ASSUME NEW o \in Requests, StopSignals(o)
      PROVE  ShutdownExact'
  BY <1>46 DEF StopSignals
<1>47. ASSUME NEW o \in Requests, StopReturns(o)
      PROVE  ShutdownExact'
  BY <1>47 DEF StopReturns
<1>48. ASSUME NEW o \in Requests, SetRecord(o)
      PROVE  ShutdownExact'
  BY <1>48 DEF SetRecord
<1>49. ASSUME NEW o \in Requests, SettingFails(o)
      PROVE  ShutdownExact'
  BY <1>49 DEF SettingFails
<1>50. ASSUME NEW o \in Requests, SetMirror(o)
      PROVE  ShutdownExact'
  BY <1>50 DEF SetMirror
<1>51. ASSUME NEW o \in Requests, SetTarget(o)
      PROVE  ShutdownExact'
  BY <1>51 DEF SetTarget
<1>52. ASSUME NEW o \in Requests, SendLooksUp(o)
      PROVE  ShutdownExact'
  BY <1>52 DEF SendLooksUp
<1>53. ASSUME NEW o \in Requests, SendWrites(o)
      PROVE  ShutdownExact'
  BY <1>53 DEF SendWrites
<1>54. ASSUME NEW o \in Requests, IgnoreLock(o)
      PROVE  ShutdownExact'
  BY <1>54 DEF IgnoreLock
<1>55. ASSUME NEW o \in Requests, OcdListens(o)
      PROVE  ShutdownExact'
  BY <1>55 DEF OcdListens
<1>56. ASSUME NEW o \in Requests, OcdExits(o)
      PROVE  ShutdownExact'
  BY <1>56 DEF OcdExits
<1>57. CASE UNCHANGED vars
  BY <1>57 DEF vars
<1> HIDE DEF TypeOK, Shape, BoardsAreOwned, PumpExact, ShutdownExact, Goto
<1>. QED
  BY <1>1, <1>2, <1>3, <1>4, <1>5, <1>6, <1>7, <1>8, <1>9, <1>10, <1>11,
     <1>12, <1>13, <1>14, <1>15, <1>16, <1>17, <1>18, <1>19, <1>20, <1>21,
     <1>22, <1>23, <1>24, <1>25, <1>26, <1>27, <1>28, <1>29, <1>30, <1>31,
     <1>32, <1>33, <1>34, <1>35, <1>36, <1>37, <1>38, <1>39, <1>40, <1>41,
     <1>42, <1>43, <1>44, <1>45, <1>46, <1>47, <1>48, <1>49, <1>50, <1>51,
     <1>52, <1>53, <1>54, <1>55, <1>56, <1>57
     DEF Next, BusStep, RunStep, PumpStep, ReqStep

-----------------------------------------------------------------------------
(* What a pass leaves behind.                                              *)

(* A step that leaves alone what a pass reads and writes keeps PassAgrees, *)
(* unless it settles what was unsettled.                                   *)
LEMMA PassFrame ==
  ASSUME PassAgrees, Unsettled => Unsettled',
         UNCHANGED <<recIgnored, devices, presence, attached, ignored,
                     runPc, todo, seen, cur, policy>>
  PROVE  PassAgrees'
<1>1. CASE Unsettled'
  BY <1>1 DEF PassAgrees
<1>2. CASE ~Unsettled
  BY <1>2 DEF PassAgrees, Agrees, AtCur, PresenceOf
<1>. QED
  BY <1>1, <1>2

(* A request that is on its way keeps the manager unsettled; it is over    *)
(* with a poke, or with missed.                                            *)
LEMMA StaysUnsettled ==
  ASSUME TypeOK, Shape, NEW o \in Requests,
         ReqStep(o) \/ IgnoreLock(o) \/ OcdListens(o)
                                             \/ OcdExits(o), Unsettled
  PROVE  Unsettled'
<1> USE DEF TypeOK, Unsettled, ActivePcs, Goto, reqVars
<1>1. CASE ClaimLock(o)
  BY <1>1 DEF ClaimLock
<1>2. CASE ClaimCheck(o)
  BY <1>2 DEF ClaimCheck
<1>3. CASE ClaimMark(o)
  BY <1>3 DEF ClaimMark
<1>4. CASE ReleaseIdle(o)
  BY <1>4 DEF ReleaseIdle
<1>5. CASE Unlock(o)
  BY <1>5 DEF Unlock
<1>6. CASE Poke(o)
  BY <1>6 DEF Poke
<1>7. CASE Detach(o)
  BY <1>7 DEF Detach, AfterDetach
<1>8. CASE Detached(o)
  BY <1>8 DEF Detached, AfterDetach
<1>9. CASE Touch(o)
  BY <1>9 DEF Touch
<1>10. CASE TouchEnds(o)
  BY <1>10 DEF TouchEnds
<1>11. CASE WorkEnds(o)
  BY <1>11 DEF WorkEnds
<1>12. CASE DebugFails(o)
  BY <1>12 DEF DebugFails
<1>13. CASE DebugStarts(o)
  BY <1>13 DEF DebugStarts
<1>14. CASE DebugDies(o)
  BY <1>14 DEF DebugDies
<1>15. CASE DebugTimesOut(o)
  BY <1>15 DEF DebugTimesOut
<1>16. CASE DebugAborted(o)
  BY <1>16 DEF DebugAborted
<1>17. CASE SessionEnds(o)
  BY <1>17 DEF SessionEnds
<1>18. CASE StopDebug(o)
  BY <1>18 DEF StopDebug
<1>19. CASE StopSignals(o)
  BY <1>19 DEF StopSignals
<1>20. CASE StopReturns(o)
  BY <1>20 DEF StopReturns
<1>21. CASE SetRecord(o)
  BY <1>21 DEF SetRecord
<1>22. CASE SettingFails(o)
  BY <1>22 DEF SettingFails
<1>23. CASE SetMirror(o)
  BY <1>23 DEF SetMirror
<1>24. CASE SetTarget(o)
  BY <1>24 DEF SetTarget
<1>25. CASE SendLooksUp(o)
  BY <1>25 DEF SendLooksUp
<1>26. CASE SendWrites(o)
  BY <1>26 DEF SendWrites
<1>27. CASE IgnoreLock(o)
  BY <1>27 DEF IgnoreLock
<1>28. CASE OcdListens(o)
  BY <1>28 DEF OcdListens
<1>29. CASE OcdExits(o)
  BY <1>29 DEF OcdExits
<1> HIDE DEF TypeOK, Unsettled, ActivePcs, Goto, reqVars
<1>. QED
  BY <1>1, <1>2, <1>3, <1>4, <1>5, <1>6, <1>7, <1>8, <1>9, <1>10, <1>11,
     <1>12, <1>13, <1>14, <1>15, <1>16, <1>17, <1>18, <1>19, <1>20, <1>21,
     <1>22, <1>23, <1>24, <1>25, <1>26, <1>27, <1>28, <1>29
     DEF ReqStep

(* While something is unsettled only the todo of a waiting loop matters.   *)
LEMMA UnsettledAgrees ==
  ASSUME PassAgrees, Unsettled', UNCHANGED <<runPc, todo>>
  PROVE  PassAgrees'
BY DEF PassAgrees

(* Every step keeps it: a pass makes its board agree, and what spoils the  *)
(* agreement of a board is unsettled, or has the pass before it.           *)
LEMMA PassStep ==
  TypeOK /\ Shape /\ BoardsAreOwned /\ LockedByHolder /\ ShutdownExact /\ PassAgrees
    /\ [Next]_vars => PassAgrees'
<1> SUFFICES ASSUME TypeOK, Shape, BoardsAreOwned, LockedByHolder, ShutdownExact,
                    PassAgrees, [Next]_vars
             PROVE  PassAgrees'
  OBVIOUS
<1> USE RequestAssumption DEF envVars, boardVars, pumpVars, runVars, reqVars,
    ocdVars, Goto
<1>1. ASSUME NEW b \in Boards, BoardLeaves(b)
      PROVE  PassAgrees'
  <2>1. UNCHANGED <<recIgnored, devices, presence, attached, ignored,
                    runPc, todo, seen, cur, policy, poked, missed, pc>>
    BY <1>1 DEF BoardLeaves
  <2>. QED
    BY <2>1, PassFrame DEF Unsettled
<1>2. ASSUME NEW b \in Boards, NEW s \in {"console", "bootsel"},
             BoardReturns(b, s)
      PROVE  PassAgrees'
  <2>1. UNCHANGED <<recIgnored, devices, presence, attached, ignored,
                    runPc, todo, seen, cur, policy, poked, missed, pc>>
    BY <1>2 DEF BoardReturns
  <2>. QED
    BY <2>1, PassFrame DEF Unsettled
<1>3. CASE Cancel
  <2>1. UNCHANGED <<recIgnored, devices, presence, attached, ignored,
                    runPc, todo, seen, cur, policy, poked, missed, pc>>
    BY <1>3 DEF Cancel
  <2>. QED
    BY <2>1, PassFrame DEF Unsettled
<1>4. CASE Tick
  BY <1>4 DEF Tick, TypeOK, Shape, PassAgrees, Agrees, AtCur,
            Unsettled, ShutdownPcs, PresenceOf, wantAttached, ShutdownExact
<1>5. CASE Poked
  BY <1>5 DEF Poked, TypeOK, Shape, PassAgrees, Agrees, AtCur,
            Unsettled, ShutdownPcs, PresenceOf, wantAttached, ShutdownExact
<1>6. CASE Scan
  BY <1>6 DEF Scan, TypeOK, Shape, PassAgrees, Agrees, AtCur,
            Unsettled, ShutdownPcs, PresenceOf, wantAttached, ShutdownExact
<1>7. CASE ScanFails
  BY <1>7 DEF ScanFails, TypeOK, Shape, PassAgrees, Agrees, AtCur,
            Unsettled, ShutdownPcs, PresenceOf, wantAttached, ShutdownExact
<1>8. ASSUME NEW b \in Boards, ReadPolicy(b)
      PROVE  PassAgrees'
  BY <1>8 DEF ReadPolicy, TypeOK, Shape, PassAgrees, Agrees, AtCur,
            Unsettled, ShutdownPcs, PresenceOf, wantAttached, ShutdownExact
<1>9. CASE Observe
  BY <1>9 DEF Observe, TypeOK, Shape, PassAgrees, Agrees, AtCur,
            Unsettled, ShutdownPcs, PresenceOf, wantAttached, ShutdownExact
<1>10. CASE TryLock
  <2>1. cur \in Boards /\ runPc = "tryLock" /\ UNCHANGED <<poked, missed, pc, todo>>
    BY <1>10 DEF TryLock, Shape
  <2>2. CASE ctrl[cur] = Free
    BY <1>10, <2>1, <2>2
       DEF TryLock, PassAgrees, Agrees, AtCur, Unsettled, ShutdownPcs,
                            PresenceOf
  <2>3. CASE ctrl[cur] # Free
    <3>1. ctrl[cur] \in Requests /\ Holds(ctrl[cur])
      BY <2>1, <2>3 DEF LockedByHolder, RunHolds
    <3>2. Unsettled'
      BY <2>1, <3>1 DEF Holds, Unsettled, ActivePcs
    <3>3. runPc' = "board"
      BY <1>10, <2>3 DEF TryLock
    <3>. QED
      BY <3>2, <3>3 DEF PassAgrees
  <2>. QED
    BY <2>2, <2>3
<1>11. CASE Attach
  BY <1>11 DEF Attach, TypeOK, Shape, PassAgrees, Agrees, AtCur,
            Unsettled, ShutdownPcs, PresenceOf, wantAttached, ShutdownExact
<1>12. CASE AttachFails
  BY <1>12 DEF AttachFails, TypeOK, Shape, PassAgrees, Agrees, AtCur,
            Unsettled, ShutdownPcs, PresenceOf, wantAttached, ShutdownExact
<1>13. CASE Keep
  BY <1>13 DEF Keep, TypeOK, Shape, PassAgrees, Agrees, AtCur,
            Unsettled, ShutdownPcs, PresenceOf, wantAttached, ShutdownExact
<1>14. CASE LetGo
  BY <1>14 DEF LetGo, DetachBegin, TypeOK, Shape, PassAgrees, Agrees, AtCur,
            Unsettled, ShutdownPcs, PresenceOf, wantAttached, ShutdownExact
<1>15. CASE Drained
  BY <1>15 DEF Drained, DetachEnd, TypeOK, Shape, PassAgrees, Agrees, AtCur,
            Unsettled, ShutdownPcs, PresenceOf, wantAttached, ShutdownExact
<1>16. CASE PassEnds
  BY <1>16 DEF PassEnds, TypeOK, Shape, PassAgrees, Agrees, AtCur,
            Unsettled, ShutdownPcs, PresenceOf, wantAttached, ShutdownExact
<1>17. CASE Shutdown
  BY <1>17 DEF Shutdown, TypeOK, Shape, PassAgrees, Agrees, AtCur,
            Unsettled, ShutdownPcs, PresenceOf, wantAttached, ShutdownExact
<1>18. ASSUME NEW b \in Boards, ShutdownStops(b)
      PROVE  PassAgrees'
  BY <1>18 DEF ShutdownStops, TypeOK, Shape, PassAgrees, Agrees, AtCur,
            Unsettled, ShutdownPcs, PresenceOf, wantAttached, ShutdownExact
<1>19. CASE ShutdownWaited
  BY <1>19 DEF ShutdownWaited, TypeOK, Shape, PassAgrees, Agrees, AtCur,
            Unsettled, ShutdownPcs, PresenceOf, wantAttached, ShutdownExact
<1>20. CASE ShutdownStopped
  BY <1>20 DEF ShutdownStopped, TypeOK, Shape, PassAgrees, Agrees, AtCur,
            Unsettled, ShutdownPcs, PresenceOf, wantAttached, ShutdownExact
<1>21. ASSUME NEW b \in Boards, ShutdownLocks(b)
      PROVE  PassAgrees'
  BY <1>21 DEF ShutdownLocks, TypeOK, Shape, PassAgrees, Agrees, AtCur,
            Unsettled, ShutdownPcs, PresenceOf, wantAttached, ShutdownExact
<1>22. CASE ShutdownDetaches
  BY <1>22
     DEF ShutdownDetaches, DetachBegin, TypeOK, Shape, PassAgrees, Agrees,
         AtCur,
            Unsettled, ShutdownPcs, PresenceOf, wantAttached, ShutdownExact
<1>23. CASE ShutdownEnds
  BY <1>23 DEF ShutdownEnds, TypeOK, Shape, PassAgrees, Agrees, AtCur,
            Unsettled, ShutdownPcs, PresenceOf, wantAttached, ShutdownExact
<1>24. ASSUME NEW b \in Boards, PumpOpens(b)
      PROVE  PassAgrees'
  <2>1. UNCHANGED <<recIgnored, devices, presence, attached, ignored,
                    runPc, todo, seen, cur, policy, poked, missed, pc>>
    BY <1>24 DEF PumpOpens
  <2>. QED
    BY <2>1, PassFrame DEF Unsettled
<1>25. ASSUME NEW b \in Boards, PumpFails(b)
      PROVE  PassAgrees'
  <2>1. UNCHANGED <<recIgnored, devices, presence, attached, ignored,
                    runPc, todo, seen, cur, policy, poked, missed, pc>>
    BY <1>25 DEF PumpFails
  <2>. QED
    BY <2>1, PassFrame DEF Unsettled
<1>26. ASSUME NEW b \in Boards, PumpStops(b)
      PROVE  PassAgrees'
  <2>1. UNCHANGED <<recIgnored, devices, presence, attached, ignored,
                    runPc, todo, seen, cur, policy, poked, missed, pc>>
    BY <1>26 DEF PumpStops
  <2>. QED
    BY <2>1, PassFrame DEF Unsettled
<1>27. ASSUME NEW b \in Boards, NEW o \in Requests, NEW k \in Kinds,
              Begin(o, k, b)
      PROVE  PassAgrees'
  <2>1. UNCHANGED <<recIgnored, devices, presence, attached, ignored,
                    runPc, todo, seen, cur, policy, poked, missed>>
    BY <1>27 DEF Begin
  <2>2. Unsettled => Unsettled'
    BY <1>27, <2>1 DEF Begin, TypeOK, Unsettled, ActivePcs
  <2>. QED
    BY <2>1, <2>2, PassFrame
<1>28. ASSUME NEW o \in Requests, ClaimLock(o)
      PROVE  PassAgrees'
  <2>1. UNCHANGED <<recIgnored, devices, presence, attached, ignored,
                    runPc, todo, seen, cur, policy>>
    BY <1>28 DEF ClaimLock
  <2>. QED
    BY <1>28, <2>1, PassFrame, StaysUnsettled DEF ReqStep
<1>29. ASSUME NEW o \in Requests, ClaimCheck(o)
      PROVE  PassAgrees'
  <2>1. UNCHANGED <<recIgnored, devices, presence, attached, ignored,
                    runPc, todo, seen, cur, policy>>
    BY <1>29 DEF ClaimCheck
  <2>. QED
    BY <1>29, <2>1, PassFrame, StaysUnsettled DEF ReqStep
<1>30. ASSUME NEW o \in Requests, ClaimMark(o)
      PROVE  PassAgrees'
  <2>1. UNCHANGED <<recIgnored, devices, presence, attached, ignored,
                    runPc, todo, seen, cur, policy>>
    BY <1>30 DEF ClaimMark
  <2>. QED
    BY <1>30, <2>1, PassFrame, StaysUnsettled DEF ReqStep
<1>31. ASSUME NEW o \in Requests, ReleaseIdle(o)
      PROVE  PassAgrees'
  <2>1. UNCHANGED <<recIgnored, devices, presence, attached, ignored,
                    runPc, todo, seen, cur, policy>>
    BY <1>31 DEF ReleaseIdle
  <2>. QED
    BY <1>31, <2>1, PassFrame, StaysUnsettled DEF ReqStep
<1>32. ASSUME NEW o \in Requests, Unlock(o)
      PROVE  PassAgrees'
  <2>1. UNCHANGED <<recIgnored, devices, presence, attached, ignored,
                    runPc, todo, seen, cur, policy>>
    BY <1>32 DEF Unlock
  <2>. QED
    BY <1>32, <2>1, PassFrame, StaysUnsettled DEF ReqStep
<1>33. ASSUME NEW o \in Requests, Poke(o)
      PROVE  PassAgrees'
  <2>1. UNCHANGED <<recIgnored, devices, presence, attached, ignored,
                    runPc, todo, seen, cur, policy>>
    BY <1>33 DEF Poke
  <2>. QED
    BY <1>33, <2>1, PassFrame, StaysUnsettled DEF ReqStep
<1>34. ASSUME NEW o \in Requests, Detach(o)
      PROVE  PassAgrees'
  <2>1. pc'[o] \in ActivePcs
    BY <1>34 DEF Detach, TypeOK, ActivePcs, AfterDetach
  <2>2. UNCHANGED <<runPc, todo>>
    BY <1>34 DEF Detach
  <2>. QED
    BY <2>1, <2>2, UnsettledAgrees DEF Unsettled
<1>35. ASSUME NEW o \in Requests, Detached(o)
      PROVE  PassAgrees'
  <2>1. UNCHANGED <<recIgnored, devices, presence, attached, ignored,
                    runPc, todo, seen, cur, policy>>
    BY <1>35 DEF Detached, DetachEnd
  <2>. QED
    BY <1>35, <2>1, PassFrame, StaysUnsettled DEF ReqStep
<1>36. ASSUME NEW o \in Requests, Touch(o)
      PROVE  PassAgrees'
  <2>1. UNCHANGED <<recIgnored, devices, presence, attached, ignored,
                    runPc, todo, seen, cur, policy>>
    BY <1>36 DEF Touch
  <2>. QED
    BY <1>36, <2>1, PassFrame, StaysUnsettled DEF ReqStep
<1>37. ASSUME NEW o \in Requests, TouchEnds(o)
      PROVE  PassAgrees'
  <2>1. UNCHANGED <<recIgnored, devices, presence, attached, ignored,
                    runPc, todo, seen, cur, policy>>
    BY <1>37 DEF TouchEnds
  <2>. QED
    BY <1>37, <2>1, PassFrame, StaysUnsettled DEF ReqStep
<1>38. ASSUME NEW o \in Requests, WorkEnds(o)
      PROVE  PassAgrees'
  <2>1. UNCHANGED <<recIgnored, devices, presence, attached, ignored,
                    runPc, todo, seen, cur, policy>>
    BY <1>38 DEF WorkEnds
  <2>. QED
    BY <1>38, <2>1, PassFrame, StaysUnsettled DEF ReqStep
<1>39. ASSUME NEW o \in Requests, DebugFails(o)
      PROVE  PassAgrees'
  <2>1. UNCHANGED <<recIgnored, devices, presence, attached, ignored,
                    runPc, todo, seen, cur, policy>>
    BY <1>39 DEF DebugFails
  <2>. QED
    BY <1>39, <2>1, PassFrame, StaysUnsettled DEF ReqStep
<1>40. ASSUME NEW o \in Requests, DebugStarts(o)
      PROVE  PassAgrees'
  <2>1. UNCHANGED <<recIgnored, devices, presence, attached, ignored,
                    runPc, todo, seen, cur, policy>>
    BY <1>40 DEF DebugStarts
  <2>. QED
    BY <1>40, <2>1, PassFrame, StaysUnsettled DEF ReqStep
<1>41. ASSUME NEW o \in Requests, DebugDies(o)
      PROVE  PassAgrees'
  <2>1. UNCHANGED <<recIgnored, devices, presence, attached, ignored,
                    runPc, todo, seen, cur, policy>>
    BY <1>41 DEF DebugDies
  <2>. QED
    BY <1>41, <2>1, PassFrame, StaysUnsettled DEF ReqStep
<1>42. ASSUME NEW o \in Requests, DebugTimesOut(o)
      PROVE  PassAgrees'
  <2>1. UNCHANGED <<recIgnored, devices, presence, attached, ignored,
                    runPc, todo, seen, cur, policy>>
    BY <1>42 DEF DebugTimesOut
  <2>. QED
    BY <1>42, <2>1, PassFrame, StaysUnsettled DEF ReqStep
<1>43. ASSUME NEW o \in Requests, DebugAborted(o)
      PROVE  PassAgrees'
  <2>1. UNCHANGED <<recIgnored, devices, presence, attached, ignored,
                    runPc, todo, seen, cur, policy>>
    BY <1>43 DEF DebugAborted
  <2>. QED
    BY <1>43, <2>1, PassFrame, StaysUnsettled DEF ReqStep
<1>44. ASSUME NEW o \in Requests, SessionEnds(o)
      PROVE  PassAgrees'
  <2>1. UNCHANGED <<recIgnored, devices, presence, attached, ignored,
                    runPc, todo, seen, cur, policy>>
    BY <1>44 DEF SessionEnds
  <2>. QED
    BY <1>44, <2>1, PassFrame, StaysUnsettled DEF ReqStep
<1>45. ASSUME NEW o \in Requests, StopDebug(o)
      PROVE  PassAgrees'
  <2>1. UNCHANGED <<recIgnored, devices, presence, attached, ignored,
                    runPc, todo, seen, cur, policy>>
    BY <1>45 DEF StopDebug
  <2>. QED
    BY <1>45, <2>1, PassFrame, StaysUnsettled DEF ReqStep
<1>46. ASSUME NEW o \in Requests, StopSignals(o)
      PROVE  PassAgrees'
  <2>1. UNCHANGED <<recIgnored, devices, presence, attached, ignored,
                    runPc, todo, seen, cur, policy>>
    BY <1>46 DEF StopSignals
  <2>. QED
    BY <1>46, <2>1, PassFrame, StaysUnsettled DEF ReqStep
<1>47. ASSUME NEW o \in Requests, StopReturns(o)
      PROVE  PassAgrees'
  <2>1. UNCHANGED <<recIgnored, devices, presence, attached, ignored,
                    runPc, todo, seen, cur, policy>>
    BY <1>47 DEF StopReturns
  <2>. QED
    BY <1>47, <2>1, PassFrame, StaysUnsettled DEF ReqStep
<1>48. ASSUME NEW o \in Requests, SetRecord(o)
      PROVE  PassAgrees'
  <2>1. pc'[o] \in ActivePcs
    BY <1>48 DEF SetRecord, TypeOK, ActivePcs
  <2>2. UNCHANGED <<runPc, todo>>
    BY <1>48 DEF SetRecord
  <2>. QED
    BY <2>1, <2>2, UnsettledAgrees DEF Unsettled
<1>49. ASSUME NEW o \in Requests, SettingFails(o)
      PROVE  PassAgrees'
  <2>1. UNCHANGED <<recIgnored, devices, presence, attached, ignored,
                    runPc, todo, seen, cur, policy>>
    BY <1>49 DEF SettingFails
  <2>. QED
    BY <1>49, <2>1, PassFrame, StaysUnsettled DEF ReqStep
<1>50. ASSUME NEW o \in Requests, SetMirror(o)
      PROVE  PassAgrees'
  <2>1. pc'[o] \in ActivePcs
    BY <1>50 DEF SetMirror, TypeOK, ActivePcs
  <2>2. UNCHANGED <<runPc, todo>>
    BY <1>50 DEF SetMirror
  <2>. QED
    BY <2>1, <2>2, UnsettledAgrees DEF Unsettled
<1>51. ASSUME NEW o \in Requests, SetTarget(o)
      PROVE  PassAgrees'
  <2>1. pc'[o] \in ActivePcs
    BY <1>51 DEF SetTarget, TypeOK, ActivePcs
  <2>2. UNCHANGED <<runPc, todo>>
    BY <1>51 DEF SetTarget
  <2>. QED
    BY <2>1, <2>2, UnsettledAgrees DEF Unsettled
<1>52. ASSUME NEW o \in Requests, SendLooksUp(o)
      PROVE  PassAgrees'
  <2>1. UNCHANGED <<recIgnored, devices, presence, attached, ignored,
                    runPc, todo, seen, cur, policy>>
    BY <1>52 DEF SendLooksUp
  <2>. QED
    BY <1>52, <2>1, PassFrame, StaysUnsettled DEF ReqStep
<1>53. ASSUME NEW o \in Requests, SendWrites(o)
      PROVE  PassAgrees'
  <2>1. UNCHANGED <<recIgnored, devices, presence, attached, ignored,
                    runPc, todo, seen, cur, policy>>
    BY <1>53 DEF SendWrites
  <2>. QED
    BY <1>53, <2>1, PassFrame, StaysUnsettled DEF ReqStep
<1>54. ASSUME NEW o \in Requests, IgnoreLock(o)
      PROVE  PassAgrees'
  <2>1. UNCHANGED <<recIgnored, devices, presence, attached, ignored,
                    runPc, todo, seen, cur, policy>>
    BY <1>54 DEF IgnoreLock
  <2>. QED
    BY <1>54, <2>1, PassFrame, StaysUnsettled
<1>55. ASSUME NEW o \in Requests, OcdListens(o)
      PROVE  PassAgrees'
  <2>1. UNCHANGED <<recIgnored, devices, presence, attached, ignored,
                    runPc, todo, seen, cur, policy>>
    BY <1>55 DEF OcdListens
  <2>. QED
    BY <1>55, <2>1, PassFrame, StaysUnsettled
<1>56. ASSUME NEW o \in Requests, OcdExits(o)
      PROVE  PassAgrees'
  <2>1. UNCHANGED <<recIgnored, devices, presence, attached, ignored,
                    runPc, todo, seen, cur, policy>>
    BY <1>56 DEF OcdExits
  <2>. QED
    BY <1>56, <2>1, PassFrame, StaysUnsettled
<1>57. CASE UNCHANGED vars
  BY <1>57 DEF vars, PassAgrees, Agrees, AtCur, Unsettled, PresenceOf
<1> HIDE DEF envVars, boardVars, pumpVars, runVars, reqVars, ocdVars, Goto, TypeOK
<1>. QED
  BY <1>1, <1>2, <1>3, <1>4, <1>5, <1>6, <1>7, <1>8, <1>9, <1>10, <1>11,
     <1>12, <1>13, <1>14, <1>15, <1>16, <1>17, <1>18, <1>19, <1>20, <1>21,
     <1>22, <1>23, <1>24, <1>25, <1>26, <1>27, <1>28, <1>29, <1>30, <1>31,
     <1>32, <1>33, <1>34, <1>35, <1>36, <1>37, <1>38, <1>39, <1>40, <1>41,
     <1>42, <1>43, <1>44, <1>45, <1>46, <1>47, <1>48, <1>49, <1>50, <1>51,
     <1>52, <1>53, <1>54, <1>55, <1>56, <1>57
     DEF Next, BusStep, RunStep, PumpStep, ReqStep

-----------------------------------------------------------------------------
(* The invariants hold at the start, where nothing is tracked.             *)
LEMMA InitPass == Init => PassInv
<1> SUFFICES ASSUME Init
             PROVE  PassInv
  OBVIOUS
<1>1. ManagerInv
  BY InitInv
<1>2. LockedByHolder /\ ShutdownExact /\ OthersExact
  BY DEF Init, LockedByHolder, ShutdownExact, OthersExact, AtCur
<1>3. PassAgrees
  BY DEF Init, PassAgrees
<1>. QED
  BY <1>1, <1>2, <1>3 DEF PassInv

(* They hold of every behaviour of the manager.                            *)
THEOREM PassInvariance == Spec => []PassInv
<1>1. PassInv /\ [Next]_vars => PassInv'
  <2>1. ManagerInv => TypeOK /\ Shape /\ BoardsAreOwned /\ PumpExact
    BY DEF ManagerInv
  <2>. QED
    BY <2>1, NextInv, LockedStep, OthersStep, ShutdownStep, PassStep DEF PassInv
<1>. QED
  BY InitPass, <1>1, PTL DEF Spec

(* After shutdown no board is attached and no pump is left: shutdown has   *)
(* been to every board that had a pump when it began, waited for its end,  *)
(* and attaches none itself.                                               *)
THEOREM ShutdownLeavesNothing == Spec => []StoppedHoldsNothing
<1>1. PassInv => StoppedHoldsNothing
  BY DEF PassInv, ManagerInv, PumpExact, ShutdownExact, StoppedHoldsNothing
<1>. QED
  BY PassInvariance, <1>1, PTL

(* In a quiet manager no board disagrees with the last pass, so that a     *)
(* poke was lost for none, whatever claims, settings and shared passes     *)
(* came before.                                                            *)
THEOREM NoWakeupIsLost == Spec => []NoLostWakeup
<1>1. PassInv => NoLostWakeup
  <2> SUFFICES ASSUME PassInv, Quiet, NEW b \in devices,
                      presence[b] = PresenceOf(bus[b])
               PROVE  attached[b] <=> (bus[b] = "console" /\ ~recIgnored[b])
    BY DEF NoLostWakeup
  <2>1. Agrees(b)
    BY DEF PassInv, PassAgrees, Quiet, Unsettled, ActivePcs, AtCur, ShutdownPcs
  <2>2. bus[b] \in BusStates
    BY DEF PassInv, ManagerInv, TypeOK
  <2>. QED
    BY <2>1, <2>2 DEF Agrees, PresenceOf, BusStates
<1>. QED
  BY PassInvariance, <1>1, PTL

(* In a quiet manager the mirror of every board on the bus is what the     *)
(* store says, however many calls of SetIgnored crossed each other and     *)
(* whichever of them a pass read.                                          *)
THEOREM MirrorIsRefreshed == Spec => []MirrorFollowsStore
<1>1. PassInv => MirrorFollowsStore
  <2> SUFFICES ASSUME PassInv, Quiet, NEW b \in devices, presence[b] # "Gone"
               PROVE  ignored[b] = recIgnored[b]
    BY DEF MirrorFollowsStore
  <2>1. Agrees(b)
    BY DEF PassInv, PassAgrees, Quiet, Unsettled, ActivePcs, AtCur, ShutdownPcs
  <2>. QED
    BY <2>1 DEF Agrees
<1>. QED
  BY PassInvariance, <1>1, PTL

(* Unless there are calls of Send, nobody but an owner has a device open   *)
(* on the tty of a board that is not attached.                             *)
THEOREM PortsAreReleased ==
  ASSUME "send" \notin Kinds
  PROVE  Spec => []ReleasedPortIsClosed
<1>1. PassInv => ReleasedPortIsClosed
  <2> SUFFICES ASSUME PassInv, NEW b \in Boards, ~attached[b], ctrl[b] = Free
               PROVE  port[b] # "open" /\ others[b] = {}
    BY DEF ReleasedPortIsClosed
  <2>1. ~Draining(b)
    BY RequestAssumption
       DEF PassInv, ManagerInv, BoardsAreOwned, Draining, Holds, RunHolds, Free, Run
  <2>2. port[b] = "closed"
    BY <2>1 DEF PassInv, ManagerInv, PumpExact
  <2>3. ASSUME NEW o \in others[b]
        PROVE  FALSE
    <3>1. o \in Requests /\ kind[o] \in Kinds \cup {None}
      BY DEF PassInv, ManagerInv, TypeOK, OthersExact
    <3>2. kind[o] # "send"
      BY <3>1 DEF None
    <3>3. pc[o] = "touch" /\ tgt[o] = b
      BY <3>2 DEF PassInv, OthersExact
    <3>4. ctrl[b] = o
      BY <3>1, <3>3 DEF PassInv, ManagerInv, BoardsAreOwned, Holds
    <3>. QED
      BY <3>1, <3>4, RequestAssumption DEF Free
  <2>. QED
    BY <2>2, <2>3
<1>. QED
  BY PassInvariance, <1>1, PTL
=============================================================================
