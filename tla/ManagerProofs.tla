---------------------------- MODULE ManagerProofs ----------------------------
(***************************************************************************)
(* What the manager guarantees for every set of boards and requests.       *)
(* ManagerInv (ManagerProps) is inductive. Each of its parts has a lemma   *)
(* that goes through the actions; most actions leave alone what the part   *)
(* is about and the prover sees it from their definition, so that a step   *)
(* has a proof of its own only where it splits on the action's condition.  *)
(***************************************************************************)
EXTENDS ManagerProps, TLAPS

(* The points that Run passes. *)
LEMMA RunMembers ==
  /\ "select" \in RunPcs
  /\ "scan" \in RunPcs
  /\ "board" \in RunPcs
  /\ "observe" \in RunPcs
  /\ "tryLock" \in RunPcs
  /\ "decide" \in RunPcs
  /\ "drain" \in RunPcs
  /\ "stopDebugs" \in RunPcs
  /\ "stopWait" \in RunPcs
  /\ "lock" \in RunPcs
  /\ "owned" \in RunPcs
  /\ "lastDrain" \in RunPcs
  /\ "stopped" \in RunPcs
BY DEF RunPcs

(* The points that a request passes. *)
LEMMA ReqMembers ==
  /\ "idle" \in ReqPcs
  /\ "begin" \in ReqPcs
  /\ "claimed" \in ReqPcs
  /\ "accepted" \in ReqPcs
  /\ "owned" \in ReqPcs
  /\ "draining" \in ReqPcs
  /\ "work" \in ReqPcs
  /\ "touch" \in ReqPcs
  /\ "write" \in ReqPcs
  /\ "launch" \in ReqPcs
  /\ "abort" \in ReqPcs
  /\ "watch" \in ReqPcs
  /\ "signal" \in ReqPcs
  /\ "release" \in ReqPcs
  /\ "unlock" \in ReqPcs
  /\ "poke" \in ReqPcs
  /\ "mirror" \in ReqPcs
  /\ "lock" \in ReqPcs
  /\ "await" \in ReqPcs
  /\ "send" \in ReqPcs
  /\ "done" \in ReqPcs
BY DEF ReqPcs

(* The activities, "" among them. *)
LEMMA ActivityMembers ==
  /\ NotBusy \in Activities
  /\ \A o \in Requests : Activity(o) \in Activities
BY Zenon DEF Activities, Activity, ActivityOf

(* Every action keeps the variables in their types. *)
LEMMA TypeStep == TypeOK /\ Shape /\ [Next]_vars => TypeOK'
<1> SUFFICES ASSUME TypeOK, Shape, [Next]_vars PROVE TypeOK'
  OBVIOUS
<1> USE DEF TypeOK, envVars, boardVars, pumpVars, runVars, reqVars, ocdVars,
            Goto, Free, Run, None
<1>1. ASSUME NEW b \in Boards, BoardLeaves(b)
      PROVE  TypeOK'
  <2>1. (port \in [Boards -> {"closed", "open", "lost"}])'
    BY <1>1 DEF BoardLeaves
  <2>2. (bus \in [Boards -> BusStates] /\ others \in [Boards -> SUBSET Requests])'
    BY <1>1 DEF BoardLeaves, BusStates
  <2>. QED
    BY <1>1, <2>1, <2>2 DEF BoardLeaves
<1>2. ASSUME NEW b \in Boards, NEW s \in {"console", "bootsel"}, BoardReturns(b, s)
      PROVE  TypeOK'
  BY <1>2 DEF BoardReturns, BusStates
<1>3. CASE Cancel
  BY <1>3 DEF Cancel
<1>4. CASE Tick
  BY <1>4, RunMembers DEF Tick
<1>5. CASE Poked
  BY <1>5, RunMembers DEF Poked
<1>6. CASE Scan
  BY <1>6, RunMembers DEF Scan
<1>7. CASE ScanFails
  BY <1>7, RunMembers DEF ScanFails
<1>8. ASSUME NEW b \in Boards, ReadPolicy(b)
      PROVE  TypeOK'
  <2>1. policy' \in BOOLEAN /\ missed' \in BOOLEAN
    <3>1. CASE DiskFaults /\ seen[b] # "absent" /\ recIgnored[b] /\ policy' = FALSE /\ missed' = TRUE
      BY <3>1
    <3>2. CASE /\ policy' = (IF seen[b] # "absent" THEN recIgnored[b] ELSE ignored[b])
               /\ UNCHANGED missed
      <4>1. recIgnored[b] \in BOOLEAN /\ ignored[b] \in BOOLEAN
        OBVIOUS
      <4>. QED
        BY <3>2, <4>1
    <3>. QED
      BY <1>8, <3>1, <3>2, Zenon DEF ReadPolicy
  <2>2. runPc' \in RunPcs /\ devices' \subseteq Boards /\ todo' \subseteq Boards
        /\ cur' \in Boards
    BY <1>8, RunMembers DEF ReadPolicy
  <2>. QED
    BY <1>8, <2>1, <2>2 DEF ReadPolicy
<1>9. CASE Observe
  BY <1>9, RunMembers DEF Observe, PresenceOf, BusStates, Presences
<1>10. CASE TryLock
  BY <1>10, RunMembers DEF TryLock
<1>11. CASE Attach
  BY <1>11, RunMembers DEF Attach
<1>12. CASE AttachFails
  BY <1>12, RunMembers DEF AttachFails
<1>13. CASE Keep
  BY <1>13, RunMembers DEF Keep
<1>14. CASE LetGo
  BY <1>14, RunMembers DEF LetGo, DetachBegin
<1>15. CASE Drained
  BY <1>15, RunMembers DEF Drained, DetachEnd
<1>16. CASE PassEnds
  BY <1>16, RunMembers DEF PassEnds, BusStates
<1>17. CASE Shutdown
  BY <1>17, RunMembers DEF Shutdown
<1>18. ASSUME NEW b \in Boards, ShutdownStops(b)
      PROVE  TypeOK'
  BY <1>18, RunMembers DEF ShutdownStops, Signalled
<1>19. CASE ShutdownWaited
  BY <1>19, RunMembers DEF ShutdownWaited
<1>20. CASE ShutdownStopped
  BY <1>20, RunMembers DEF ShutdownStopped
<1>21. ASSUME NEW b \in Boards, ShutdownLocks(b)
      PROVE  TypeOK'
  BY <1>21, RunMembers DEF ShutdownLocks
<1>22. CASE ShutdownDetaches
  <2>1. CASE attached[cur]
    <3>1. (attached \in [Boards -> BOOLEAN] /\ stop \in [Boards -> BOOLEAN])'
      BY <1>22, <2>1 DEF ShutdownDetaches, DetachBegin
    <3>2. runPc' \in RunPcs
      BY <1>22, <2>1, RunMembers DEF ShutdownDetaches
    <3>. QED
      BY <1>22, <2>1, <3>1, <3>2 DEF ShutdownDetaches
  <2>2. CASE ~attached[cur]
    BY <1>22, <2>2, RunMembers DEF ShutdownDetaches
  <2>. QED
    BY <2>1, <2>2
<1>23. CASE ShutdownEnds
  BY <1>23, RunMembers DEF ShutdownEnds
<1>24. ASSUME NEW b \in Boards, PumpOpens(b)
      PROVE  TypeOK'
  BY <1>24 DEF PumpOpens
<1>25. ASSUME NEW b \in Boards, PumpFails(b)
      PROVE  TypeOK'
  BY <1>25 DEF PumpFails
<1>26. ASSUME NEW b \in Boards, PumpStops(b)
      PROVE  TypeOK'
  BY <1>26 DEF PumpStops
<1>27. ASSUME NEW b \in Boards, NEW o \in Requests, NEW k \in Kinds, Begin(o, k, b)
      PROVE  TypeOK'
  BY <1>27, ReqMembers, KindAssumption DEF Begin
<1>28. ASSUME NEW o \in Requests, ClaimLock(o)
      PROVE  TypeOK'
  BY <1>28, ReqMembers DEF ClaimLock
<1>29. ASSUME NEW o \in Requests, ClaimCheck(o)
      PROVE  TypeOK'
  <2>1. CASE Refused(o)
    BY <1>29, <2>1, ReqMembers DEF ClaimCheck
  <2>2. CASE ~Refused(o)
    BY <1>29, <2>2, ReqMembers DEF ClaimCheck
  <2>. QED
    BY <2>1, <2>2
<1>30. ASSUME NEW o \in Requests, ClaimMark(o)
      PROVE  TypeOK'
  BY <1>30, ReqMembers, ActivityMembers DEF ClaimMark
<1>31. ASSUME NEW o \in Requests, ReleaseIdle(o)
      PROVE  TypeOK'
  BY <1>31, ReqMembers, ActivityMembers DEF ReleaseIdle
<1>32. ASSUME NEW o \in Requests, Unlock(o)
      PROVE  TypeOK'
  BY <1>32, ReqMembers DEF Unlock
<1>33. ASSUME NEW o \in Requests, Poke(o)
      PROVE  TypeOK'
  BY <1>33, ReqMembers DEF Poke
<1>34. ASSUME NEW o \in Requests, Detach(o)
      PROVE  TypeOK'
  <2>1. CASE attached[tgt[o]]
    <3>1. (attached \in [Boards -> BOOLEAN] /\ stop \in [Boards -> BOOLEAN])'
      BY <1>34, <2>1 DEF Detach, DetachBegin
    <3>2. (pc \in [Requests -> ReqPcs])'
      BY <1>34, <2>1, ReqMembers DEF Detach
    <3>. QED
      BY <1>34, <2>1, <3>1, <3>2 DEF Detach
  <2>2. CASE ~attached[tgt[o]]
    BY <1>34, <2>2, ReqMembers DEF Detach, AfterDetach, Launched
  <2>. QED
    BY <2>1, <2>2
<1>35. ASSUME NEW o \in Requests, Detached(o)
      PROVE  TypeOK'
  BY <1>35, ReqMembers DEF Detached, DetachEnd, AfterDetach, Launched
<1>36. ASSUME NEW o \in Requests, Touch(o)
      PROVE  TypeOK'
  BY <1>36, ReqMembers DEF Touch
<1>37. ASSUME NEW o \in Requests, TouchEnds(o)
      PROVE  TypeOK'
  BY <1>37, ReqMembers DEF TouchEnds
<1>38. ASSUME NEW o \in Requests, WorkEnds(o)
      PROVE  TypeOK'
  BY <1>38, ReqMembers DEF WorkEnds
<1>39. ASSUME NEW o \in Requests, DebugFails(o)
      PROVE  TypeOK'
  BY <1>39, ReqMembers DEF DebugFails
<1>40. ASSUME NEW o \in Requests, DebugStarts(o)
      PROVE  TypeOK'
  BY <1>40, ReqMembers DEF DebugStarts
<1>41. ASSUME NEW o \in Requests, DebugDies(o)
      PROVE  TypeOK'
  BY <1>41, ReqMembers DEF DebugDies
<1>42. ASSUME NEW o \in Requests, DebugTimesOut(o)
      PROVE  TypeOK'
  BY <1>42, ReqMembers DEF DebugTimesOut, Signalled
<1>43. ASSUME NEW o \in Requests, DebugAborted(o)
      PROVE  TypeOK'
  BY <1>43, ReqMembers DEF DebugAborted
<1>44. ASSUME NEW o \in Requests, SessionEnds(o)
      PROVE  TypeOK'
  BY <1>44, ReqMembers DEF SessionEnds
<1>45. ASSUME NEW o \in Requests, StopDebug(o)
      PROVE  TypeOK'
  <2>1. CASE ocdSrv[tgt[o]] = None
    BY <1>45, <2>1, ReqMembers DEF StopDebug
  <2>2. CASE ocdSrv[tgt[o]] # None
    <3>1. tgt[o] \in Boards
      BY <1>45 DEF StopDebug, Shape
    <3>2. ocdSrv[tgt[o]] \in Requests
      BY <2>2, <3>1
    <3>. QED
      BY <1>45, <2>2, <3>2, ReqMembers DEF StopDebug
  <2>. QED
    BY <2>1, <2>2
<1>46. ASSUME NEW o \in Requests, StopSignals(o)
      PROVE  TypeOK'
  BY <1>46, ReqMembers DEF StopSignals, Signalled
<1>47. ASSUME NEW o \in Requests, StopReturns(o)
      PROVE  TypeOK'
  BY <1>47, ReqMembers DEF StopReturns
<1>48. ASSUME NEW o \in Requests, SetRecord(o)
      PROVE  TypeOK'
  BY <1>48, ReqMembers DEF SetRecord
<1>49. ASSUME NEW o \in Requests, SettingFails(o)
      PROVE  TypeOK'
  BY <1>49, ReqMembers DEF SettingFails
<1>50. ASSUME NEW o \in Requests, SetMirror(o)
      PROVE  TypeOK'
  <2>1. tgt[o] \in Boards
    BY <1>50 DEF SetMirror, Shape
  <2>. QED
    BY <1>50, <2>1, ReqMembers DEF SetMirror
<1>51. ASSUME NEW o \in Requests, SetTarget(o)
      PROVE  TypeOK'
  <2>1. tgt[o] \in Boards
    BY <1>51 DEF SetTarget, Shape
  <2>. QED
    BY <1>51, <2>1, ReqMembers DEF SetTarget
<1>52. ASSUME NEW o \in Requests, SendLooksUp(o)
      PROVE  TypeOK'
  BY <1>52, ReqMembers DEF SendLooksUp
<1>53. ASSUME NEW o \in Requests, SendWrites(o)
      PROVE  TypeOK'
  <2>1. (pc \in [Requests -> ReqPcs] /\ closedDev \subseteq Requests)'
    BY <1>53, ReqMembers DEF SendWrites
  <2>2. (port \in [Boards -> {"closed", "open", "lost"}])'
    BY <1>53 DEF SendWrites
  <2>3. (others \in [Boards -> SUBSET Requests])'
    BY <1>53 DEF SendWrites
  <2>. QED
    BY <1>53, <2>1, <2>2, <2>3 DEF SendWrites
<1>54. ASSUME NEW o \in Requests, IgnoreLock(o)
      PROVE  TypeOK'
  BY <1>54, ReqMembers DEF IgnoreLock
<1>55. ASSUME NEW o \in Requests, OcdListens(o)
      PROVE  TypeOK'
  BY <1>55 DEF OcdListens
<1>56. ASSUME NEW o \in Requests, OcdExits(o)
      PROVE  TypeOK'
  BY <1>56 DEF OcdExits
<1>57. CASE UNCHANGED vars
  BY <1>57 DEF vars
<1>. QED
  BY <1>1, <1>2, <1>3, <1>4, <1>5, <1>6, <1>7, <1>8, <1>9, <1>10,
     <1>11, <1>12, <1>13, <1>14, <1>15, <1>16, <1>17, <1>18, <1>19, <1>20,
     <1>21, <1>22, <1>23, <1>24, <1>25, <1>26, <1>27, <1>28, <1>29, <1>30,
     <1>31, <1>32, <1>33, <1>34, <1>35, <1>36, <1>37, <1>38, <1>39, <1>40,
     <1>41, <1>42, <1>43, <1>44, <1>45, <1>46, <1>47, <1>48, <1>49, <1>50,
     <1>51, <1>52, <1>53, <1>54, <1>55, <1>56, <1>57
     DEF Next, BusStep, RunStep, PumpStep, ReqStep

(* A request keeps its board and kind, and only the kinds that may reach a *)
(* point are there.                                                        *)
LEMMA ShapeStep == TypeOK /\ Shape /\ [Next]_vars => Shape'
<1> SUFFICES ASSUME TypeOK, Shape, [Next]_vars PROVE Shape'
  OBVIOUS
<1> USE DEF TypeOK, Shape, RunHolds, Claims, runVars, reqVars, Goto
<1>1. ASSUME NEW b \in Boards, BoardLeaves(b)
      PROVE  Shape'
  BY <1>1 DEF BoardLeaves
<1>2. ASSUME NEW b \in Boards, NEW s \in {"console", "bootsel"}, BoardReturns(b, s)
      PROVE  Shape'
  BY <1>2 DEF BoardReturns
<1>3. CASE Cancel
  BY <1>3 DEF Cancel
<1>4. CASE Tick
  BY <1>4 DEF Tick
<1>5. CASE Poked
  BY <1>5 DEF Poked
<1>6. CASE Scan
  BY <1>6 DEF Scan
<1>7. CASE ScanFails
  BY <1>7 DEF ScanFails
<1>8. ASSUME NEW b \in Boards, ReadPolicy(b)
      PROVE  Shape'
  BY <1>8 DEF ReadPolicy
<1>9. CASE Observe
  BY <1>9 DEF Observe, PresenceOf
<1>10. CASE TryLock
  BY <1>10 DEF TryLock
<1>11. CASE Attach
  BY <1>11 DEF Attach
<1>12. CASE AttachFails
  BY <1>12 DEF AttachFails
<1>13. CASE Keep
  BY <1>13 DEF Keep
<1>14. CASE LetGo
  BY <1>14 DEF LetGo, DetachBegin
<1>15. CASE Drained
  BY <1>15 DEF Drained, DetachEnd
<1>16. CASE PassEnds
  BY <1>16 DEF PassEnds
<1>17. CASE Shutdown
  BY <1>17 DEF Shutdown
<1>18. ASSUME NEW b \in Boards, ShutdownStops(b)
      PROVE  Shape'
  BY <1>18 DEF ShutdownStops, Signalled
<1>19. CASE ShutdownWaited
  BY <1>19 DEF ShutdownWaited
<1>20. CASE ShutdownStopped
  BY <1>20 DEF ShutdownStopped
<1>21. ASSUME NEW b \in Boards, ShutdownLocks(b)
      PROVE  Shape'
  BY <1>21 DEF ShutdownLocks
<1>22. CASE ShutdownDetaches
  BY <1>22 DEF ShutdownDetaches, DetachBegin
<1>23. CASE ShutdownEnds
  BY <1>23 DEF ShutdownEnds
<1>24. ASSUME NEW b \in Boards, PumpOpens(b)
      PROVE  Shape'
  BY <1>24 DEF PumpOpens
<1>25. ASSUME NEW b \in Boards, PumpFails(b)
      PROVE  Shape'
  BY <1>25 DEF PumpFails
<1>26. ASSUME NEW b \in Boards, PumpStops(b)
      PROVE  Shape'
  BY <1>26 DEF PumpStops
<1>27. ASSUME NEW b \in Boards, NEW o \in Requests, NEW k \in Kinds, Begin(o, k, b)
      PROVE  Shape'
  BY <1>27, KindAssumption DEF Begin
<1>28. ASSUME NEW o \in Requests, ClaimLock(o)
      PROVE  Shape'
  BY <1>28 DEF ClaimLock
<1>29. ASSUME NEW o \in Requests, ClaimCheck(o)
      PROVE  Shape'
  BY <1>29 DEF ClaimCheck
<1>30. ASSUME NEW o \in Requests, ClaimMark(o)
      PROVE  Shape'
  BY <1>30 DEF ClaimMark
<1>31. ASSUME NEW o \in Requests, ReleaseIdle(o)
      PROVE  Shape'
  BY <1>31 DEF ReleaseIdle
<1>32. ASSUME NEW o \in Requests, Unlock(o)
      PROVE  Shape'
  BY <1>32 DEF Unlock
<1>33. ASSUME NEW o \in Requests, Poke(o)
      PROVE  Shape'
  BY <1>33 DEF Poke
<1>34. ASSUME NEW o \in Requests, Detach(o)
      PROVE  Shape'
  BY <1>34 DEF Detach, DetachBegin, AfterDetach, Launched
<1>35. ASSUME NEW o \in Requests, Detached(o)
      PROVE  Shape'
  BY <1>35 DEF Detached, DetachEnd, AfterDetach, Launched
<1>36. ASSUME NEW o \in Requests, Touch(o)
      PROVE  Shape'
  BY <1>36 DEF Touch
<1>37. ASSUME NEW o \in Requests, TouchEnds(o)
      PROVE  Shape'
  BY <1>37 DEF TouchEnds
<1>38. ASSUME NEW o \in Requests, WorkEnds(o)
      PROVE  Shape'
  BY <1>38 DEF WorkEnds
<1>39. ASSUME NEW o \in Requests, DebugFails(o)
      PROVE  Shape'
  BY <1>39 DEF DebugFails
<1>40. ASSUME NEW o \in Requests, DebugStarts(o)
      PROVE  Shape'
  BY <1>40 DEF DebugStarts
<1>41. ASSUME NEW o \in Requests, DebugDies(o)
      PROVE  Shape'
  BY <1>41 DEF DebugDies
<1>42. ASSUME NEW o \in Requests, DebugTimesOut(o)
      PROVE  Shape'
  BY <1>42 DEF DebugTimesOut, Signalled
<1>43. ASSUME NEW o \in Requests, DebugAborted(o)
      PROVE  Shape'
  BY <1>43 DEF DebugAborted
<1>44. ASSUME NEW o \in Requests, SessionEnds(o)
      PROVE  Shape'
  BY <1>44 DEF SessionEnds
<1>45. ASSUME NEW o \in Requests, StopDebug(o)
      PROVE  Shape'
  BY <1>45 DEF StopDebug
<1>46. ASSUME NEW o \in Requests, StopSignals(o)
      PROVE  Shape'
  BY <1>46 DEF StopSignals, Signalled
<1>47. ASSUME NEW o \in Requests, StopReturns(o)
      PROVE  Shape'
  BY <1>47 DEF StopReturns
<1>48. ASSUME NEW o \in Requests, SetRecord(o)
      PROVE  Shape'
  BY <1>48 DEF SetRecord
<1>49. ASSUME NEW o \in Requests, SettingFails(o)
      PROVE  Shape'
  BY <1>49 DEF SettingFails
<1>50. ASSUME NEW o \in Requests, SetMirror(o)
      PROVE  Shape'
  BY <1>50 DEF SetMirror
<1>51. ASSUME NEW o \in Requests, SetTarget(o)
      PROVE  Shape'
  BY <1>51 DEF SetTarget
<1>52. ASSUME NEW o \in Requests, SendLooksUp(o)
      PROVE  Shape'
  BY <1>52 DEF SendLooksUp
<1>53. ASSUME NEW o \in Requests, SendWrites(o)
      PROVE  Shape'
  BY <1>53 DEF SendWrites
<1>54. ASSUME NEW o \in Requests, IgnoreLock(o)
      PROVE  Shape'
  BY <1>54 DEF IgnoreLock
<1>55. ASSUME NEW o \in Requests, OcdListens(o)
      PROVE  Shape'
  BY <1>55 DEF OcdListens
<1>56. ASSUME NEW o \in Requests, OcdExits(o)
      PROVE  Shape'
  BY <1>56 DEF OcdExits
<1>57. CASE UNCHANGED vars
  BY <1>57 DEF vars
<1>. QED
  BY <1>1, <1>2, <1>3, <1>4, <1>5, <1>6, <1>7, <1>8, <1>9, <1>10,
     <1>11, <1>12, <1>13, <1>14, <1>15, <1>16, <1>17, <1>18, <1>19, <1>20,
     <1>21, <1>22, <1>23, <1>24, <1>25, <1>26, <1>27, <1>28, <1>29, <1>30,
     <1>31, <1>32, <1>33, <1>34, <1>35, <1>36, <1>37, <1>38, <1>39, <1>40,
     <1>41, <1>42, <1>43, <1>44, <1>45, <1>46, <1>47, <1>48, <1>49, <1>50,
     <1>51, <1>52, <1>53, <1>54, <1>55, <1>56, <1>57
     DEF Next, BusStep, RunStep, PumpStep, ReqStep

(* Whoever is inside an exclusive section got the mutex on entering it,    *)
(* and nobody takes it from them.                                          *)
LEMMA OwnedStep == TypeOK /\ Shape /\ BoardsAreOwned /\ [Next]_vars => BoardsAreOwned'
<1> SUFFICES ASSUME TypeOK, Shape, BoardsAreOwned, [Next]_vars PROVE BoardsAreOwned'
  OBVIOUS
<1> USE RequestAssumption
     DEF TypeOK, Shape, BoardsAreOwned, Holds, RunHolds, Claims, boardVars,
         runVars, reqVars, Goto, Free, Run
<1>1. ASSUME NEW b \in Boards, BoardLeaves(b)
      PROVE  BoardsAreOwned'
  BY <1>1 DEF BoardLeaves
<1>2. ASSUME NEW b \in Boards, NEW s \in {"console", "bootsel"}, BoardReturns(b, s)
      PROVE  BoardsAreOwned'
  BY <1>2 DEF BoardReturns
<1>3. CASE Cancel
  BY <1>3 DEF Cancel
<1>4. CASE Tick
  BY <1>4 DEF Tick
<1>5. CASE Poked
  BY <1>5 DEF Poked
<1>6. CASE Scan
  BY <1>6 DEF Scan
<1>7. CASE ScanFails
  BY <1>7 DEF ScanFails
<1>8. ASSUME NEW b \in Boards, ReadPolicy(b)
      PROVE  BoardsAreOwned'
  BY <1>8 DEF ReadPolicy
<1>9. CASE Observe
  BY <1>9 DEF Observe, PresenceOf
<1>10. CASE TryLock
  BY <1>10 DEF TryLock
<1>11. CASE Attach
  BY <1>11 DEF Attach
<1>12. CASE AttachFails
  BY <1>12 DEF AttachFails
<1>13. CASE Keep
  BY <1>13 DEF Keep
<1>14. CASE LetGo
  BY <1>14 DEF LetGo, DetachBegin
<1>15. CASE Drained
  BY <1>15 DEF Drained, DetachEnd
<1>16. CASE PassEnds
  BY <1>16 DEF PassEnds
<1>17. CASE Shutdown
  BY <1>17 DEF Shutdown
<1>18. ASSUME NEW b \in Boards, ShutdownStops(b)
      PROVE  BoardsAreOwned'
  BY <1>18 DEF ShutdownStops, Signalled
<1>19. CASE ShutdownWaited
  BY <1>19 DEF ShutdownWaited
<1>20. CASE ShutdownStopped
  BY <1>20 DEF ShutdownStopped
<1>21. ASSUME NEW b \in Boards, ShutdownLocks(b)
      PROVE  BoardsAreOwned'
  BY <1>21 DEF ShutdownLocks
<1>22. CASE ShutdownDetaches
  BY <1>22 DEF ShutdownDetaches, DetachBegin
<1>23. CASE ShutdownEnds
  BY <1>23 DEF ShutdownEnds
<1>24. ASSUME NEW b \in Boards, PumpOpens(b)
      PROVE  BoardsAreOwned'
  BY <1>24 DEF PumpOpens
<1>25. ASSUME NEW b \in Boards, PumpFails(b)
      PROVE  BoardsAreOwned'
  BY <1>25 DEF PumpFails
<1>26. ASSUME NEW b \in Boards, PumpStops(b)
      PROVE  BoardsAreOwned'
  BY <1>26 DEF PumpStops
<1>27. ASSUME NEW b \in Boards, NEW o \in Requests, NEW k \in Kinds, Begin(o, k, b)
      PROVE  BoardsAreOwned'
  BY <1>27 DEF Begin
<1>28. ASSUME NEW o \in Requests, ClaimLock(o)
      PROVE  BoardsAreOwned'
  <2>1. CASE tgt[o] \in devices /\ ctrl[tgt[o]] = Free
    BY <1>28, <2>1 DEF ClaimLock
  <2>2. CASE ~(tgt[o] \in devices /\ ctrl[tgt[o]] = Free)
    BY <1>28, <2>2 DEF ClaimLock
  <2>. QED
    BY <2>1, <2>2
<1>29. ASSUME NEW o \in Requests, ClaimCheck(o)
      PROVE  BoardsAreOwned'
  BY <1>29 DEF ClaimCheck
<1>30. ASSUME NEW o \in Requests, ClaimMark(o)
      PROVE  BoardsAreOwned'
  BY <1>30 DEF ClaimMark
<1>31. ASSUME NEW o \in Requests, ReleaseIdle(o)
      PROVE  BoardsAreOwned'
  BY <1>31 DEF ReleaseIdle
<1>32. ASSUME NEW o \in Requests, Unlock(o)
      PROVE  BoardsAreOwned'
  BY <1>32 DEF Unlock
<1>33. ASSUME NEW o \in Requests, Poke(o)
      PROVE  BoardsAreOwned'
  BY <1>33 DEF Poke
<1>34. ASSUME NEW o \in Requests, Detach(o)
      PROVE  BoardsAreOwned'
  BY <1>34 DEF Detach, DetachBegin, AfterDetach, Launched
<1>35. ASSUME NEW o \in Requests, Detached(o)
      PROVE  BoardsAreOwned'
  BY <1>35 DEF Detached, DetachEnd, AfterDetach, Launched
<1>36. ASSUME NEW o \in Requests, Touch(o)
      PROVE  BoardsAreOwned'
  BY <1>36 DEF Touch
<1>37. ASSUME NEW o \in Requests, TouchEnds(o)
      PROVE  BoardsAreOwned'
  BY <1>37 DEF TouchEnds
<1>38. ASSUME NEW o \in Requests, WorkEnds(o)
      PROVE  BoardsAreOwned'
  BY <1>38 DEF WorkEnds
<1>39. ASSUME NEW o \in Requests, DebugFails(o)
      PROVE  BoardsAreOwned'
  BY <1>39 DEF DebugFails
<1>40. ASSUME NEW o \in Requests, DebugStarts(o)
      PROVE  BoardsAreOwned'
  BY <1>40 DEF DebugStarts
<1>41. ASSUME NEW o \in Requests, DebugDies(o)
      PROVE  BoardsAreOwned'
  BY <1>41 DEF DebugDies
<1>42. ASSUME NEW o \in Requests, DebugTimesOut(o)
      PROVE  BoardsAreOwned'
  BY <1>42 DEF DebugTimesOut, Signalled
<1>43. ASSUME NEW o \in Requests, DebugAborted(o)
      PROVE  BoardsAreOwned'
  BY <1>43 DEF DebugAborted
<1>44. ASSUME NEW o \in Requests, SessionEnds(o)
      PROVE  BoardsAreOwned'
  BY <1>44 DEF SessionEnds
<1>45. ASSUME NEW o \in Requests, StopDebug(o)
      PROVE  BoardsAreOwned'
  BY <1>45 DEF StopDebug
<1>46. ASSUME NEW o \in Requests, StopSignals(o)
      PROVE  BoardsAreOwned'
  BY <1>46 DEF StopSignals, Signalled
<1>47. ASSUME NEW o \in Requests, StopReturns(o)
      PROVE  BoardsAreOwned'
  BY <1>47 DEF StopReturns
<1>48. ASSUME NEW o \in Requests, SetRecord(o)
      PROVE  BoardsAreOwned'
  BY <1>48 DEF SetRecord
<1>49. ASSUME NEW o \in Requests, SettingFails(o)
      PROVE  BoardsAreOwned'
  BY <1>49 DEF SettingFails
<1>50. ASSUME NEW o \in Requests, SetMirror(o)
      PROVE  BoardsAreOwned'
  BY <1>50 DEF SetMirror
<1>51. ASSUME NEW o \in Requests, SetTarget(o)
      PROVE  BoardsAreOwned'
  BY <1>51 DEF SetTarget
<1>52. ASSUME NEW o \in Requests, SendLooksUp(o)
      PROVE  BoardsAreOwned'
  BY <1>52 DEF SendLooksUp
<1>53. ASSUME NEW o \in Requests, SendWrites(o)
      PROVE  BoardsAreOwned'
  BY <1>53 DEF SendWrites
<1>54. ASSUME NEW o \in Requests, IgnoreLock(o)
      PROVE  BoardsAreOwned'
  BY <1>54 DEF IgnoreLock
<1>55. ASSUME NEW o \in Requests, OcdListens(o)
      PROVE  BoardsAreOwned'
  BY <1>55 DEF OcdListens
<1>56. ASSUME NEW o \in Requests, OcdExits(o)
      PROVE  BoardsAreOwned'
  BY <1>56 DEF OcdExits
<1>57. CASE UNCHANGED vars
  BY <1>57 DEF vars
<1> HIDE DEF TypeOK, Shape, BoardsAreOwned, Holds, RunHolds, Claims, boardVars,
         runVars, reqVars, Goto, Free, Run
<1>. QED
  BY <1>1, <1>2, <1>3, <1>4, <1>5, <1>6, <1>7, <1>8, <1>9, <1>10,
     <1>11, <1>12, <1>13, <1>14, <1>15, <1>16, <1>17, <1>18, <1>19, <1>20,
     <1>21, <1>22, <1>23, <1>24, <1>25, <1>26, <1>27, <1>28, <1>29, <1>30,
     <1>31, <1>32, <1>33, <1>34, <1>35, <1>36, <1>37, <1>38, <1>39, <1>40,
     <1>41, <1>42, <1>43, <1>44, <1>45, <1>46, <1>47, <1>48, <1>49, <1>50,
     <1>51, <1>52, <1>53, <1>54, <1>55, <1>56, <1>57
     DEF Next, BusStep, RunStep, PumpStep, ReqStep

(* busy follows the owner. *)
LEMMA BusyStep == TypeOK /\ Shape /\ BoardsAreOwned /\ BusyExact /\ [Next]_vars => BusyExact'
<1> SUFFICES ASSUME TypeOK, Shape, BoardsAreOwned, BusyExact, [Next]_vars PROVE BusyExact'
  OBVIOUS
<1> USE RequestAssumption
     DEF TypeOK, Shape, BoardsAreOwned, BusyExact, Holds, RunHolds, Claims,
         Activity, boardVars, runVars, reqVars, Goto, Free, Run
<1>1. ASSUME NEW b \in Boards, BoardLeaves(b)
      PROVE  BusyExact'
  BY <1>1 DEF BoardLeaves
<1>2. ASSUME NEW b \in Boards, NEW s \in {"console", "bootsel"}, BoardReturns(b, s)
      PROVE  BusyExact'
  BY <1>2 DEF BoardReturns
<1>3. CASE Cancel
  BY <1>3 DEF Cancel
<1>4. CASE Tick
  BY <1>4 DEF Tick
<1>5. CASE Poked
  BY <1>5 DEF Poked
<1>6. CASE Scan
  BY <1>6 DEF Scan
<1>7. CASE ScanFails
  BY <1>7 DEF ScanFails
<1>8. ASSUME NEW b \in Boards, ReadPolicy(b)
      PROVE  BusyExact'
  BY <1>8 DEF ReadPolicy
<1>9. CASE Observe
  BY <1>9 DEF Observe, PresenceOf
<1>10. CASE TryLock
  BY <1>10 DEF TryLock
<1>11. CASE Attach
  BY <1>11 DEF Attach
<1>12. CASE AttachFails
  BY <1>12 DEF AttachFails
<1>13. CASE Keep
  BY <1>13 DEF Keep
<1>14. CASE LetGo
  BY <1>14 DEF LetGo, DetachBegin
<1>15. CASE Drained
  BY <1>15 DEF Drained, DetachEnd
<1>16. CASE PassEnds
  BY <1>16 DEF PassEnds
<1>17. CASE Shutdown
  BY <1>17 DEF Shutdown
<1>18. ASSUME NEW b \in Boards, ShutdownStops(b)
      PROVE  BusyExact'
  BY <1>18 DEF ShutdownStops, Signalled
<1>19. CASE ShutdownWaited
  BY <1>19 DEF ShutdownWaited
<1>20. CASE ShutdownStopped
  BY <1>20 DEF ShutdownStopped
<1>21. ASSUME NEW b \in Boards, ShutdownLocks(b)
      PROVE  BusyExact'
  BY <1>21 DEF ShutdownLocks
<1>22. CASE ShutdownDetaches
  BY <1>22 DEF ShutdownDetaches, DetachBegin
<1>23. CASE ShutdownEnds
  BY <1>23 DEF ShutdownEnds
<1>24. ASSUME NEW b \in Boards, PumpOpens(b)
      PROVE  BusyExact'
  BY <1>24 DEF PumpOpens
<1>25. ASSUME NEW b \in Boards, PumpFails(b)
      PROVE  BusyExact'
  BY <1>25 DEF PumpFails
<1>26. ASSUME NEW b \in Boards, PumpStops(b)
      PROVE  BusyExact'
  BY <1>26 DEF PumpStops
<1>27. ASSUME NEW b \in Boards, NEW o \in Requests, NEW k \in Kinds, Begin(o, k, b)
      PROVE  BusyExact'
  BY <1>27 DEF Begin
<1>28. ASSUME NEW o \in Requests, ClaimLock(o)
      PROVE  BusyExact'
  <2>1. CASE tgt[o] \in devices /\ ctrl[tgt[o]] = Free
    BY <1>28, <2>1 DEF ClaimLock
  <2>2. CASE ~(tgt[o] \in devices /\ ctrl[tgt[o]] = Free)
    BY <1>28, <2>2 DEF ClaimLock
  <2>. QED
    BY <2>1, <2>2
<1>29. ASSUME NEW o \in Requests, ClaimCheck(o)
      PROVE  BusyExact'
  <2>1. CASE Refused(o)
    BY <1>29, <2>1 DEF ClaimCheck
  <2>2. CASE ~Refused(o)
    BY <1>29, <2>2 DEF ClaimCheck
  <2>. QED
    BY <2>1, <2>2
<1>30. ASSUME NEW o \in Requests, ClaimMark(o)
      PROVE  BusyExact'
  BY <1>30 DEF ClaimMark
<1>31. ASSUME NEW o \in Requests, ReleaseIdle(o)
      PROVE  BusyExact'
  BY <1>31 DEF ReleaseIdle
<1>32. ASSUME NEW o \in Requests, Unlock(o)
      PROVE  BusyExact'
  BY <1>32 DEF Unlock
<1>33. ASSUME NEW o \in Requests, Poke(o)
      PROVE  BusyExact'
  BY <1>33 DEF Poke
<1>34. ASSUME NEW o \in Requests, Detach(o)
      PROVE  BusyExact'
  BY <1>34 DEF Detach, DetachBegin, AfterDetach, Launched
<1>35. ASSUME NEW o \in Requests, Detached(o)
      PROVE  BusyExact'
  <2>1. /\ pc[o] = "draining"
        /\ pc' = [pc EXCEPT ![o] = AfterDetach(o)]
        /\ UNCHANGED <<busy, ctrl, kind, tgt>>
    BY <1>35 DEF Detached
  <2>. QED
    BY <2>1 DEF AfterDetach
<1>36. ASSUME NEW o \in Requests, Touch(o)
      PROVE  BusyExact'
  BY <1>36 DEF Touch
<1>37. ASSUME NEW o \in Requests, TouchEnds(o)
      PROVE  BusyExact'
  BY <1>37 DEF TouchEnds
<1>38. ASSUME NEW o \in Requests, WorkEnds(o)
      PROVE  BusyExact'
  BY <1>38 DEF WorkEnds
<1>39. ASSUME NEW o \in Requests, DebugFails(o)
      PROVE  BusyExact'
  BY <1>39 DEF DebugFails
<1>40. ASSUME NEW o \in Requests, DebugStarts(o)
      PROVE  BusyExact'
  BY <1>40 DEF DebugStarts
<1>41. ASSUME NEW o \in Requests, DebugDies(o)
      PROVE  BusyExact'
  BY <1>41 DEF DebugDies
<1>42. ASSUME NEW o \in Requests, DebugTimesOut(o)
      PROVE  BusyExact'
  BY <1>42 DEF DebugTimesOut, Signalled
<1>43. ASSUME NEW o \in Requests, DebugAborted(o)
      PROVE  BusyExact'
  BY <1>43 DEF DebugAborted
<1>44. ASSUME NEW o \in Requests, SessionEnds(o)
      PROVE  BusyExact'
  BY <1>44 DEF SessionEnds
<1>45. ASSUME NEW o \in Requests, StopDebug(o)
      PROVE  BusyExact'
  BY <1>45 DEF StopDebug
<1>46. ASSUME NEW o \in Requests, StopSignals(o)
      PROVE  BusyExact'
  BY <1>46 DEF StopSignals, Signalled
<1>47. ASSUME NEW o \in Requests, StopReturns(o)
      PROVE  BusyExact'
  BY <1>47 DEF StopReturns
<1>48. ASSUME NEW o \in Requests, SetRecord(o)
      PROVE  BusyExact'
  BY <1>48 DEF SetRecord
<1>49. ASSUME NEW o \in Requests, SettingFails(o)
      PROVE  BusyExact'
  BY <1>49 DEF SettingFails
<1>50. ASSUME NEW o \in Requests, SetMirror(o)
      PROVE  BusyExact'
  BY <1>50 DEF SetMirror
<1>51. ASSUME NEW o \in Requests, SetTarget(o)
      PROVE  BusyExact'
  BY <1>51 DEF SetTarget
<1>52. ASSUME NEW o \in Requests, SendLooksUp(o)
      PROVE  BusyExact'
  BY <1>52 DEF SendLooksUp
<1>53. ASSUME NEW o \in Requests, SendWrites(o)
      PROVE  BusyExact'
  BY <1>53 DEF SendWrites
<1>54. ASSUME NEW o \in Requests, IgnoreLock(o)
      PROVE  BusyExact'
  BY <1>54 DEF IgnoreLock
<1>55. ASSUME NEW o \in Requests, OcdListens(o)
      PROVE  BusyExact'
  BY <1>55 DEF OcdListens
<1>56. ASSUME NEW o \in Requests, OcdExits(o)
      PROVE  BusyExact'
  BY <1>56 DEF OcdExits
<1>57. CASE UNCHANGED vars
  BY <1>57 DEF vars
<1> HIDE DEF TypeOK, Shape, BoardsAreOwned, BusyExact, Holds, RunHolds, Claims,
         Activity, boardVars, runVars, reqVars, Goto, Free, Run
<1>. QED
  BY <1>1, <1>2, <1>3, <1>4, <1>5, <1>6, <1>7, <1>8, <1>9, <1>10,
     <1>11, <1>12, <1>13, <1>14, <1>15, <1>16, <1>17, <1>18, <1>19, <1>20,
     <1>21, <1>22, <1>23, <1>24, <1>25, <1>26, <1>27, <1>28, <1>29, <1>30,
     <1>31, <1>32, <1>33, <1>34, <1>35, <1>36, <1>37, <1>38, <1>39, <1>40,
     <1>41, <1>42, <1>43, <1>44, <1>45, <1>46, <1>47, <1>48, <1>49, <1>50,
     <1>51, <1>52, <1>53, <1>54, <1>55, <1>56, <1>57
     DEF Next, BusStep, RunStep, PumpStep, ReqStep

(* A published server belongs to the request that watches it. *)
LEMMA ServerStep == TypeOK /\ Shape /\ ServerExact /\ [Next]_vars => ServerExact'
<1> SUFFICES ASSUME TypeOK, Shape, ServerExact, [Next]_vars PROVE ServerExact'
  OBVIOUS
<1> USE RequestAssumption
     DEF TypeOK, Shape, ServerExact, Claims, boardVars, reqVars, Goto, None
<1>1. ASSUME NEW b \in Boards, BoardLeaves(b)
      PROVE  ServerExact'
  BY <1>1 DEF BoardLeaves
<1>2. ASSUME NEW b \in Boards, NEW s \in {"console", "bootsel"}, BoardReturns(b, s)
      PROVE  ServerExact'
  BY <1>2 DEF BoardReturns
<1>3. CASE Cancel
  BY <1>3 DEF Cancel
<1>4. CASE Tick
  BY <1>4 DEF Tick
<1>5. CASE Poked
  BY <1>5 DEF Poked
<1>6. CASE Scan
  BY <1>6 DEF Scan
<1>7. CASE ScanFails
  BY <1>7 DEF ScanFails
<1>8. ASSUME NEW b \in Boards, ReadPolicy(b)
      PROVE  ServerExact'
  BY <1>8 DEF ReadPolicy
<1>9. CASE Observe
  BY <1>9 DEF Observe, PresenceOf
<1>10. CASE TryLock
  BY <1>10 DEF TryLock
<1>11. CASE Attach
  BY <1>11 DEF Attach
<1>12. CASE AttachFails
  BY <1>12 DEF AttachFails
<1>13. CASE Keep
  BY <1>13 DEF Keep
<1>14. CASE LetGo
  BY <1>14 DEF LetGo, DetachBegin
<1>15. CASE Drained
  BY <1>15 DEF Drained, DetachEnd
<1>16. CASE PassEnds
  BY <1>16 DEF PassEnds
<1>17. CASE Shutdown
  BY <1>17 DEF Shutdown
<1>18. ASSUME NEW b \in Boards, ShutdownStops(b)
      PROVE  ServerExact'
  BY <1>18 DEF ShutdownStops, Signalled
<1>19. CASE ShutdownWaited
  BY <1>19 DEF ShutdownWaited
<1>20. CASE ShutdownStopped
  BY <1>20 DEF ShutdownStopped
<1>21. ASSUME NEW b \in Boards, ShutdownLocks(b)
      PROVE  ServerExact'
  BY <1>21 DEF ShutdownLocks
<1>22. CASE ShutdownDetaches
  BY <1>22 DEF ShutdownDetaches, DetachBegin
<1>23. CASE ShutdownEnds
  BY <1>23 DEF ShutdownEnds
<1>24. ASSUME NEW b \in Boards, PumpOpens(b)
      PROVE  ServerExact'
  BY <1>24 DEF PumpOpens
<1>25. ASSUME NEW b \in Boards, PumpFails(b)
      PROVE  ServerExact'
  BY <1>25 DEF PumpFails
<1>26. ASSUME NEW b \in Boards, PumpStops(b)
      PROVE  ServerExact'
  BY <1>26 DEF PumpStops
<1>27. ASSUME NEW b \in Boards, NEW o \in Requests, NEW k \in Kinds, Begin(o, k, b)
      PROVE  ServerExact'
  BY <1>27 DEF Begin
<1>28. ASSUME NEW o \in Requests, ClaimLock(o)
      PROVE  ServerExact'
  BY <1>28 DEF ClaimLock
<1>29. ASSUME NEW o \in Requests, ClaimCheck(o)
      PROVE  ServerExact'
  BY <1>29 DEF ClaimCheck
<1>30. ASSUME NEW o \in Requests, ClaimMark(o)
      PROVE  ServerExact'
  BY <1>30 DEF ClaimMark
<1>31. ASSUME NEW o \in Requests, ReleaseIdle(o)
      PROVE  ServerExact'
  BY <1>31 DEF ReleaseIdle
<1>32. ASSUME NEW o \in Requests, Unlock(o)
      PROVE  ServerExact'
  BY <1>32 DEF Unlock
<1>33. ASSUME NEW o \in Requests, Poke(o)
      PROVE  ServerExact'
  BY <1>33 DEF Poke
<1>34. ASSUME NEW o \in Requests, Detach(o)
      PROVE  ServerExact'
  BY <1>34 DEF Detach, DetachBegin, AfterDetach, Launched
<1>35. ASSUME NEW o \in Requests, Detached(o)
      PROVE  ServerExact'
  BY <1>35 DEF Detached, DetachEnd, AfterDetach, Launched
<1>36. ASSUME NEW o \in Requests, Touch(o)
      PROVE  ServerExact'
  BY <1>36 DEF Touch
<1>37. ASSUME NEW o \in Requests, TouchEnds(o)
      PROVE  ServerExact'
  BY <1>37 DEF TouchEnds
<1>38. ASSUME NEW o \in Requests, WorkEnds(o)
      PROVE  ServerExact'
  BY <1>38 DEF WorkEnds
<1>39. ASSUME NEW o \in Requests, DebugFails(o)
      PROVE  ServerExact'
  BY <1>39 DEF DebugFails
<1>40. ASSUME NEW o \in Requests, DebugStarts(o)
      PROVE  ServerExact'
  BY <1>40 DEF DebugStarts
<1>41. ASSUME NEW o \in Requests, DebugDies(o)
      PROVE  ServerExact'
  BY <1>41 DEF DebugDies
<1>42. ASSUME NEW o \in Requests, DebugTimesOut(o)
      PROVE  ServerExact'
  BY <1>42 DEF DebugTimesOut, Signalled
<1>43. ASSUME NEW o \in Requests, DebugAborted(o)
      PROVE  ServerExact'
  BY <1>43 DEF DebugAborted
<1>44. ASSUME NEW o \in Requests, SessionEnds(o)
      PROVE  ServerExact'
  BY <1>44 DEF SessionEnds
<1>45. ASSUME NEW o \in Requests, StopDebug(o)
      PROVE  ServerExact'
  BY <1>45 DEF StopDebug
<1>46. ASSUME NEW o \in Requests, StopSignals(o)
      PROVE  ServerExact'
  BY <1>46 DEF StopSignals, Signalled
<1>47. ASSUME NEW o \in Requests, StopReturns(o)
      PROVE  ServerExact'
  BY <1>47 DEF StopReturns
<1>48. ASSUME NEW o \in Requests, SetRecord(o)
      PROVE  ServerExact'
  BY <1>48 DEF SetRecord
<1>49. ASSUME NEW o \in Requests, SettingFails(o)
      PROVE  ServerExact'
  BY <1>49 DEF SettingFails
<1>50. ASSUME NEW o \in Requests, SetMirror(o)
      PROVE  ServerExact'
  BY <1>50 DEF SetMirror
<1>51. ASSUME NEW o \in Requests, SetTarget(o)
      PROVE  ServerExact'
  BY <1>51 DEF SetTarget
<1>52. ASSUME NEW o \in Requests, SendLooksUp(o)
      PROVE  ServerExact'
  BY <1>52 DEF SendLooksUp
<1>53. ASSUME NEW o \in Requests, SendWrites(o)
      PROVE  ServerExact'
  BY <1>53 DEF SendWrites
<1>54. ASSUME NEW o \in Requests, IgnoreLock(o)
      PROVE  ServerExact'
  BY <1>54 DEF IgnoreLock
<1>55. ASSUME NEW o \in Requests, OcdListens(o)
      PROVE  ServerExact'
  BY <1>55 DEF OcdListens
<1>56. ASSUME NEW o \in Requests, OcdExits(o)
      PROVE  ServerExact'
  BY <1>56 DEF OcdExits
<1>57. CASE UNCHANGED vars
  BY <1>57 DEF vars
<1> HIDE DEF TypeOK, Shape, ServerExact, Claims, boardVars, reqVars, Goto, None
<1>. QED
  BY <1>1, <1>2, <1>3, <1>4, <1>5, <1>6, <1>7, <1>8, <1>9, <1>10,
     <1>11, <1>12, <1>13, <1>14, <1>15, <1>16, <1>17, <1>18, <1>19, <1>20,
     <1>21, <1>22, <1>23, <1>24, <1>25, <1>26, <1>27, <1>28, <1>29, <1>30,
     <1>31, <1>32, <1>33, <1>34, <1>35, <1>36, <1>37, <1>38, <1>39, <1>40,
     <1>41, <1>42, <1>43, <1>44, <1>45, <1>46, <1>47, <1>48, <1>49, <1>50,
     <1>51, <1>52, <1>53, <1>54, <1>55, <1>56, <1>57
     DEF Next, BusStep, RunStep, PumpStep, ReqStep

(* Pumps end before the board is let go of. *)
LEMMA PumpStepInv == TypeOK /\ Shape /\ BoardsAreOwned /\ PumpExact /\ [Next]_vars => PumpExact'
<1> SUFFICES ASSUME TypeOK, Shape, BoardsAreOwned, PumpExact, [Next]_vars PROVE PumpExact'
  OBVIOUS
<1> USE RequestAssumption
     DEF TypeOK, Shape, BoardsAreOwned, PumpExact, Draining, Holds, RunHolds,
         OperationPcs, Claims, boardVars, pumpVars, runVars, reqVars, Goto, Free, Run
<1>1. ASSUME NEW b \in Boards, BoardLeaves(b)
      PROVE  PumpExact'
  BY <1>1 DEF BoardLeaves
<1>2. ASSUME NEW b \in Boards, NEW s \in {"console", "bootsel"}, BoardReturns(b, s)
      PROVE  PumpExact'
  BY <1>2 DEF BoardReturns
<1>3. CASE Cancel
  BY <1>3 DEF Cancel
<1>4. CASE Tick
  BY <1>4 DEF Tick
<1>5. CASE Poked
  BY <1>5 DEF Poked
<1>6. CASE Scan
  BY <1>6 DEF Scan
<1>7. CASE ScanFails
  BY <1>7 DEF ScanFails
<1>8. ASSUME NEW b \in Boards, ReadPolicy(b)
      PROVE  PumpExact'
  BY <1>8 DEF ReadPolicy
<1>9. CASE Observe
  BY <1>9 DEF Observe, PresenceOf
<1>10. CASE TryLock
  BY <1>10 DEF TryLock
<1>11. CASE Attach
  BY <1>11 DEF Attach
<1>12. CASE AttachFails
  BY <1>12 DEF AttachFails
<1>13. CASE Keep
  BY <1>13 DEF Keep
<1>14. CASE LetGo
  BY <1>14 DEF LetGo, DetachBegin
<1>15. CASE Drained
  BY <1>15 DEF Drained, DetachEnd
<1>16. CASE PassEnds
  BY <1>16 DEF PassEnds
<1>17. CASE Shutdown
  BY <1>17 DEF Shutdown
<1>18. ASSUME NEW b \in Boards, ShutdownStops(b)
      PROVE  PumpExact'
  BY <1>18 DEF ShutdownStops, Signalled
<1>19. CASE ShutdownWaited
  BY <1>19 DEF ShutdownWaited
<1>20. CASE ShutdownStopped
  BY <1>20 DEF ShutdownStopped
<1>21. ASSUME NEW b \in Boards, ShutdownLocks(b)
      PROVE  PumpExact'
  BY <1>21 DEF ShutdownLocks
<1>22. CASE ShutdownDetaches
  BY <1>22 DEF ShutdownDetaches, DetachBegin
<1>23. CASE ShutdownEnds
  BY <1>23 DEF ShutdownEnds
<1>24. ASSUME NEW b \in Boards, PumpOpens(b)
      PROVE  PumpExact'
  BY <1>24 DEF PumpOpens
<1>25. ASSUME NEW b \in Boards, PumpFails(b)
      PROVE  PumpExact'
  BY <1>25 DEF PumpFails
<1>26. ASSUME NEW b \in Boards, PumpStops(b)
      PROVE  PumpExact'
  BY <1>26 DEF PumpStops
<1>27. ASSUME NEW b \in Boards, NEW o \in Requests, NEW k \in Kinds, Begin(o, k, b)
      PROVE  PumpExact'
  BY <1>27 DEF Begin
<1>28. ASSUME NEW o \in Requests, ClaimLock(o)
      PROVE  PumpExact'
  BY <1>28 DEF ClaimLock
<1>29. ASSUME NEW o \in Requests, ClaimCheck(o)
      PROVE  PumpExact'
  BY <1>29 DEF ClaimCheck
<1>30. ASSUME NEW o \in Requests, ClaimMark(o)
      PROVE  PumpExact'
  BY <1>30 DEF ClaimMark
<1>31. ASSUME NEW o \in Requests, ReleaseIdle(o)
      PROVE  PumpExact'
  BY <1>31 DEF ReleaseIdle
<1>32. ASSUME NEW o \in Requests, Unlock(o)
      PROVE  PumpExact'
  BY <1>32 DEF Unlock
<1>33. ASSUME NEW o \in Requests, Poke(o)
      PROVE  PumpExact'
  BY <1>33 DEF Poke
<1>34. ASSUME NEW o \in Requests, Detach(o)
      PROVE  PumpExact'
  BY <1>34 DEF Detach, DetachBegin, AfterDetach, Launched
<1>35. ASSUME NEW o \in Requests, Detached(o)
      PROVE  PumpExact'
  BY <1>35 DEF Detached, DetachEnd, AfterDetach, Launched
<1>36. ASSUME NEW o \in Requests, Touch(o)
      PROVE  PumpExact'
  BY <1>36 DEF Touch
<1>37. ASSUME NEW o \in Requests, TouchEnds(o)
      PROVE  PumpExact'
  BY <1>37 DEF TouchEnds
<1>38. ASSUME NEW o \in Requests, WorkEnds(o)
      PROVE  PumpExact'
  BY <1>38 DEF WorkEnds
<1>39. ASSUME NEW o \in Requests, DebugFails(o)
      PROVE  PumpExact'
  BY <1>39 DEF DebugFails
<1>40. ASSUME NEW o \in Requests, DebugStarts(o)
      PROVE  PumpExact'
  BY <1>40 DEF DebugStarts
<1>41. ASSUME NEW o \in Requests, DebugDies(o)
      PROVE  PumpExact'
  BY <1>41 DEF DebugDies
<1>42. ASSUME NEW o \in Requests, DebugTimesOut(o)
      PROVE  PumpExact'
  BY <1>42 DEF DebugTimesOut, Signalled
<1>43. ASSUME NEW o \in Requests, DebugAborted(o)
      PROVE  PumpExact'
  BY <1>43 DEF DebugAborted
<1>44. ASSUME NEW o \in Requests, SessionEnds(o)
      PROVE  PumpExact'
  BY <1>44 DEF SessionEnds
<1>45. ASSUME NEW o \in Requests, StopDebug(o)
      PROVE  PumpExact'
  BY <1>45 DEF StopDebug
<1>46. ASSUME NEW o \in Requests, StopSignals(o)
      PROVE  PumpExact'
  BY <1>46 DEF StopSignals, Signalled
<1>47. ASSUME NEW o \in Requests, StopReturns(o)
      PROVE  PumpExact'
  BY <1>47 DEF StopReturns
<1>48. ASSUME NEW o \in Requests, SetRecord(o)
      PROVE  PumpExact'
  BY <1>48 DEF SetRecord
<1>49. ASSUME NEW o \in Requests, SettingFails(o)
      PROVE  PumpExact'
  BY <1>49 DEF SettingFails
<1>50. ASSUME NEW o \in Requests, SetMirror(o)
      PROVE  PumpExact'
  BY <1>50 DEF SetMirror
<1>51. ASSUME NEW o \in Requests, SetTarget(o)
      PROVE  PumpExact'
  BY <1>51 DEF SetTarget
<1>52. ASSUME NEW o \in Requests, SendLooksUp(o)
      PROVE  PumpExact'
  BY <1>52 DEF SendLooksUp
<1>53. ASSUME NEW o \in Requests, SendWrites(o)
      PROVE  PumpExact'
  BY <1>53 DEF SendWrites
<1>54. ASSUME NEW o \in Requests, IgnoreLock(o)
      PROVE  PumpExact'
  BY <1>54 DEF IgnoreLock
<1>55. ASSUME NEW o \in Requests, OcdListens(o)
      PROVE  PumpExact'
  BY <1>55 DEF OcdListens
<1>56. ASSUME NEW o \in Requests, OcdExits(o)
      PROVE  PumpExact'
  BY <1>56 DEF OcdExits
<1>57. CASE UNCHANGED vars
  BY <1>57 DEF vars
<1> HIDE DEF TypeOK, Shape, BoardsAreOwned, PumpExact, Draining, Holds, RunHolds,
         OperationPcs, Claims, boardVars, pumpVars, runVars, reqVars, Goto, Free, Run
<1>. QED
  BY <1>1, <1>2, <1>3, <1>4, <1>5, <1>6, <1>7, <1>8, <1>9, <1>10,
     <1>11, <1>12, <1>13, <1>14, <1>15, <1>16, <1>17, <1>18, <1>19, <1>20,
     <1>21, <1>22, <1>23, <1>24, <1>25, <1>26, <1>27, <1>28, <1>29, <1>30,
     <1>31, <1>32, <1>33, <1>34, <1>35, <1>36, <1>37, <1>38, <1>39, <1>40,
     <1>41, <1>42, <1>43, <1>44, <1>45, <1>46, <1>47, <1>48, <1>49, <1>50,
     <1>51, <1>52, <1>53, <1>54, <1>55, <1>56, <1>57
     DEF Next, BusStep, RunStep, PumpStep, ReqStep

-----------------------------------------------------------------------------
(* The invariant holds of every initial state and is preserved by every    *)
(* step.                                                                   *)
LEMMA InitInv == Init => ManagerInv
<1> SUFFICES ASSUME Init PROVE ManagerInv
  OBVIOUS
<1> USE DEF Init
<1>1. TypeOK
  <2>1. "scan" \in RunPcs /\ "idle" \in ReqPcs /\ "absent" \in BusStates /\ "Gone" \in Presences
    BY DEF RunPcs, ReqPcs, BusStates, Presences
  <2>. QED
    BY <2>1, ActivityMembers DEF TypeOK
<1>2. Shape
  BY DEF Shape, Claims, RunHolds
<1>3. BoardsAreOwned
  BY DEF BoardsAreOwned, Holds, RunHolds
<1>4. BusyExact
  BY DEF BusyExact
<1>5. ServerExact
  BY DEF ServerExact
<1>6. PumpExact
  BY DEF PumpExact, OperationPcs
<1>. QED
  BY <1>1, <1>2, <1>3, <1>4, <1>5, <1>6 DEF ManagerInv

(* One step of any goroutine keeps all of it. *)
LEMMA NextInv == ManagerInv /\ [Next]_vars => ManagerInv'
BY TypeStep, ShapeStep, OwnedStep, BusyStep, ServerStep, PumpStepInv DEF ManagerInv

(* The inductive invariant holds of every behaviour of the manager, for any *)
(* boards, any number of requests of any kinds, with and without faults.   *)
THEOREM Invariance == Spec => []ManagerInv
<1>1. Init => ManagerInv
  BY InitInv
<1>2. ManagerInv /\ [Next]_vars => ManagerInv'
  BY NextInv
<1>. QED
  BY <1>1, <1>2, PTL DEF Spec

(* Every variable keeps its type. *)
THEOREM TypeCorrect == Spec => []TypeOK
<1>1. ManagerInv => TypeOK
  BY DEF ManagerInv
<1>. QED
  BY Invariance, <1>1, PTL

(* md.ctrl serializes attach, detach and exclusive operations: a goroutine *)
(* inside such a section owns the board (manager.go:61).                   *)
THEOREM Ownership == Spec => []BoardsAreOwned
<1>1. ManagerInv => BoardsAreOwned
  BY DEF ManagerInv
<1>. QED
  BY Invariance, <1>1, PTL

(* No two goroutines are in an exclusive section of the same board: the    *)
(* meaning of ownership, spelled out.                                      *)
THEOREM Exclusion ==
  Spec => [](\A o, p \in Requests : Holds(o) /\ Holds(p) /\ tgt[o] = tgt[p] => o = p)
<1>1. ManagerInv => \A o, p \in Requests : Holds(o) /\ Holds(p) /\ tgt[o] = tgt[p] => o = p
  BY DEF ManagerInv, BoardsAreOwned
<1>. QED
  BY Invariance, <1>1, PTL

(* The activity of a board is that of the request that owns it             *)
(* (manager.go:80): only such a request has set it, and it clears it       *)
(* before it lets go.                                                      *)
THEOREM BusyTruthful == Spec => []BusyNamesOwner
<1>1. ManagerInv => BusyNamesOwner
  <2> SUFFICES ASSUME ManagerInv, NEW b \in Boards, busy[b] # NotBusy
               PROVE  \E o \in Requests : /\ ctrl[b] = o
                                          /\ tgt[o] = b
                                          /\ Claims(o)
                                          /\ busy[b] = Activity(o)
    BY DEF BusyNamesOwner
  <2>1. ctrl[b] \in Requests /\ tgt[ctrl[b]] = b /\ Holds(ctrl[b])
    BY DEF ManagerInv, BusyExact
  <2>2. pc[ctrl[b]] \notin {"claimed", "accepted", "unlock"}
    BY <2>1 DEF ManagerInv, BusyExact
  <2>3. ~(pc[ctrl[b]] \in {"owned", "draining"} /\ kind[ctrl[b]] = "ignore")
    BY <2>1 DEF ManagerInv, BusyExact
  <2>4. pc[ctrl[b]] \in {"owned", "draining", "work", "touch", "write",
                         "launch", "abort", "watch", "release"}
    BY <2>1, <2>2 DEF Holds
  <2>5. Claims(ctrl[b])
    BY <2>1, <2>3, <2>4 DEF ManagerInv, Shape, Claims
  <2>6. busy[b] = Activity(ctrl[b])
    BY <2>1, <2>4, <2>5 DEF ManagerInv, BusyExact
  <2>. QED
    BY <2>1, <2>5, <2>6
<1>. QED
  BY Invariance, <1>1, PTL

(* A published debug session owns its board until watchDebug takes it down *)
(* (debug.go:198-213), and the page shows the board as debugging.          *)
THEOREM SessionOwnership == Spec => []SessionOwnsProbe
<1>1. ManagerInv => SessionOwnsProbe
  <2> SUFFICES ASSUME ManagerInv, NEW b \in Boards, ocdSrv[b] # None
               PROVE  /\ ctrl[b] = ocdSrv[b]
                      /\ pc[ocdSrv[b]] = "watch" /\ tgt[ocdSrv[b]] = b
                      /\ busy[b] = "debugging"
    BY DEF SessionOwnsProbe
  <2> DEFINE o == ocdSrv[b]
  <2>1. o \in Requests /\ pc[o] = "watch" /\ tgt[o] = b
    BY DEF ManagerInv, ServerExact
  <2>2. ctrl[b] = o
    BY <2>1 DEF ManagerInv, BoardsAreOwned, Holds
  <2>3. kind[o] = "debug"
    BY <2>1 DEF ManagerInv, Shape
  <2>4. busy[b] = Activity(o)
    BY <2>1, <2>3 DEF ManagerInv, BusyExact, Claims
  <2>5. busy[b] = "debugging"
    BY <2>3, <2>4 DEF Activity, ActivityOf
  <2>. QED
    BY <2>1, <2>2, <2>5
<1>. QED
  BY Invariance, <1>1, PTL

(* While a firmware is written or OpenOCD holds the probe no pump of the   *)
(* manager runs and its console port is closed: every operation waited for *)
(* the pump it stopped (manager.go:365-390).                               *)
THEOREM ConsoleClosed == Spec => []NoConsoleUnderOperation
<1>1. ManagerInv => NoConsoleUnderOperation
  <2> SUFFICES ASSUME ManagerInv, NEW o \in Requests,
                      pc[o] \in OperationPcs
               PROVE  ~attached[tgt[o]] /\ pump[tgt[o]] = "none" /\ port[tgt[o]] # "open"
    BY DEF NoConsoleUnderOperation
  <2>1. tgt[o] \in Boards
    BY DEF ManagerInv, Shape, OperationPcs
  <2>2. ~attached[tgt[o]] /\ pump[tgt[o]] = "none"
    BY DEF ManagerInv, PumpExact
  <2>3. port[tgt[o]] = "closed"
    BY <2>1, <2>2 DEF ManagerInv, PumpExact
  <2>. QED
    BY <2>2, <2>3
<1>. QED
  BY Invariance, <1>1, PTL

(* An attached board has a pump; a board that is neither attached nor      *)
(* owned has none, and its console port is closed.                         *)
THEOREM PumpsAreJoined == Spec => []PumpFollowsAttached
<1>1. ManagerInv => PumpFollowsAttached
  <2> SUFFICES ASSUME ManagerInv, NEW b \in Boards
               PROVE  /\ attached[b] => pump[b] # "none" /\ ~stop[b]
                      /\ (~attached[b] /\ ctrl[b] = Free)
                           => pump[b] = "none" /\ port[b] = "closed"
    BY DEF PumpFollowsAttached
  <2>1. attached[b] => pump[b] # "none" /\ ~stop[b]
    BY DEF ManagerInv, PumpExact
  <2>2. Draining(b) => ctrl[b] # Free
    BY RequestAssumption
       DEF ManagerInv, BoardsAreOwned, Draining, Holds, RunHolds, Free, Run
  <2>3. (~attached[b] /\ ctrl[b] = Free) => pump[b] = "none" /\ port[b] = "closed"
    BY <2>2 DEF ManagerInv, PumpExact
  <2>. QED
    BY <2>1, <2>3
<1>. QED
  BY Invariance, <1>1, PTL
=============================================================================
