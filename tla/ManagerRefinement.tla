-------------------------- MODULE ManagerRefinement --------------------------
(***************************************************************************)
(* The manager implements BoardOwner, for every set of boards and          *)
(* requests: each of its steps is a step of one owner of one board, or     *)
(* changes nothing that BoardOwner speaks of. The invariant of             *)
(* ManagerProofs says what an owner finds.                                 *)
(***************************************************************************)
EXTENDS ManagerProofs

(* Only the owner of a board is inside a section that needs it. *)
LEMMA OwnerIsAlone ==
  ASSUME ManagerInv
  PROVE  /\ \A o \in Requests : Holds(o) =>
              /\ \A p \in Requests : Holds(p) /\ tgt[p] = tgt[o] => p = o
              /\ ~(RunHolds /\ cur = tgt[o])
         /\ RunHolds => \A o \in Requests : ~(Holds(o) /\ tgt[o] = cur)
BY RequestAssumption DEF ManagerInv, BoardsAreOwned, Run

(* A request that holds its board is in operation, or waits for the pump,  *)
(* or the board is at rest: captured if attached, unused otherwise.        *)
LEMMA UseOfHeld ==
  ASSUME ManagerInv, NEW o \in Requests, Holds(o)
  PROVE  /\ InOperation(tgt[o]) <=> pc[o] \in OperationPcs
         /\ pc[o] \in OperationPcs => UseOf(tgt[o]) = "operation"
         /\ pc[o] \notin OperationPcs \cup {"draining"} =>
              UseOf(tgt[o]) = IF attached[tgt[o]] THEN "console" ELSE "nothing"
         /\ (pc[o] = "draining" /\ pump[tgt[o]] # "none") => UseOf(tgt[o]) = "ending"
<1> DEFINE b == tgt[o]
<1>1. b \in Boards
  BY DEF ManagerInv, Shape, Holds
<1>2. \A p \in Requests : Holds(p) /\ tgt[p] = b => p = o
  BY OwnerIsAlone
<1>3. InOperation(b) <=> pc[o] \in OperationPcs
  <2>1. \A p \in Requests : pc[p] \in OperationPcs => Holds(p)
    BY DEF OperationPcs, Holds
  <2>. QED
    BY <1>2, <2>1 DEF InOperation
<1>4. ASSUME pc[o] \notin OperationPcs \cup {"draining"}
      PROVE  UseOf(b) = IF attached[b] THEN "console" ELSE "nothing"
  <2>1. ~Draining(b)
    <3>1. ~(runPc \in {"drain", "lastDrain"} /\ cur = b)
      BY OwnerIsAlone DEF RunHolds
    <3>2. \A p \in Requests : ~(pc[p] = "draining" /\ tgt[p] = b)
      BY <1>2, <1>4 DEF Holds
    <3>. QED
      BY <3>1, <3>2 DEF Draining
  <2>2. ~attached[b] => pump[b] = "none"
    BY <1>1, <2>1 DEF ManagerInv, PumpExact
  <2>. QED
    BY <1>3, <1>4, <2>2 DEF UseOf
<1>5. ASSUME pc[o] = "draining", pump[b] # "none"
      PROVE  UseOf(b) = "ending"
  <2>1. ~attached[b]
    BY <1>5 DEF ManagerInv, PumpExact
  <2>2. ~InOperation(b)
    BY <1>3, <1>5 DEF OperationPcs
  <2>. QED
    BY <1>5, <2>1, <2>2 DEF UseOf
<1>. QED
  BY <1>3, <1>4, <1>5 DEF UseOf

(* The same of the board that the loop or shutdown holds. *)
LEMMA UseOfRunHeld ==
  ASSUME ManagerInv, RunHolds
  PROVE  /\ ~InOperation(cur)
         /\ runPc \in {"decide", "owned"} =>
              UseOf(cur) = IF attached[cur] THEN "console" ELSE "nothing"
         /\ (runPc \in {"drain", "lastDrain"} /\ pump[cur] # "none") => UseOf(cur) = "ending"
<1>1. cur \in Boards
  BY DEF ManagerInv, Shape
<1>2. \A o \in Requests : ~(Holds(o) /\ tgt[o] = cur)
  BY OwnerIsAlone
<1>3. ~InOperation(cur)
  BY <1>2 DEF InOperation, OperationPcs, Holds
<1>4. ASSUME runPc \in {"decide", "owned"}
      PROVE  UseOf(cur) = IF attached[cur] THEN "console" ELSE "nothing"
  <2>1. ~Draining(cur)
    BY <1>2, <1>4 DEF Draining, Holds
  <2>2. ~attached[cur] => pump[cur] = "none"
    BY <1>1, <2>1 DEF ManagerInv, PumpExact
  <2>. QED
    BY <1>3, <2>2 DEF UseOf
<1>5. ASSUME runPc \in {"drain", "lastDrain"}, pump[cur] # "none"
      PROVE  UseOf(cur) = "ending"
  BY <1>3, <1>5 DEF UseOf, ManagerInv, PumpExact
<1>. QED
  BY <1>3, <1>4, <1>5

(* A use that does not change: the pump stays or stays away, and no        *)
(* request begins or ends its operation.                                   *)
SameUse(b) ==
  /\ attached'[b] = attached[b]
  /\ pump'[b] = "none" <=> pump[b] = "none"
  /\ \A o \in Requests :
       (tgt'[o] = b /\ pc'[o] \in OperationPcs) <=> (tgt[o] = b /\ pc[o] \in OperationPcs)

LEMMA SameUseKeeps ==
  ASSUME NEW b \in Boards, SameUse(b)
  PROVE  UseOf(b)' = UseOf(b)
BY DEF SameUse, UseOf, InOperation

(* Nothing that BoardOwner speaks of has changed. *)
LEMMA Stutters ==
  ASSUME ctrl' = ctrl, \A b \in Boards : SameUse(b)
  PROVE  UNCHANGED Owned!vars
<1>1. \A b \in Boards : UseOf(b)' = UseOf(b)
  BY SameUseKeeps
<1>. QED
  BY <1>1 DEF Owned!vars

(* The use of one board becomes u, that of the others stays. *)
LEMMA OneUseChanges ==
  ASSUME NEW b \in Boards, NEW u, UseOf(b)' = u, \A c \in Boards \ {b} : SameUse(c)
  PROVE  [c \in Boards |-> UseOf(c)]' = [[c \in Boards |-> UseOf(c)] EXCEPT ![b] = u]
<1>1. \A c \in Boards \ {b} : UseOf(c)' = UseOf(c)
  BY SameUseKeeps
<1>. QED
  BY <1>1

(* Only the owner changes. *)
LEMMA UsesStay ==
  ASSUME \A b \in Boards : SameUse(b)
  PROVE  [c \in Boards |-> UseOf(c)]' = [c \in Boards |-> UseOf(c)]
BY SameUseKeeps

(* A request takes the board it wants, which nobody owns. *)
LEMMA TakeStep ==
  ASSUME NEW b \in Boards, NEW u \in Requests \cup {Run},
         ctrl[b] = Free, ctrl' = [ctrl EXCEPT ![b] = u], \A c \in Boards : SameUse(c)
  PROVE  Owned!Next
<1>1. Owned!Take(b, u)
  BY UsesStay DEF Owned!Take
<1>. QED
  BY <1>1 DEF Owned!Next, Owned!BoardStep

(* An owner whose board is at rest gives it back. *)
LEMMA GiveStep ==
  ASSUME NEW b \in Boards, ctrl[b] # Free, ctrl' = [ctrl EXCEPT ![b] = Free],
         UseOf(b) \in {"nothing", "console"}, \A c \in Boards : SameUse(c)
  PROVE  Owned!Next
<1>1. Owned!Give(b)
  BY UsesStay DEF Owned!Give
<1>. QED
  BY <1>1 DEF Owned!Next, Owned!BoardStep

(* A request in operation comes to its end. *)
LEMMA FinishStep ==
  ASSUME ManagerInv, NEW o \in Requests, pc[o] \in OperationPcs,
         pc' = [pc EXCEPT ![o] = "release"],
         UNCHANGED <<tgt, attached, pump, ctrl>>
  PROVE  Owned!Next
<1> DEFINE b == tgt[o]
<1>1. Holds(o) /\ b \in Boards /\ pc \in [Requests -> ReqPcs]
  BY DEF ManagerInv, TypeOK, Shape, OperationPcs, Holds
<1>2. ctrl[b] = o
  BY <1>1 DEF ManagerInv, BoardsAreOwned
<1>3. UseOf(b) = "operation"
  BY <1>1, UseOfHeld
<1>4. ~attached[b] /\ pump[b] = "none"
  BY DEF ManagerInv, PumpExact
<1>5. UseOf(b)' = "nothing"
  <2>1. \A p \in Requests : pc[p] \in OperationPcs /\ tgt[p] = b => p = o
    BY <1>1, OwnerIsAlone DEF OperationPcs, Holds
  <2>2. ~InOperation(b)'
    BY <1>1, <2>1 DEF InOperation, OperationPcs
  <2>. QED
    BY <1>4, <2>2 DEF UseOf
<1>6. \A c \in Boards \ {b} : SameUse(c)
  BY <1>1 DEF SameUse, OperationPcs
<1>7. Owned!Finish(b)
  BY <1>1, <1>2, <1>3, <1>5, <1>6, OneUseChanges DEF Owned!Finish
<1>. QED
  BY <1>1, <1>7 DEF Owned!Next, Owned!BoardStep

(* Every step of the manager is one of its boards' owner, or none at all.  *)
LEMMA RefinementStep == ManagerInv /\ [Next]_vars => [Owned!Next]_(Owned!vars)
<1> SUFFICES ASSUME ManagerInv, [Next]_vars PROVE Owned!Next \/ UNCHANGED Owned!vars
  OBVIOUS
<1>0. /\ pc \in [Requests -> ReqPcs] /\ tgt \in [Requests -> Boards \cup {None}]
      /\ attached \in [Boards -> BOOLEAN]
      /\ pump \in [Boards -> {"none", "opening", "reading", "exited"}]
      /\ ctrl \in [Boards -> Requests \cup {Free, Run}]
  BY DEF ManagerInv, TypeOK
<1> USE DEF envVars, boardVars, pumpVars, runVars, reqVars, ocdVars, Goto
<1>1. ASSUME NEW b \in Boards, BoardLeaves(b)
      PROVE  Owned!Next \/ UNCHANGED Owned!vars
  <2>1. ctrl' = ctrl /\ \A c \in Boards : SameUse(c)
    BY <1>0, <1>1 DEF BoardLeaves, SameUse, OperationPcs
  <2>. QED
    BY <2>1, Stutters
<1>2. ASSUME NEW b \in Boards, NEW s \in {"console", "bootsel"}, BoardReturns(b, s)
      PROVE  Owned!Next \/ UNCHANGED Owned!vars
  <2>1. ctrl' = ctrl /\ \A c \in Boards : SameUse(c)
    BY <1>0, <1>2 DEF BoardReturns, SameUse, OperationPcs
  <2>. QED
    BY <2>1, Stutters
<1>3. CASE Cancel
  <2>1. ctrl' = ctrl /\ \A c \in Boards : SameUse(c)
    BY <1>0, <1>3 DEF Cancel, SameUse, OperationPcs
  <2>. QED
    BY <2>1, Stutters
<1>4. CASE Tick
  <2>1. ctrl' = ctrl /\ \A c \in Boards : SameUse(c)
    BY <1>0, <1>4 DEF Tick, SameUse, OperationPcs
  <2>. QED
    BY <2>1, Stutters
<1>5. CASE Poked
  <2>1. ctrl' = ctrl /\ \A c \in Boards : SameUse(c)
    BY <1>0, <1>5 DEF Poked, SameUse, OperationPcs
  <2>. QED
    BY <2>1, Stutters
<1>6. CASE Scan
  <2>1. ctrl' = ctrl /\ \A c \in Boards : SameUse(c)
    BY <1>0, <1>6 DEF Scan, SameUse, OperationPcs
  <2>. QED
    BY <2>1, Stutters
<1>7. CASE ScanFails
  <2>1. ctrl' = ctrl /\ \A c \in Boards : SameUse(c)
    BY <1>0, <1>7 DEF ScanFails, SameUse, OperationPcs
  <2>. QED
    BY <2>1, Stutters
<1>8. ASSUME NEW b \in Boards, ReadPolicy(b)
      PROVE  Owned!Next \/ UNCHANGED Owned!vars
  <2>1. ctrl' = ctrl /\ \A c \in Boards : SameUse(c)
    BY <1>0, <1>8 DEF ReadPolicy, SameUse, OperationPcs
  <2>. QED
    BY <2>1, Stutters
<1>9. CASE Observe
  <2>1. ctrl' = ctrl /\ \A c \in Boards : SameUse(c)
    BY <1>0, <1>9 DEF Observe, SameUse, OperationPcs
  <2>. QED
    BY <2>1, Stutters
<1>10. CASE TryLock
  <2>1. \A b \in Boards : SameUse(b)
    BY <1>10 DEF TryLock, SameUse
  <2>2. cur \in Boards
    BY <1>10 DEF TryLock, ManagerInv, Shape
  <2>3. CASE ctrl[cur] = Free
    BY <1>10, <2>1, <2>2, <2>3, TakeStep DEF TryLock
  <2>4. CASE ctrl[cur] # Free
    BY <1>10, <2>1, <2>4, Stutters DEF TryLock
  <2>. QED
    BY <2>3, <2>4
<1>11. CASE Attach
  <2>1. runPc = "decide" /\ RunHolds /\ cur \in Boards /\ ctrl[cur] = Run
    BY <1>11 DEF Attach, RunHolds, ManagerInv, Shape, BoardsAreOwned
  <2>2. UseOf(cur) = "nothing" /\ ~InOperation(cur)
    BY <1>11, <2>1, UseOfRunHeld DEF Attach
  <2>3. UseOf(cur)' = "console"
    BY <1>0, <1>11, <2>1, <2>2 DEF Attach, UseOf, InOperation
  <2>4. \A c \in Boards \ {cur} : SameUse(c)
    BY <1>0, <1>11 DEF Attach, SameUse
  <2>5. Owned!Capture(cur)
    BY <1>11, <2>1, <2>2, <2>3, <2>4, OneUseChanges DEF Attach, Owned!Capture
  <2>. QED
    BY <2>1, <2>5 DEF Owned!Next, Owned!BoardStep
<1>12. CASE AttachFails
  <2>1. runPc = "decide" /\ RunHolds /\ cur \in Boards /\ ctrl[cur] = Run /\ Run # Free
    BY <1>12 DEF AttachFails, RunHolds, ManagerInv, Shape, BoardsAreOwned, Run, Free
  <2>2. UseOf(cur) \in {"nothing", "console"}
    BY <2>1, UseOfRunHeld
  <2>3. \A b \in Boards : SameUse(b)
    BY <1>12 DEF AttachFails, SameUse
  <2>. QED
    BY <1>12, <2>1, <2>2, <2>3, GiveStep DEF AttachFails
<1>13. CASE Keep
  <2>1. runPc = "decide" /\ RunHolds /\ cur \in Boards /\ ctrl[cur] = Run /\ Run # Free
    BY <1>13 DEF Keep, RunHolds, ManagerInv, Shape, BoardsAreOwned, Run, Free
  <2>2. UseOf(cur) \in {"nothing", "console"}
    BY <2>1, UseOfRunHeld
  <2>3. \A b \in Boards : SameUse(b)
    BY <1>13 DEF Keep, SameUse
  <2>. QED
    BY <1>13, <2>1, <2>2, <2>3, GiveStep DEF Keep
<1>14. CASE LetGo
  <2>1. runPc = "decide" /\ RunHolds /\ cur \in Boards /\ ctrl[cur] = Run /\ Run # Free
    BY <1>14 DEF LetGo, RunHolds, ManagerInv, Shape, BoardsAreOwned, Run, Free
  <2>2. UseOf(cur) = "console" /\ ~InOperation(cur)
    BY <1>14, <2>1, UseOfRunHeld DEF LetGo
  <2>3. pump[cur] # "none"
    BY <1>14, <2>1 DEF LetGo, ManagerInv, PumpExact
  <2>4. UseOf(cur)' = "ending"
    BY <1>0, <1>14, <2>1, <2>2, <2>3 DEF LetGo, DetachBegin, UseOf, InOperation
  <2>5. \A c \in Boards \ {cur} : SameUse(c)
    BY <1>0, <1>14 DEF LetGo, DetachBegin, SameUse
  <2>6. Owned!EndCapture(cur)
    BY <1>14, <2>1, <2>2, <2>4, <2>5, OneUseChanges DEF LetGo, Owned!EndCapture
  <2>. QED
    BY <2>1, <2>6 DEF Owned!Next, Owned!BoardStep
<1>15. CASE Drained
  <2>1. RunHolds /\ cur \in Boards /\ ctrl[cur] = Run
    BY <1>15 DEF Drained, RunHolds, ManagerInv, Shape, BoardsAreOwned
  <2>2. UseOf(cur) = "ending" /\ ~InOperation(cur)
    BY <1>15, <2>1, UseOfRunHeld DEF Drained, DetachEnd
  <2>3. ~attached[cur]
    BY <1>15 DEF Drained, ManagerInv, PumpExact
  <2>4. UseOf(cur)' = "nothing"
    BY <1>0, <1>15, <2>1, <2>2, <2>3 DEF Drained, DetachEnd, UseOf, InOperation
  <2>5. \A c \in Boards \ {cur} : SameUse(c)
    BY <1>0, <1>15 DEF Drained, DetachEnd, SameUse
  <2>6. Owned!LoopSeesEnd(cur)
    BY <1>15, <2>1, <2>2, <2>4, <2>5, OneUseChanges DEF Drained, Owned!LoopSeesEnd
  <2>. QED
    BY <2>1, <2>6 DEF Owned!Next, Owned!BoardStep
<1>16. CASE PassEnds
  <2>1. ctrl' = ctrl /\ \A c \in Boards : SameUse(c)
    BY <1>0, <1>16 DEF PassEnds, SameUse, OperationPcs
  <2>. QED
    BY <2>1, Stutters
<1>17. CASE Shutdown
  <2>1. ctrl' = ctrl /\ \A c \in Boards : SameUse(c)
    BY <1>0, <1>17 DEF Shutdown, SameUse, OperationPcs
  <2>. QED
    BY <2>1, Stutters
<1>18. ASSUME NEW b \in Boards, ShutdownStops(b)
      PROVE  Owned!Next \/ UNCHANGED Owned!vars
  <2>1. ctrl' = ctrl /\ \A c \in Boards : SameUse(c)
    BY <1>0, <1>18 DEF ShutdownStops, SameUse, OperationPcs
  <2>. QED
    BY <2>1, Stutters
<1>19. CASE ShutdownWaited
  <2>1. ctrl' = ctrl /\ \A c \in Boards : SameUse(c)
    BY <1>0, <1>19 DEF ShutdownWaited, SameUse, OperationPcs
  <2>. QED
    BY <2>1, Stutters
<1>20. CASE ShutdownStopped
  <2>1. ctrl' = ctrl /\ \A c \in Boards : SameUse(c)
    BY <1>0, <1>20 DEF ShutdownStopped, SameUse, OperationPcs
  <2>. QED
    BY <2>1, Stutters
<1>21. ASSUME NEW b \in Boards, ShutdownLocks(b)
      PROVE  Owned!Next \/ UNCHANGED Owned!vars
  <2>1. \A c \in Boards : SameUse(c)
    BY <1>21 DEF ShutdownLocks, SameUse
  <2>. QED
    BY <1>21, <2>1, TakeStep DEF ShutdownLocks
<1>22. CASE ShutdownDetaches
  <2>1. runPc = "owned" /\ RunHolds /\ cur \in Boards /\ ctrl[cur] = Run /\ Run # Free
    BY <1>22 DEF ShutdownDetaches, RunHolds, ManagerInv, Shape, BoardsAreOwned, Run, Free
  <2>2. UseOf(cur) = (IF attached[cur] THEN "console" ELSE "nothing") /\ ~InOperation(cur)
    BY <2>1, UseOfRunHeld
  <2>3. CASE attached[cur]
    <3>1. pump[cur] # "none"
      BY <2>1, <2>3 DEF ManagerInv, PumpExact
    <3>2. UseOf(cur)' = "ending"
      BY <1>0, <1>22, <2>1, <2>2, <2>3, <3>1 DEF ShutdownDetaches, DetachBegin, UseOf, InOperation
    <3>3. \A c \in Boards \ {cur} : SameUse(c)
      BY <1>0, <1>22, <2>3 DEF ShutdownDetaches, DetachBegin, SameUse
    <3>4. Owned!EndCapture(cur)
      BY <1>22, <2>1, <2>2, <2>3, <3>2, <3>3, OneUseChanges DEF ShutdownDetaches, Owned!EndCapture
    <3>. QED
      BY <2>1, <3>4 DEF Owned!Next, Owned!BoardStep
  <2>4. CASE ~attached[cur]
    <3>1. \A c \in Boards : SameUse(c)
      BY <1>22, <2>4 DEF ShutdownDetaches, SameUse
    <3>. QED
      BY <1>22, <2>1, <2>2, <2>4, <3>1, GiveStep DEF ShutdownDetaches
  <2>. QED
    BY <2>3, <2>4
<1>23. CASE ShutdownEnds
  <2>1. ctrl' = ctrl /\ \A c \in Boards : SameUse(c)
    BY <1>0, <1>23 DEF ShutdownEnds, SameUse, OperationPcs
  <2>. QED
    BY <2>1, Stutters
<1>24. ASSUME NEW b \in Boards, PumpOpens(b)
      PROVE  Owned!Next \/ UNCHANGED Owned!vars
  <2>1. ctrl' = ctrl /\ \A c \in Boards : SameUse(c)
    BY <1>0, <1>24 DEF PumpOpens, SameUse, OperationPcs
  <2>. QED
    BY <2>1, Stutters
<1>25. ASSUME NEW b \in Boards, PumpFails(b)
      PROVE  Owned!Next \/ UNCHANGED Owned!vars
  <2>1. ctrl' = ctrl /\ \A c \in Boards : SameUse(c)
    BY <1>0, <1>25 DEF PumpFails, SameUse, OperationPcs
  <2>. QED
    BY <2>1, Stutters
<1>26. ASSUME NEW b \in Boards, PumpStops(b)
      PROVE  Owned!Next \/ UNCHANGED Owned!vars
  <2>1. ctrl' = ctrl /\ \A c \in Boards : SameUse(c)
    BY <1>0, <1>26 DEF PumpStops, SameUse, OperationPcs
  <2>. QED
    BY <2>1, Stutters
<1>27. ASSUME NEW b \in Boards, NEW o \in Requests, NEW k \in Kinds, Begin(o, k, b)
      PROVE  Owned!Next \/ UNCHANGED Owned!vars
  <2>1. ctrl' = ctrl /\ \A c \in Boards : SameUse(c)
    BY <1>0, <1>27 DEF Begin, SameUse, OperationPcs
  <2>. QED
    BY <2>1, Stutters
<1>28. ASSUME NEW o \in Requests, ClaimLock(o)
      PROVE  Owned!Next \/ UNCHANGED Owned!vars
  <2>1. \A c \in Boards : SameUse(c)
    BY <1>0, <1>28 DEF ClaimLock, SameUse, OperationPcs
  <2>2. CASE tgt[o] \in devices /\ ctrl[tgt[o]] = Free
    <3>1. tgt[o] \in Boards
      BY <1>28 DEF ClaimLock, ManagerInv, Shape
    <3>. QED
      BY <1>28, <2>1, <2>2, <3>1, TakeStep DEF ClaimLock
  <2>3. CASE ~(tgt[o] \in devices /\ ctrl[tgt[o]] = Free)
    BY <1>28, <2>1, <2>3, Stutters DEF ClaimLock
  <2>. QED
    BY <2>2, <2>3
<1>29. ASSUME NEW o \in Requests, ClaimCheck(o)
      PROVE  Owned!Next \/ UNCHANGED Owned!vars
  <2>1. Holds(o) /\ tgt[o] \in Boards /\ ctrl[tgt[o]] = o /\ o # Free
    BY <1>29, RequestAssumption DEF ClaimCheck, Holds, ManagerInv, Shape, BoardsAreOwned
  <2>2. UseOf(tgt[o]) = IF attached[tgt[o]] THEN "console" ELSE "nothing"
    BY <1>29, <2>1, UseOfHeld DEF ClaimCheck, OperationPcs
  <2>3. \A c \in Boards : SameUse(c)
    BY <1>0, <1>29 DEF ClaimCheck, SameUse, OperationPcs
  <2>4. CASE Refused(o)
    BY <1>29, <2>1, <2>2, <2>3, <2>4, GiveStep DEF ClaimCheck
  <2>5. CASE ~Refused(o)
    BY <1>29, <2>3, <2>5, Stutters DEF ClaimCheck
  <2>. QED
    BY <2>4, <2>5
<1>30. ASSUME NEW o \in Requests, ClaimMark(o)
      PROVE  Owned!Next \/ UNCHANGED Owned!vars
  <2>1. ctrl' = ctrl /\ \A c \in Boards : SameUse(c)
    BY <1>0, <1>30 DEF ClaimMark, SameUse, OperationPcs
  <2>. QED
    BY <2>1, Stutters
<1>31. ASSUME NEW o \in Requests, ReleaseIdle(o)
      PROVE  Owned!Next \/ UNCHANGED Owned!vars
  <2>1. ctrl' = ctrl /\ \A c \in Boards : SameUse(c)
    BY <1>0, <1>31 DEF ReleaseIdle, SameUse, OperationPcs
  <2>. QED
    BY <2>1, Stutters
<1>32. ASSUME NEW o \in Requests, Unlock(o)
      PROVE  Owned!Next \/ UNCHANGED Owned!vars
  <2>1. Holds(o) /\ tgt[o] \in Boards /\ ctrl[tgt[o]] = o /\ o # Free
    BY <1>32, RequestAssumption DEF Unlock, Holds, ManagerInv, Shape, BoardsAreOwned
  <2>2. UseOf(tgt[o]) = IF attached[tgt[o]] THEN "console" ELSE "nothing"
    BY <1>32, <2>1, UseOfHeld DEF Unlock, OperationPcs
  <2>3. \A c \in Boards : SameUse(c)
    BY <1>0, <1>32 DEF Unlock, SameUse, OperationPcs
  <2>. QED
    BY <1>32, <2>1, <2>2, <2>3, GiveStep DEF Unlock
<1>33. ASSUME NEW o \in Requests, Poke(o)
      PROVE  Owned!Next \/ UNCHANGED Owned!vars
  <2>1. ctrl' = ctrl /\ \A c \in Boards : SameUse(c)
    BY <1>0, <1>33 DEF Poke, SameUse, OperationPcs
  <2>. QED
    BY <2>1, Stutters
<1>34. ASSUME NEW o \in Requests, Detach(o)
      PROVE  Owned!Next \/ UNCHANGED Owned!vars
  <2>1. Holds(o) /\ tgt[o] \in Boards /\ ctrl[tgt[o]] = o /\ o # Free
    BY <1>34, RequestAssumption DEF Detach, Holds, ManagerInv, Shape, BoardsAreOwned
  <2>2. UseOf(tgt[o]) = IF attached[tgt[o]] THEN "console" ELSE "nothing"
    BY <1>34, <2>1, UseOfHeld DEF Detach, OperationPcs
  <2>3. ~InOperation(tgt[o])
    BY <1>34, <2>1, UseOfHeld DEF Detach, OperationPcs
  <2>4. CASE attached[tgt[o]]
    <3>1. pump[tgt[o]] # "none"
      BY <2>1, <2>4 DEF ManagerInv, PumpExact
    <3>2. ~InOperation(tgt[o])'
      BY <1>0, <1>34, <2>3, <2>4 DEF Detach, InOperation, OperationPcs
    <3>3. UseOf(tgt[o])' = "ending"
      <4>1. ~attached'[tgt[o]] /\ tgt' = tgt /\ pump' = pump
        BY <1>0, <1>34, <2>1, <2>4 DEF Detach, DetachBegin
      <4>. QED
        BY <3>1, <3>2, <4>1 DEF UseOf
    <3>4. \A c \in Boards \ {tgt[o]} : SameUse(c)
      BY <1>0, <1>34, <2>4 DEF Detach, DetachBegin, SameUse, OperationPcs
    <3>5. tgt' = tgt
      BY <1>34 DEF Detach
    <3>6. Owned!EndCapture(tgt[o])
      BY <1>34, <2>1, <2>2, <2>4, <3>3, <3>4, <3>5, OneUseChanges DEF Detach, Owned!EndCapture
    <3>. QED
      BY <2>1, <3>6 DEF Owned!Next, Owned!BoardStep
  <2>5. CASE ~attached[tgt[o]] /\ kind[o] = "ignore"
    <3>1. \A c \in Boards : SameUse(c)
      BY <1>0, <1>34, <2>5 DEF Detach, AfterDetach, SameUse, OperationPcs
    <3>. QED
      BY <1>34, <3>1, Stutters DEF Detach
  <2>6. CASE ~attached[tgt[o]] /\ kind[o] # "ignore"
    <3>1. tgt' = tgt /\ pc' = [pc EXCEPT ![o] = AfterDetach(o)] /\ UNCHANGED <<ctrl, attached, pump>>
      BY <1>34, <2>6 DEF Detach
    <3>2. AfterDetach(o) \in OperationPcs
      BY <2>6 DEF AfterDetach, OperationPcs
    <3>3. UseOf(tgt[o])' = "operation"
      BY <1>0, <3>1, <3>2 DEF UseOf, InOperation
    <3>4. \A c \in Boards \ {tgt[o]} : SameUse(c)
      BY <1>0, <3>1 DEF SameUse
    <3>5. Owned!Operate(tgt[o])
      BY <2>1, <2>2, <2>6, <3>1, <3>3, <3>4, OneUseChanges DEF Owned!Operate
    <3>. QED
      BY <2>1, <3>5 DEF Owned!Next, Owned!BoardStep
  <2>. QED
    BY <2>4, <2>5, <2>6
<1>35. ASSUME NEW o \in Requests, Detached(o)
      PROVE  Owned!Next \/ UNCHANGED Owned!vars
  <2>1. Holds(o) /\ tgt[o] \in Boards /\ ctrl[tgt[o]] = o
    BY <1>35 DEF Detached, Holds, ManagerInv, Shape, BoardsAreOwned
  <2>2. UseOf(tgt[o]) = "ending" /\ ~InOperation(tgt[o])
    BY <1>35, <2>1, UseOfHeld DEF Detached, DetachEnd, OperationPcs
  <2>3. /\ tgt' = tgt /\ pc' = [pc EXCEPT ![o] = AfterDetach(o)] /\ UNCHANGED <<ctrl, attached>>
        /\ pump' = [pump EXCEPT ![tgt[o]] = "none"]
    BY <1>35 DEF Detached, DetachEnd
  <2>4. ~attached[tgt[o]]
    BY <1>35 DEF Detached, ManagerInv, PumpExact
  <2>5. \A c \in Boards \ {tgt[o]} : SameUse(c)
    BY <1>0, <2>3 DEF SameUse
  <2>6. CASE kind[o] = "ignore"
    <3>1. ~InOperation(tgt[o])'
      BY <1>0, <2>2, <2>3, <2>6 DEF InOperation, AfterDetach, OperationPcs
    <3>2. UseOf(tgt[o])' = "nothing"
      BY <1>0, <2>1, <2>3, <2>4, <3>1 DEF UseOf
    <3>3. Owned!UserSeesEnd(tgt[o])
      BY <2>1, <2>2, <2>3, <2>5, <3>2, OneUseChanges DEF Owned!UserSeesEnd
    <3>. QED
      BY <2>1, <3>3 DEF Owned!Next, Owned!BoardStep
  <2>7. CASE kind[o] # "ignore"
    <3>1. AfterDetach(o) \in OperationPcs
      BY <2>7 DEF AfterDetach, OperationPcs
    <3>2. UseOf(tgt[o])' = "operation"
      BY <1>0, <2>3, <3>1 DEF UseOf, InOperation
    <3>3. Owned!Operate(tgt[o])
      BY <2>1, <2>2, <2>3, <2>5, <3>2, OneUseChanges DEF Owned!Operate
    <3>. QED
      BY <2>1, <3>3 DEF Owned!Next, Owned!BoardStep
  <2>. QED
    BY <2>6, <2>7
<1>36. ASSUME NEW o \in Requests, Touch(o)
      PROVE  Owned!Next \/ UNCHANGED Owned!vars
  <2>1. ctrl' = ctrl /\ \A c \in Boards : SameUse(c)
    BY <1>0, <1>36 DEF Touch, SameUse, OperationPcs
  <2>. QED
    BY <2>1, Stutters
<1>37. ASSUME NEW o \in Requests, TouchEnds(o)
      PROVE  Owned!Next \/ UNCHANGED Owned!vars
  <2>1. ctrl' = ctrl /\ \A c \in Boards : SameUse(c)
    BY <1>0, <1>37 DEF TouchEnds, SameUse, OperationPcs
  <2>. QED
    BY <2>1, Stutters
<1>38. ASSUME NEW o \in Requests, WorkEnds(o)
      PROVE  Owned!Next \/ UNCHANGED Owned!vars
  <2>1. pc[o] \in OperationPcs
    BY <1>38 DEF WorkEnds, OperationPcs
  <2>. QED
    BY <1>38, <2>1, FinishStep DEF WorkEnds
<1>39. ASSUME NEW o \in Requests, DebugFails(o)
      PROVE  Owned!Next \/ UNCHANGED Owned!vars
  <2>1. ctrl' = ctrl /\ \A c \in Boards : SameUse(c)
    BY <1>0, <1>39 DEF DebugFails, SameUse, OperationPcs
  <2>. QED
    BY <2>1, Stutters
<1>40. ASSUME NEW o \in Requests, DebugStarts(o)
      PROVE  Owned!Next \/ UNCHANGED Owned!vars
  <2>1. ctrl' = ctrl /\ \A c \in Boards : SameUse(c)
    BY <1>0, <1>40 DEF DebugStarts, SameUse, OperationPcs
  <2>. QED
    BY <2>1, Stutters
<1>41. ASSUME NEW o \in Requests, DebugDies(o)
      PROVE  Owned!Next \/ UNCHANGED Owned!vars
  <2>1. pc[o] \in OperationPcs
    BY <1>41 DEF DebugDies, OperationPcs
  <2>. QED
    BY <1>41, <2>1, FinishStep DEF DebugDies
<1>42. ASSUME NEW o \in Requests, DebugTimesOut(o)
      PROVE  Owned!Next \/ UNCHANGED Owned!vars
  <2>1. ctrl' = ctrl /\ \A c \in Boards : SameUse(c)
    BY <1>0, <1>42 DEF DebugTimesOut, SameUse, OperationPcs
  <2>. QED
    BY <2>1, Stutters
<1>43. ASSUME NEW o \in Requests, DebugAborted(o)
      PROVE  Owned!Next \/ UNCHANGED Owned!vars
  <2>1. pc[o] \in OperationPcs
    BY <1>43 DEF DebugAborted, OperationPcs
  <2>. QED
    BY <1>43, <2>1, FinishStep DEF DebugAborted
<1>44. ASSUME NEW o \in Requests, SessionEnds(o)
      PROVE  Owned!Next \/ UNCHANGED Owned!vars
  <2>1. pc[o] \in OperationPcs
    BY <1>44 DEF SessionEnds, OperationPcs
  <2>. QED
    BY <1>44, <2>1, FinishStep DEF SessionEnds
<1>45. ASSUME NEW o \in Requests, StopDebug(o)
      PROVE  Owned!Next \/ UNCHANGED Owned!vars
  <2>1. ctrl' = ctrl /\ \A c \in Boards : SameUse(c)
    BY <1>0, <1>45 DEF StopDebug, SameUse, OperationPcs
  <2>. QED
    BY <2>1, Stutters
<1>46. ASSUME NEW o \in Requests, StopSignals(o)
      PROVE  Owned!Next \/ UNCHANGED Owned!vars
  <2>1. ctrl' = ctrl /\ \A c \in Boards : SameUse(c)
    BY <1>0, <1>46 DEF StopSignals, SameUse, OperationPcs
  <2>. QED
    BY <2>1, Stutters
<1>47. ASSUME NEW o \in Requests, StopReturns(o)
      PROVE  Owned!Next \/ UNCHANGED Owned!vars
  <2>1. ctrl' = ctrl /\ \A c \in Boards : SameUse(c)
    BY <1>0, <1>47 DEF StopReturns, SameUse, OperationPcs
  <2>. QED
    BY <2>1, Stutters
<1>48. ASSUME NEW o \in Requests, SetRecord(o)
      PROVE  Owned!Next \/ UNCHANGED Owned!vars
  <2>1. ctrl' = ctrl /\ \A c \in Boards : SameUse(c)
    BY <1>0, <1>48 DEF SetRecord, SameUse, OperationPcs
  <2>. QED
    BY <2>1, Stutters
<1>49. ASSUME NEW o \in Requests, SettingFails(o)
      PROVE  Owned!Next \/ UNCHANGED Owned!vars
  <2>1. ctrl' = ctrl /\ \A c \in Boards : SameUse(c)
    BY <1>0, <1>49 DEF SettingFails, SameUse, OperationPcs
  <2>. QED
    BY <2>1, Stutters
<1>50. ASSUME NEW o \in Requests, SetMirror(o)
      PROVE  Owned!Next \/ UNCHANGED Owned!vars
  <2>1. ctrl' = ctrl /\ \A c \in Boards : SameUse(c)
    BY <1>0, <1>50 DEF SetMirror, SameUse, OperationPcs
  <2>. QED
    BY <2>1, Stutters
<1>51. ASSUME NEW o \in Requests, SetTarget(o)
      PROVE  Owned!Next \/ UNCHANGED Owned!vars
  <2>1. ctrl' = ctrl /\ \A c \in Boards : SameUse(c)
    BY <1>0, <1>51 DEF SetTarget, SameUse, OperationPcs
  <2>. QED
    BY <2>1, Stutters
<1>52. ASSUME NEW o \in Requests, SendLooksUp(o)
      PROVE  Owned!Next \/ UNCHANGED Owned!vars
  <2>1. ctrl' = ctrl /\ \A c \in Boards : SameUse(c)
    BY <1>0, <1>52 DEF SendLooksUp, SameUse, OperationPcs
  <2>. QED
    BY <2>1, Stutters
<1>53. ASSUME NEW o \in Requests, SendWrites(o)
      PROVE  Owned!Next \/ UNCHANGED Owned!vars
  <2>1. ctrl' = ctrl /\ \A c \in Boards : SameUse(c)
    BY <1>0, <1>53 DEF SendWrites, SameUse, OperationPcs
  <2>. QED
    BY <2>1, Stutters
<1>54. ASSUME NEW o \in Requests, IgnoreLock(o)
      PROVE  Owned!Next \/ UNCHANGED Owned!vars
  <2>1. \A c \in Boards : SameUse(c)
    BY <1>0, <1>54 DEF IgnoreLock, SameUse, OperationPcs
  <2>2. tgt[o] \in Boards
    BY <1>54 DEF IgnoreLock, ManagerInv, Shape
  <2>. QED
    BY <1>54, <2>1, <2>2, TakeStep DEF IgnoreLock
<1>55. ASSUME NEW o \in Requests, OcdListens(o)
      PROVE  Owned!Next \/ UNCHANGED Owned!vars
  <2>1. ctrl' = ctrl /\ \A c \in Boards : SameUse(c)
    BY <1>0, <1>55 DEF OcdListens, SameUse, OperationPcs
  <2>. QED
    BY <2>1, Stutters
<1>56. ASSUME NEW o \in Requests, OcdExits(o)
      PROVE  Owned!Next \/ UNCHANGED Owned!vars
  <2>1. ctrl' = ctrl /\ \A c \in Boards : SameUse(c)
    BY <1>0, <1>56 DEF OcdExits, SameUse, OperationPcs
  <2>. QED
    BY <2>1, Stutters
<1>57. CASE UNCHANGED vars
  <2>1. ctrl' = ctrl /\ \A c \in Boards : SameUse(c)
    BY <1>0, <1>57 DEF vars, SameUse, OperationPcs
  <2>. QED
    BY <2>1, Stutters
<1> HIDE DEF envVars, boardVars, pumpVars, runVars, reqVars, ocdVars, Goto
<1>. QED
  BY <1>1, <1>2, <1>3, <1>4, <1>5, <1>6, <1>7, <1>8, <1>9, <1>10,
     <1>11, <1>12, <1>13, <1>14, <1>15, <1>16, <1>17, <1>18, <1>19, <1>20,
     <1>21, <1>22, <1>23, <1>24, <1>25, <1>26, <1>27, <1>28, <1>29, <1>30,
     <1>31, <1>32, <1>33, <1>34, <1>35, <1>36, <1>37, <1>38, <1>39, <1>40,
     <1>41, <1>42, <1>43, <1>44, <1>45, <1>46, <1>47, <1>48, <1>49, <1>50,
     <1>51, <1>52, <1>53, <1>54, <1>55, <1>56, <1>57
     DEF Next, BusStep, RunStep, PumpStep, ReqStep

(* The manager starts as BoardOwner does, with every board free and unused. *)
LEMMA RefinementInit == Init => Owned!Init
<1> SUFFICES ASSUME Init PROVE Owned!Init
  OBVIOUS
<1>1. \A b \in Boards : UseOf(b) = "nothing"
  BY DEF Init, UseOf, InOperation, OperationPcs
<1>. QED
  BY <1>1 DEF Init, Owned!Init

(* md.ctrl serializes attaching, detaching and exclusive operations        *)
(* (manager.go:61): the manager implements BoardOwner.                     *)
THEOREM Refinement == Spec => BoardsHaveOwners
<1>1. Init => Owned!Init
  BY RefinementInit
<1>2. ManagerInv /\ [Next]_vars => [Owned!Next]_(Owned!vars)
  BY RefinementStep
<1>. QED
  BY <1>1, <1>2, Invariance, PTL DEF Spec, BoardsHaveOwners, Owned!Spec
=============================================================================
