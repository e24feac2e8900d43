--------------------------- MODULE OcdServerProofs ---------------------------
(***************************************************************************)
(* Proofs about the OpenOCD process. For any set of callers of Stop: what  *)
(* answers nil, or fails to start, leaves nothing behind; an exit that our *)
(* signal caused is no error, and a failed one that nobody asked for is;   *)
(* and what the callers see is an OcdSession.                              *)
(***************************************************************************)
EXTENDS OcdServer, TLAPS

-----------------------------------------------------------------------------
(* The inductive invariant. *)

(* The exit status is known once OpenOCD is dead, and cmd.Wait returns     *)
(* only when nothing is left that holds the pipe. What is dead neither     *)
(* comes back nor forks, so this stays so.                                 *)
Reaped ==
  /\ status = "none" <=> leader = "alive"
  /\ waitPc # "wait" => GroupIsGone

(* Whoever is inside Stop, or was, has set stopping. *)
StoppersMark == \A c \in Callers : stopPc[c] # "idle" => stopping

(* What an answer proves: a nil that done was closed, an error that        *)
(* OpenOCD may not be signalled; Start fails with either, or after done.   *)
AnswersHold ==
  /\ \A c \in Callers : stopPc[c] = "nil" => done
  /\ \A c \in Callers : stopPc[c] = "error" => foreign
  /\ startPc = "died" => done
  /\ startPc = "failed" => stopPc[Start] \in {"nil", "error"}

(* A death after our signal is one after a Stop, and the verdict is in     *)
(* before done is closed: a Stop that comes between the two no longer      *)
(* changes it.                                                             *)
VerdictHolds ==
  /\ byUs => stopping
  /\ exitErr => waitPc \in {"close", "over"} /\ ~byUs
  /\ waitPc \in {"close", "over"} /\ status = "error" /\ ~stopping => exitErr

Inv == TypeOK /\ Reaped /\ StoppersMark /\ AnswersHold /\ VerdictHolds

-----------------------------------------------------------------------------
(* The invariant holds at the start. *)
LEMMA InitInv == Init => Inv
BY DEF Init, Inv, TypeOK, Reaped, StoppersMark, AnswersHold, VerdictHolds,
       Callers

(* The types, and what they say about signal, port and done. *)
LEMMA TypeStep == TypeOK /\ StoppersMark /\ [Next]_vars => TypeOK'
<1> SUFFICES ASSUME TypeOK, StoppersMark, [Next]_vars
             PROVE  TypeOK'
  OBVIOUS
<1> USE DEF procVars, srvVars, history, TypeOK, StoppersMark
<1>1. CASE Reports
  BY <1>1 DEF Reports
<1>2. CASE Forks
  BY <1>2 DEF Forks
<1>3. CASE LeaderExits
  BY <1>3 DEF LeaderExits
<1>4. CASE ChildExits
  BY <1>4 DEF ChildExits
<1>5. CASE WaitReturns
  BY <1>5 DEF WaitReturns
<1>6. CASE WaitRecords
  BY <1>6 DEF WaitRecords
<1>7. CASE WaitCloses
  BY <1>7 DEF WaitCloses
<1>8. CASE StartServes
  <2>1. port' = TRUE /\ startPc' = "served" /\ ready' = FALSE
    BY <1>8 DEF StartServes
  <2>2. UNCHANGED <<procVars, stopping, exitErr, done, waitPc, stopPc, history>>
    BY <1>8 DEF StartServes
  <2>3. ready' \in BOOLEAN /\ port' \in BOOLEAN /\ (port' <=> startPc' = "served")
    BY <2>1
  <2>4. startPc' \in {"select", "served", "died", "stop", "failed"}
    BY <2>1
  <2>5. (signal' # "none" => stopping') /\ (done' <=> waitPc' = "over")
    BY <2>2
  <2>6. foreign' \in BOOLEAN /\ stopping' \in BOOLEAN /\ exitErr' \in BOOLEAN
        /\ done' \in BOOLEAN /\ said' \in BOOLEAN /\ byUs' \in BOOLEAN
    BY <2>2
  <2>. QED
    BY <2>2, <2>3, <2>4, <2>5, <2>6
<1>9. CASE StartSeesExit
  BY <1>9 DEF StartSeesExit
<1>10. CASE StartGivesUp
  BY <1>10 DEF StartGivesUp
<1>11. CASE StartFails
  BY <1>11 DEF StartFails
<1>12. ASSUME NEW c \in Callers, StopMarks(c)
      PROVE  TypeOK'
  BY <1>12 DEF StopMarks, At
<1>13. ASSUME NEW c \in Callers, StopChecks(c)
      PROVE  TypeOK'
  BY <1>13 DEF StopChecks, At
<1>14. ASSUME NEW c \in Callers, StopInterrupts(c)
      PROVE  TypeOK'
  BY <1>14 DEF StopInterrupts, At
<1>15. ASSUME NEW c \in Callers, StopWaits(c)
      PROVE  TypeOK'
  BY <1>15 DEF StopWaits, At
<1>16. ASSUME NEW c \in Callers, StopKills(c)
      PROVE  TypeOK'
  BY <1>16 DEF StopKills, At
<1>17. ASSUME NEW c \in Callers, StopReturns(c)
      PROVE  TypeOK'
  BY <1>17 DEF StopReturns, At
<1>18. CASE UNCHANGED vars
  BY <1>18 DEF vars
<1>. QED
  BY <1>1, <1>2, <1>3, <1>4, <1>5, <1>6, <1>7, <1>8, <1>9, <1>10, <1>11,
     <1>12, <1>13, <1>14, <1>15, <1>16, <1>17, <1>18
     DEF Next, OpenOcd, Waiter, StartStep, StopStep

(* What was reaped stays dead. *)
LEMMA ReapedStep == TypeOK /\ Reaped /\ [Next]_vars => Reaped'
<1> SUFFICES ASSUME TypeOK, Reaped, [Next]_vars
             PROVE  Reaped'
  OBVIOUS
<1> USE DEF procVars, srvVars, history, TypeOK, Reaped, GroupIsGone
<1>1. CASE Reports
  BY <1>1 DEF Reports
<1>2. CASE Forks
  BY <1>2 DEF Forks
<1>3. CASE LeaderExits
  BY <1>3 DEF LeaderExits
<1>4. CASE ChildExits
  BY <1>4 DEF ChildExits
<1>5. CASE WaitReturns
  BY <1>5 DEF WaitReturns
<1>6. CASE WaitRecords
  BY <1>6 DEF WaitRecords
<1>7. CASE WaitCloses
  BY <1>7 DEF WaitCloses
<1>8. CASE StartServes
  BY <1>8 DEF StartServes
<1>9. CASE StartSeesExit
  BY <1>9 DEF StartSeesExit
<1>10. CASE StartGivesUp
  BY <1>10 DEF StartGivesUp
<1>11. CASE StartFails
  BY <1>11 DEF StartFails
<1>12. ASSUME NEW c \in Callers, StopMarks(c)
      PROVE  Reaped'
  BY <1>12 DEF StopMarks, At
<1>13. ASSUME NEW c \in Callers, StopChecks(c)
      PROVE  Reaped'
  BY <1>13 DEF StopChecks, At
<1>14. ASSUME NEW c \in Callers, StopInterrupts(c)
      PROVE  Reaped'
  BY <1>14 DEF StopInterrupts, At
<1>15. ASSUME NEW c \in Callers, StopWaits(c)
      PROVE  Reaped'
  BY <1>15 DEF StopWaits, At
<1>16. ASSUME NEW c \in Callers, StopKills(c)
      PROVE  Reaped'
  BY <1>16 DEF StopKills, At
<1>17. ASSUME NEW c \in Callers, StopReturns(c)
      PROVE  Reaped'
  BY <1>17 DEF StopReturns, At
<1>18. CASE UNCHANGED vars
  BY <1>18 DEF vars
<1>. QED
  BY <1>1, <1>2, <1>3, <1>4, <1>5, <1>6, <1>7, <1>8, <1>9, <1>10, <1>11,
     <1>12, <1>13, <1>14, <1>15, <1>16, <1>17, <1>18
     DEF Next, OpenOcd, Waiter, StartStep, StopStep

(* stopping is set on the way in and never reset. *)
LEMMA StoppersMarkStep == TypeOK /\ StoppersMark /\ [Next]_vars => StoppersMark'
<1> SUFFICES ASSUME TypeOK, StoppersMark, [Next]_vars
             PROVE  StoppersMark'
  OBVIOUS
<1> USE DEF procVars, srvVars, history, TypeOK, StoppersMark
<1>1. CASE Reports
  BY <1>1 DEF Reports
<1>2. CASE Forks
  BY <1>2 DEF Forks
<1>3. CASE LeaderExits
  BY <1>3 DEF LeaderExits
<1>4. CASE ChildExits
  BY <1>4 DEF ChildExits
<1>5. CASE WaitReturns
  BY <1>5 DEF WaitReturns
<1>6. CASE WaitRecords
  BY <1>6 DEF WaitRecords
<1>7. CASE WaitCloses
  BY <1>7 DEF WaitCloses
<1>8. CASE StartServes
  BY <1>8 DEF StartServes
<1>9. CASE StartSeesExit
  BY <1>9 DEF StartSeesExit
<1>10. CASE StartGivesUp
  BY <1>10 DEF StartGivesUp
<1>11. CASE StartFails
  BY <1>11 DEF StartFails
<1>12. ASSUME NEW c \in Callers, StopMarks(c)
      PROVE  StoppersMark'
  BY <1>12 DEF StopMarks, At
<1>13. ASSUME NEW c \in Callers, StopChecks(c)
      PROVE  StoppersMark'
  BY <1>13 DEF StopChecks, At
<1>14. ASSUME NEW c \in Callers, StopInterrupts(c)
      PROVE  StoppersMark'
  BY <1>14 DEF StopInterrupts, At
<1>15. ASSUME NEW c \in Callers, StopWaits(c)
      PROVE  StoppersMark'
  BY <1>15 DEF StopWaits, At
<1>16. ASSUME NEW c \in Callers, StopKills(c)
      PROVE  StoppersMark'
  BY <1>16 DEF StopKills, At
<1>17. ASSUME NEW c \in Callers, StopReturns(c)
      PROVE  StoppersMark'
  BY <1>17 DEF StopReturns, At
<1>18. CASE UNCHANGED vars
  BY <1>18 DEF vars
<1>. QED
  BY <1>1, <1>2, <1>3, <1>4, <1>5, <1>6, <1>7, <1>8, <1>9, <1>10, <1>11,
     <1>12, <1>13, <1>14, <1>15, <1>16, <1>17, <1>18
     DEF Next, OpenOcd, Waiter, StartStep, StopStep

(* No answer is given without its reason, and the reasons stay. *)
LEMMA AnswersStep == TypeOK /\ AnswersHold /\ [Next]_vars => AnswersHold'
<1> SUFFICES ASSUME TypeOK, AnswersHold, [Next]_vars
             PROVE  AnswersHold'
  OBVIOUS
<1> USE DEF procVars, srvVars, history, TypeOK, AnswersHold, Callers
<1>1. CASE Reports
  BY <1>1 DEF Reports
<1>2. CASE Forks
  BY <1>2 DEF Forks
<1>3. CASE LeaderExits
  BY <1>3 DEF LeaderExits
<1>4. CASE ChildExits
  BY <1>4 DEF ChildExits
<1>5. CASE WaitReturns
  BY <1>5 DEF WaitReturns
<1>6. CASE WaitRecords
  BY <1>6 DEF WaitRecords
<1>7. CASE WaitCloses
  BY <1>7 DEF WaitCloses
<1>8. CASE StartServes
  BY <1>8 DEF StartServes
<1>9. CASE StartSeesExit
  BY <1>9 DEF StartSeesExit
<1>10. CASE StartGivesUp
  BY <1>10 DEF StartGivesUp
<1>11. CASE StartFails
  BY <1>11 DEF StartFails
<1>12. ASSUME NEW c \in Callers, StopMarks(c)
      PROVE  AnswersHold'
  BY <1>12 DEF StopMarks, At
<1>13. ASSUME NEW c \in Callers, StopChecks(c)
      PROVE  AnswersHold'
  BY <1>13 DEF StopChecks, At
<1>14. ASSUME NEW c \in Callers, StopInterrupts(c)
      PROVE  AnswersHold'
  BY <1>14 DEF StopInterrupts, At
<1>15. ASSUME NEW c \in Callers, StopWaits(c)
      PROVE  AnswersHold'
  BY <1>15 DEF StopWaits, At
<1>16. ASSUME NEW c \in Callers, StopKills(c)
      PROVE  AnswersHold'
  BY <1>16 DEF StopKills, At
<1>17. ASSUME NEW c \in Callers, StopReturns(c)
      PROVE  AnswersHold'
  BY <1>17 DEF StopReturns, At
<1>18. CASE UNCHANGED vars
  BY <1>18 DEF vars
<1>. QED
  BY <1>1, <1>2, <1>3, <1>4, <1>5, <1>6, <1>7, <1>8, <1>9, <1>10, <1>11,
     <1>12, <1>13, <1>14, <1>15, <1>16, <1>17, <1>18
     DEF Next, OpenOcd, Waiter, StartStep, StopStep

(* The goroutine of cmd.Wait judges once, by what was asked until then. *)
LEMMA VerdictStep == TypeOK /\ Reaped /\ VerdictHolds /\ [Next]_vars => VerdictHolds'
<1> SUFFICES ASSUME TypeOK, Reaped, VerdictHolds, [Next]_vars
             PROVE  VerdictHolds'
  OBVIOUS
<1> USE DEF procVars, srvVars, history, TypeOK, Reaped, GroupIsGone, VerdictHolds
<1>1. CASE Reports
  BY <1>1 DEF Reports
<1>2. CASE Forks
  BY <1>2 DEF Forks
<1>3. CASE LeaderExits
  BY <1>3 DEF LeaderExits
<1>4. CASE ChildExits
  BY <1>4 DEF ChildExits
<1>5. CASE WaitReturns
  BY <1>5 DEF WaitReturns
<1>6. CASE WaitRecords
  BY <1>6 DEF WaitRecords
<1>7. CASE WaitCloses
  BY <1>7 DEF WaitCloses
<1>8. CASE StartServes
  BY <1>8 DEF StartServes
<1>9. CASE StartSeesExit
  BY <1>9 DEF StartSeesExit
<1>10. CASE StartGivesUp
  BY <1>10 DEF StartGivesUp
<1>11. CASE StartFails
  BY <1>11 DEF StartFails
<1>12. ASSUME NEW c \in Callers, StopMarks(c)
      PROVE  VerdictHolds'
  BY <1>12 DEF StopMarks, At
<1>13. ASSUME NEW c \in Callers, StopChecks(c)
      PROVE  VerdictHolds'
  BY <1>13 DEF StopChecks, At
<1>14. ASSUME NEW c \in Callers, StopInterrupts(c)
      PROVE  VerdictHolds'
  BY <1>14 DEF StopInterrupts, At
<1>15. ASSUME NEW c \in Callers, StopWaits(c)
      PROVE  VerdictHolds'
  BY <1>15 DEF StopWaits, At
<1>16. ASSUME NEW c \in Callers, StopKills(c)
      PROVE  VerdictHolds'
  BY <1>16 DEF StopKills, At
<1>17. ASSUME NEW c \in Callers, StopReturns(c)
      PROVE  VerdictHolds'
  BY <1>17 DEF StopReturns, At
<1>18. CASE UNCHANGED vars
  BY <1>18 DEF vars
<1>. QED
  BY <1>1, <1>2, <1>3, <1>4, <1>5, <1>6, <1>7, <1>8, <1>9, <1>10, <1>11,
     <1>12, <1>13, <1>14, <1>15, <1>16, <1>17, <1>18
     DEF Next, OpenOcd, Waiter, StartStep, StopStep

(* No step of OpenOCD, of Start, of a Stop or of the goroutine of cmd.Wait *)
(* breaks the invariant.                                                   *)
THEOREM Invariance == Spec => []Inv
<1>1. Inv /\ [Next]_vars => Inv'
  BY TypeStep, ReapedStep, StoppersMarkStep, AnswersStep, VerdictStep DEF Inv
<1>. QED
  BY InitInv, <1>1, PTL DEF Spec

(* The variables keep their types; only a Stop signals OpenOCD, only a     *)
(* Start that succeeds has a port, and done is closed once.                *)
THEOREM TypeCorrect == Spec => []TypeOK
<1>1. Inv => TypeOK
  BY DEF Inv
<1>. QED
  BY Invariance, <1>1, PTL

(* A Stop that answered nil has seen done closed, and done is closed only  *)
(* when cmd.Wait has read the pipe to its end: nothing of the group is     *)
(* left. So it is for a Start that fails, unless OpenOCD may not be        *)
(* signalled.                                                              *)
THEOREM AnswersLeaveNothing == Spec => []NothingLeftBehind
<1>1. Inv => NothingLeftBehind
  <2> SUFFICES ASSUME Inv
               PROVE  NothingLeftBehind
    OBVIOUS
  <2>1. done => GroupIsGone
    BY DEF Inv, TypeOK, Reaped
  <2>2. \A c \in Callers : stopPc[c] = "nil" => leader = "dead" /\ child # "alive"
    BY <2>1 DEF Inv, AnswersHold, GroupIsGone
  <2>3. Start \in Callers
    BY DEF Callers
  <2>4. startPc \in {"died", "failed"} /\ ~foreign => done
    BY <2>3 DEF Inv, AnswersHold
  <2>. QED
    BY <2>1, <2>2, <2>4 DEF NothingLeftBehind, GroupIsGone
<1>. QED
  BY Invariance, <1>1, PTL

(* An exit that our signal caused is not reported as a failure, and a      *)
(* failed exit that nobody asked for is, from the moment done is closed.   *)
THEOREM VerdictIsRight == Spec => []ExitIsJudged
<1>1. Inv => ExitIsJudged
  BY DEF Inv, TypeOK, VerdictHolds, ExitIsJudged
<1>. QED
  BY Invariance, <1>1, PTL

-----------------------------------------------------------------------------
(* The refinement. Three of the server's steps are steps of the session it *)
(* is to its callers; what the rest does they cannot see.                  *)

(* The first report of a port that comes before any Stop is Listens; a     *)
(* later one changes nothing.                                              *)
LEMMA ReportIsListens ==
  ASSUME Inv, Reports
  PROVE  [Session!Next]_Session!vars
<1>1. ~done
  BY DEF Inv, TypeOK, Reaped, GroupIsGone, Reports
<1>2. ~done' /\ stopping' = stopping
  BY <1>1 DEF Reports, srvVars
<1>3. said' = (said \/ ~stopping)
  BY DEF Reports
<1>4. CASE ~stopping /\ ~said
  <2>1. procBar = "starting" /\ procBar' = "up" /\ said'
    BY <1>1, <1>2, <1>3, <1>4 DEF procBar
  <2>2. said' = TRUE
    BY <1>3, <1>4
  <2>. QED
    BY <2>1, <2>2 DEF Session!Next, Session!Listens
<1>5. CASE stopping \/ said
  <2>1. said' = said
    BY <1>3, <1>5 DEF Inv, TypeOK
  <2>2. procBar' = procBar
    BY <1>1, <1>2, <1>5, <2>1 DEF procBar
  <2>. QED
    BY <2>1, <2>2 DEF Session!vars
<1>. QED
  BY <1>4, <1>5

(* The first Stop asks the session to stop, unless it has exited already.  *)
LEMMA StopIsStopped ==
  ASSUME Inv, NEW c \in Callers, StopMarks(c)
  PROVE  [Session!Next]_Session!vars
<1>1. stopping' /\ done' = done /\ said' = said
  BY DEF StopMarks, history
<1>2. CASE ~done /\ ~stopping
  <2>1. procBar \in {"starting", "up"} /\ procBar' = "stopping"
    BY <1>1, <1>2 DEF procBar
  <2>. QED
    BY <1>1, <2>1 DEF Session!Next, Session!IsStopped
<1>3. CASE done \/ stopping
  <2>1. procBar' = procBar
    BY <1>1, <1>3 DEF procBar
  <2>. QED
    BY <1>1, <2>1 DEF Session!vars
<1>. QED
  BY <1>2, <1>3

(* The session has exited when done is closed.                             *)
LEMMA CloseIsExit ==
  ASSUME Inv, WaitCloses
  PROVE  [Session!Next]_Session!vars
<1>1. ~done /\ done' /\ said' = said
  BY DEF Inv, TypeOK, WaitCloses, history
<1>2. procBar # "exited" /\ procBar' = "exited"
  BY <1>1 DEF procBar
<1>. QED
  BY <1>1, <1>2 DEF Session!Next, Session!Exits

(* Every other step leaves done, stopping and said alone.                  *)
LEMMA OthersAreUnseen ==
  ASSUME Next, ~Reports, ~WaitCloses, \A c \in Callers : ~StopMarks(c)
  PROVE  UNCHANGED <<done, stopping, said>>
<1> USE DEF procVars, srvVars, history
<1>1. CASE OpenOcd
  BY <1>1 DEF OpenOcd, Forks, LeaderExits, ChildExits
<1>2. CASE Waiter
  BY <1>2 DEF Waiter, WaitReturns, WaitRecords
<1>3. CASE StartStep
  BY <1>3 DEF StartStep, StartServes, StartSeesExit, StartGivesUp, StartFails
<1>4. ASSUME NEW c \in Callers, StopStep(c)
      PROVE  UNCHANGED <<done, stopping, said>>
  BY <1>4
     DEF StopStep, StopChecks, StopInterrupts, StopWaits, StopKills, StopReturns
<1>. QED
  BY <1>1, <1>2, <1>3, <1>4 DEF Next

(* An OpenOCD process with its goroutines implements the session that the  *)
(* manager relies on: it comes up or not, is asked to stop or not, and     *)
(* ends once.                                                              *)
THEOREM ServerIsSession == Spec => IsSession
<1>1. Init => Session!Init
  BY DEF Init, procBar, Session!Init
<1>2. Inv /\ [Next]_vars => [Session!Next]_Session!vars
  <2> SUFFICES ASSUME Inv, [Next]_vars
               PROVE  [Session!Next]_Session!vars
    OBVIOUS
  <2>1. CASE Reports
    BY <2>1, ReportIsListens
  <2>2. CASE WaitCloses
    BY <2>2, CloseIsExit
  <2>3. CASE \E c \in Callers : StopMarks(c)
    BY <2>3, StopIsStopped
  <2>4. CASE UNCHANGED <<done, stopping, said>>
    BY <2>4 DEF procBar, Session!vars
  <2>5. UNCHANGED vars => UNCHANGED <<done, stopping, said>>
    BY DEF vars, srvVars, history
  <2>. QED
    BY <2>1, <2>2, <2>3, <2>4, <2>5, OthersAreUnseen
<1>. QED
  BY Invariance, <1>1, <1>2, PTL DEF Spec, IsSession, Session!Spec
=============================================================================
