--------------------------- MODULE SortSession_proofs ---------------------------
(***************************************************************************)
(* Theorems about SortSession, for any number of HUD threads, runs, steps, *)
(* tokens and directives.                                                  *)
(***************************************************************************)
EXTENDS SortSession, SequenceTheorems, TLAPS

-----------------------------------------------------------------------------
(* Types.                                                                  *)

LEMMA InitType == Init => TypeOK
<1> SUFFICES ASSUME Init PROVE TypeOK
  OBVIOUS
<1> USE DEF Init
<1>1. 0 \in 0..MaxRuns /\ 0 \in 0..MaxTokens /\ 0 \in 0..MaxSteps
  BY BoundsAssumption
<1>2. <<>> \in Seq(Queued)
  OBVIOUS
<1>3. batch \in [Runs -> Seq(Queued)] /\ directives \in Seq(Queued)
  BY <1>2
<1>4. /\ phase \in [Runs -> Phases] /\ lpc \in [Runs -> LoopPcs]
      /\ cmd \in [Runs -> Commands] /\ outcome \in [Runs -> Outcomes]
      /\ hpc \in [Hud -> HudPcs]
  BY DEF Phases, LoopPcs, Commands, Outcomes, HudPcs
<1> QED
  BY <1>1, <1>3, <1>4 DEF TypeOK

\* Bus transactions keep the types.
LEMMA BusType ==
    ASSUME TypeOK, NEW t \in Threads, BeginWrite(t) \/ LandWrite(t)
    PROVE  TypeOK'
<1>1. CASE BeginWrite(t)
  BY <1>1 DEF BeginWrite, TypeOK, ctlVars, loopVars, history
<1>2. CASE LandWrite(t)
  BY <1>2 DEF LandWrite, TypeOK, ctlVars, loopVars, history
<1> QED BY <1>1, <1>2

\* Every step of the Loop thread keeps the types.
LEMMA LoopType ==
    ASSUME TypeOK, NEW r \in Runs, LoopStep(r) \/ Crash(r)
    PROVE  TypeOK'
<1> USE DEF TypeOK, ctlVars, loopVars, robotVars, history, Goto, Leave
<1>1. CASE GateStop(r)
  BY <1>1 DEF GateStop, LoopPcs, Outcomes
<1>2. CASE GatePass(r)
  <2>3. tokens' \in [Runs -> 0..MaxTokens]
    <3>1. CASE tokens' = tokens
      BY <3>1
    <3>2. CASE tokens[r] > 0 /\ tokens' = [tokens EXCEPT ![r] = @ - 1]
      <4>1. tokens[r] \in 0..MaxTokens
        OBVIOUS
      <4>2. tokens[r] - 1 \in 0..MaxTokens
        BY <3>2, <4>1, BoundsAssumption
      <4> QED BY <3>2, <4>2
    <3> QED BY <1>2, <3>1, <3>2 DEF GatePass, Admit
  <2> QED
    BY <1>2, <2>3 DEF GatePass, ShowRunning, LoopPcs, Phases
<1>19. CASE StepBegin(r)
  <2>1. step[r] \in 0..MaxSteps /\ step[r] < MaxSteps
    BY <1>19 DEF StepBegin
  <2>2. step[r] + 1 \in 0..MaxSteps
    BY <2>1, BoundsAssumption
  <2> QED BY <1>19, <2>2 DEF StepBegin, LoopPcs
<1>3. CASE GatePark(r)
  BY <1>3 DEF GatePark, ShowPaused, Phases
<1>4. CASE Budget(r)
  BY <1>4 DEF Budget, LoopPcs, Outcomes
<1>5. CASE MaybeCalibrate(r)
  BY <1>5 DEF MaybeCalibrate, LoopPcs
<1>6. CASE CalibBegin(r)
  BY <1>6 DEF CalibBegin, LoopPcs
<1>7. CASE CalibOver(r)
  BY <1>7 DEF CalibOver, LoopPcs
<1>8. CASE Acquire(r)
  BY <1>8 DEF Acquire, LoopPcs, Holding, Threads
<1>9. CASE Release(r)
  <2>1. CASE lpc[r] = "exec"
    <3>1. CASE cmd[r] = "done"
      <4>1. /\ lpc' = [lpc EXCEPT ![r] = "exit"]
            /\ outcome' = [outcome EXCEPT ![r] = "done"]
            /\ cmd' = [cmd EXCEPT ![r] = "none"]
        BY <1>9, <2>1, <3>1 DEF Release
      <4>2. lpc' \in [Runs -> LoopPcs] /\ outcome' \in [Runs -> Outcomes]
            /\ cmd' \in [Runs -> Commands]
        BY <4>1 DEF LoopPcs, Outcomes, Commands
      <4> QED
        BY <1>9, <4>2 DEF Release
    <3>2. CASE cmd[r] # "done"
      BY <1>9, <2>1, <3>2 DEF Release, LoopPcs, Commands
    <3> QED BY <3>1, <3>2
  <2>2. CASE lpc[r] # "exec"
    BY <1>9, <2>2 DEF Release, LoopPcs
  <2> QED BY <2>1, <2>2
<1>10. CASE DrainTake(r)
  BY <1>10 DEF DrainTake, LoopPcs
<1>11. CASE Obey(r)
  <2>1. batch[r] \in Seq(Queued) /\ batch[r] # <<>>
    BY <1>11 DEF Obey
  <2>2. Tail(batch[r]) \in Seq(Queued)
    BY <2>1
  <2>3. batch' \in [Runs -> Seq(Queued)]
    BY <1>11, <2>2 DEF Obey
  <2>4. pending' \in [Runs -> Nat] /\ keep' \in [Runs -> BOOLEAN]
    <3>1. pending[r] + 1 \in Nat
      OBVIOUS
    <3> QED BY <1>11, <3>1 DEF Obey
  <2>5. lpc' \in [Runs -> LoopPcs]
    BY <1>11 DEF Obey, LoopPcs
  <2> QED
    BY <1>11, <2>3, <2>4, <2>5 DEF Obey
<1>12. CASE DrainDone(r)
  BY <1>12 DEF DrainDone, LoopPcs, Outcomes, Commands
<1>13. CASE Look(r)
  <2>1. pending' \in [Runs -> Nat]
    <3>1. pending[r] > 0 => pending[r] - 1 \in Nat
      <4>1. pending[r] \in Nat
        OBVIOUS
      <4> QED BY <4>1
    <3> QED BY <1>13, <3>1 DEF Look
  <2>2. lpc' \in [Runs -> LoopPcs] /\ cmd' \in [Runs -> Commands]
    BY <1>13 DEF Look, LoopPcs, Commands
  <2> QED
    BY <1>13, <2>1, <2>2 DEF Look
<1>14. CASE Plan(r)
  BY <1>14 DEF Plan, LoopPcs, Commands
<1>15. CASE Vet(r)
  BY <1>15 DEF Vet, LoopPcs, Commands
<1>16. CASE Exit(r)
  BY <1>16 DEF Exit, LoopPcs, Phases
<1>17. CASE BeginWrite(r) \/ LandWrite(r)
  BY <1>17, BusType DEF Threads
<1>18. CASE Crash(r)
  BY <1>18 DEF Crash, Unlocked, LoopPcs, Outcomes
<1> QED
  BY <1>1, <1>2, <1>3, <1>4, <1>5, <1>6, <1>7, <1>8, <1>9, <1>10, <1>11,
     <1>12, <1>13, <1>14, <1>15, <1>16, <1>17, <1>18, <1>19 DEF LoopStep

\* Every HUD action, called or in progress, keeps the types.
LEMMA HudType ==
    ASSUME TypeOK, NEW h \in Hud, HudCall(h) \/ HudStep(h)
    PROVE  TypeOK'
<1> USE DEF TypeOK, ctlVars, loopVars, robotVars, history, Goto, HudGoto, Call
<1>1. CASE Start(h)
  BY <1>1 DEF Start, HudPcs
<1>2. CASE Pause(h)
  BY <1>2 DEF Pause, HudPcs
<1>3. CASE Resume(h)
  BY <1>3 DEF Resume, HudPcs
<1>4. CASE Stop(h)
  BY <1>4 DEF Stop, HudPcs
<1>5. CASE StepOnce(h)
  BY <1>5 DEF StepOnce, HudPcs
<1>6. CASE Request(h)
  BY <1>6 DEF Request, HudPcs
<1>7. CASE TorqueOff(h)
  BY <1>7 DEF TorqueOff, HudPcs
<1>8. CASE CalibStart(h)
  BY <1>8 DEF CalibStart, HudPcs
<1>9. CASE CalibEnd(h)
  BY <1>9 DEF CalibEnd, HudPcs
<1>10. CASE Install(h)
  <2>1. run + 1 \in 0..MaxRuns
    BY <1>10, BoundsAssumption DEF Install
  <2> QED
    BY <1>10, <2>1 DEF Install, NewStopEv, HudPcs, LoopPcs
<1>11. CASE ResumeClear(h)
  BY <1>11 DEF ResumeClear, HudPcs
<1>12. CASE Grant(h)
  <2>1. \A r \in Runs : r = run => tokens[r] + 1 \in 0..MaxTokens
    BY <1>12, BoundsAssumption DEF Grant
  <2>2. tokens' \in [Runs -> 0..MaxTokens]
    BY <1>12, <2>1 DEF Grant
  <2> QED
    BY <1>12, <2>2 DEF Grant, HudPcs
<1>13. CASE OffPause(h)
  BY <1>13 DEF OffPause, HudPcs
<1>14. CASE TryLock(h)
  BY <1>14 DEF TryLock, HudPcs, Threads
<1>15. CASE Timeout(h)
  BY <1>15 DEF Timeout, AfterTimeout, HudPcs, Threads
<1>16. CASE ActDone(h)
  BY <1>16 DEF ActDone, HudPcs
<1>17. CASE PollDone(h)
  BY <1>17 DEF PollDone, HudPcs
<1>18. CASE EnableMotors(h)
  BY <1>18 DEF EnableMotors, HudPcs
<1>19. CASE RaiseFlag(h)
  BY <1>19 DEF RaiseFlag, HudPcs
<1>20. CASE CutMotors(h)
  BY <1>20 DEF CutMotors, HudPcs
<1>21. CASE CalibGo(h)
  BY <1>21 DEF CalibGo, HudPcs
<1>22. CASE BeginWrite(h) \/ LandWrite(h)
  BY <1>22, BusType DEF Threads
<1> QED
  BY <1>1, <1>2, <1>3, <1>4, <1>5, <1>6, <1>7, <1>8, <1>9, <1>10, <1>11,
     <1>12, <1>13, <1>14, <1>15, <1>16, <1>17, <1>18, <1>19, <1>20, <1>21,
     <1>22 DEF HudCall, HudStep

\* What the chat worker queues is a directive.
LEMMA SaidType ==
    ASSUME TypeOK
    PROVE  /\ Going \in 0..MaxRuns
           /\ \A k \in {"stop", "cmd", "action"}, d \in 0..MaxRuns :
                  Append(directives, [kind |-> k, run |-> d]) \in Seq(Queued)
<1>1. Going \in 0..MaxRuns
  BY BoundsAssumption DEF Going, TypeOK
<1>2. \A k \in {"stop", "cmd", "action"}, d \in 0..MaxRuns :
          [kind |-> k, run |-> d] \in Queued
  BY DEF Queued
<1> QED
  BY <1>1, <1>2 DEF TypeOK

\* The chat worker and the teleoperation keep the types.
LEMMA ChatType ==
    ASSUME TypeOK,
           (\E k \in Speech : Hear(k)) \/ ChatStep \/ TeleopWrite \/ TeleopRelease
    PROVE  TypeOK'
<1> USE DEF ctlVars, loopVars, robotVars, history
<1>1. ASSUME NEW k \in Speech, Hear(k) PROVE TypeOK'
  <2>1. directives' \in Seq(Queued) /\ said' \in 0..MaxRuns
    <3>1. CASE k \in {"cmd", "action"}
      BY <1>1, <3>1, SaidType DEF Hear, TypeOK
    <3>2. CASE k \in {"stop", "pause"}
      BY <1>1, <3>2, SaidType DEF Hear, TypeOK
    <3> QED BY <1>1, <3>1, <3>2 DEF Hear
  <2>2. cpc' \in {"idle", "pause", "stopPause", "stop", "put"}
    BY <1>1 DEF Hear, TypeOK
  <2> QED
    BY <1>1, <2>1, <2>2 DEF Hear, TypeOK
<1>2. CASE ChatPause
  BY <1>2 DEF ChatPause, AfterPause, TypeOK
<1>3. CASE ChatStop
  BY <1>3 DEF ChatStop, TypeOK
<1>4. CASE ChatPut
  <2>1. directives' \in Seq(Queued)
    <3>1. said \in 0..MaxRuns
      BY DEF TypeOK
    <3> QED BY <1>4, <3>1, SaidType DEF ChatPut
  <2>2. said' \in 0..MaxRuns
    BY <1>4, BoundsAssumption DEF ChatPut
  <2> QED
    BY <1>4, <2>1, <2>2 DEF ChatPut, TypeOK
<1>5. CASE TeleopWrite
  BY <1>5 DEF TeleopWrite, TypeOK, Threads
<1>6. CASE TeleopRelease
  BY <1>6 DEF TeleopRelease, TypeOK
<1> QED
  BY <1>1, <1>2, <1>3, <1>4, <1>5, <1>6 DEF ChatStep

LEMMA NextType == TypeOK /\ [Next]_vars => TypeOK'
<1> SUFFICES ASSUME TypeOK, [Next]_vars PROVE TypeOK'
  OBVIOUS
<1>1. CASE Next
  BY <1>1, LoopType, HudType, ChatType DEF Next
<1>2. CASE UNCHANGED vars
  BY <1>2 DEF TypeOK, vars, ctlVars, loopVars, robotVars, history
<1> QED
  BY <1>1, <1>2

\* Every variable keeps its type in every behaviour.
THEOREM TypeCorrect == Spec => []TypeOK
<1> QED
  BY InitType, NextType, PTL DEF Spec

-----------------------------------------------------------------------------
(* The motor bus.  That only lock owners are on the bus is not inductive by  *)
(* itself: a thread that takes the lock must not have been on the bus, which *)
(* follows from the same fact and from who holds the lock; a thread that     *)
(* moves from the bus call of torque_on to the flag must have left the bus;  *)
(* and a run that starts must not be one that already holds the lock.        *)

RunsInOrder == \A r \in Runs : r > run => lpc[r] = "none"

FlagOffBus == \A h \in Hud : hpc[h] = "onFlag" => h \notin onBus

\* Once a write has landed with the flag off, nobody is between the test of
\* the flag and the write.
LateInv ==
    \/ late = 0
    \/ late = 1 /\ ~torque /\ \A t \in onBus : ~Moving(t)

BusInv ==
    /\ RunsInOrder
    /\ NoLeakedLock
    /\ BusNeedsLock
    /\ FlagOffBus
    /\ LateInv

Owning == {"act", "poll", "on", "onFlag", "cut"}

\* The part of the types that the bus argument uses.
LEMMA BusTypes ==
    ASSUME TypeOK
    PROVE  /\ run \in Nat /\ MaxRuns \in Nat /\ Runs \subseteq Nat
           /\ lpc \in [Runs -> LoopPcs] /\ cmd \in [Runs -> Commands]
           /\ hpc \in [Hud -> HudPcs]
           /\ lock \in Threads \cup {NoThread} /\ onBus \subseteq Threads
           /\ torque \in BOOLEAN /\ late \in Nat
BY BoundsAssumption DEF TypeOK, Runs

\* The three kinds of thread are different, and none is the free lock.
LEMMA Distinct ==
    /\ \A h \in Hud : h \notin Runs /\ h # Teleop /\ h # NoThread /\ h \in Threads
    /\ \A r \in Runs : r \notin Hud /\ r # Teleop /\ r # NoThread /\ r \in Threads
    /\ Teleop # NoThread /\ Teleop \notin Hud /\ Teleop \notin Runs
    /\ Teleop \in Threads /\ NoThread \notin Threads
BY ThreadsAssumption DEF Threads

LEMMA InitBus == Init => BusInv
BY Distinct DEF Init, BusInv, RunsInOrder, NoLeakedLock, BusNeedsLock,
   FlagOffBus, LateInv, Holding

\* A step that touches nothing of the bus argument.
LEMMA BusUntouched ==
    ASSUME BusInv, UNCHANGED <<run, lpc, cmd, hpc, lock, onBus, torque, late>>
    PROVE  BusInv'
BY DEF BusInv, RunsInOrder, NoLeakedLock, BusNeedsLock, FlagOffBus, LateInv,
       Moving, Jumping

\* A step of a Loop between two places where it does not hold the lock.
LEMMA BusLoopControl ==
    ASSUME TypeOK, BusInv, NEW r \in Runs, NEW pc \in LoopPcs,
           lpc[r] \notin Holding, lpc[r] # "none",
           pc \notin Holding, lpc' = [lpc EXCEPT ![r] = pc],
           \A q \in Runs : q # r => cmd'[q] = cmd[q],
           UNCHANGED <<run, hpc, lock, onBus, torque, late>>
    PROVE  BusInv'
<1>1. RunsInOrder'
  BY BusTypes DEF BusInv, RunsInOrder
<1>2. NoLeakedLock'
  BY BusTypes DEF BusInv, NoLeakedLock
<1>3. BusNeedsLock' /\ FlagOffBus'
  BY DEF BusInv, BusNeedsLock, FlagOffBus, Jumping
<1>4. LateInv'
  BY BusTypes, Distinct DEF BusInv, LateInv, Moving
<1> QED
  BY <1>1, <1>2, <1>3, <1>4 DEF BusInv

\* A step of a HUD action between two places where it is not on the bus.
LEMMA BusHudControl ==
    ASSUME TypeOK, BusInv, NEW h \in Hud, NEW pc \in HudPcs,
           hpc[h] \notin Owning, hpc[h] # "jump",
           pc \notin Owning, pc # "jump", hpc' = [hpc EXCEPT ![h] = pc],
           UNCHANGED <<run, lpc, cmd, lock, onBus, torque, late>>
    PROVE  BusInv'
<1>1. RunsInOrder'
  BY DEF BusInv, RunsInOrder
<1>2. NoLeakedLock'
  BY BusTypes DEF BusInv, NoLeakedLock, Owning
<1>3. BusNeedsLock'
  BY BusTypes DEF BusInv, BusNeedsLock, Jumping
<1>4. FlagOffBus'
  BY BusTypes DEF BusInv, FlagOffBus, Owning
<1>5. LateInv'
  BY BusTypes, Distinct DEF BusInv, LateInv, Moving, Owning
<1> QED
  BY <1>1, <1>2, <1>3, <1>4, <1>5 DEF BusInv

\* The two halves of a write, by whichever thread is moving the arm.
LEMMA BusWrite ==
    ASSUME TypeOK, BusInv, NEW t \in Threads, BeginWrite(t) \/ LandWrite(t)
    PROVE  BusInv'
<1> USE DEF ctlVars, loopVars
<1>1. lock = t
  BY DEF BeginWrite, LandWrite, Moving
<1>2. CASE BeginWrite(t)
  <2>1. RunsInOrder' /\ NoLeakedLock'
    BY <1>2 DEF BeginWrite, BusInv, RunsInOrder, NoLeakedLock
  <2>2. BusNeedsLock'
    BY <1>1, <1>2 DEF BeginWrite, BusInv, BusNeedsLock, Jumping
  <2>3. FlagOffBus'
    BY <1>1, <1>2, Distinct
       DEF BeginWrite, Moving, BusInv, FlagOffBus
  <2>4. LateInv'
    BY <1>2 DEF BeginWrite, BusInv, LateInv
  <2> QED
    BY <2>1, <2>2, <2>3, <2>4 DEF BusInv
<1>3. CASE LandWrite(t)
  <2>1. RunsInOrder' /\ NoLeakedLock'
    BY <1>3 DEF LandWrite, BusInv, RunsInOrder, NoLeakedLock
  <2>2. BusNeedsLock' /\ FlagOffBus'
    BY <1>1, <1>3 DEF LandWrite, BusInv, BusNeedsLock, FlagOffBus, Jumping
  <2>3. late = 0
    BY <1>3 DEF LandWrite, BusInv, LateInv
  <2>4. \A u \in onBus' : ~Moving(u)'
    BY <1>1, <1>3 DEF LandWrite, Moving
  <2>5. LateInv'
    BY <1>3, <2>3, <2>4, BusTypes DEF LandWrite, LateInv
  <2> QED
    BY <2>1, <2>2, <2>5 DEF BusInv
<1> QED
  BY <1>2, <1>3

\* Taking and leaving the lock in the Loop thread.
LEMMA BusLoopLock ==
    ASSUME TypeOK, BusInv, NEW r \in Runs, Acquire(r) \/ Release(r) \/ Crash(r)
    PROVE  BusInv'
<1> USE DEF ctlVars, loopVars, robotVars, Goto, Leave
<1>a. /\ UNCHANGED <<run, hpc, onBus, torque, late>>
      /\ \A q \in Runs : q # r => lpc'[q] = lpc[q] /\ cmd'[q] = cmd[q]
  BY BusTypes DEF Acquire, Release, Crash
<1>b. lpc[r] # "none" /\ lpc' \in [Runs -> LoopPcs]
  BY NextType DEF Acquire, Release, Crash, Holding, Next, LoopStep, TypeOK
<1>1. RunsInOrder'
  BY <1>a, <1>b DEF BusInv, RunsInOrder
<1>2. r \notin onBus
  BY Distinct DEF Acquire, Release, Crash, BusInv, BusNeedsLock, Jumping
<1>3. FlagOffBus'
  BY <1>a DEF BusInv, FlagOffBus
<1>4. CASE Acquire(r)
  <2>1. lock = NoThread /\ lock' = r /\ lpc'[r] \in Holding
    BY <1>4, BusTypes DEF Acquire, Holding
  <2>2. NoLeakedLock'
    BY <1>a, <2>1, Distinct DEF BusInv, NoLeakedLock
  <2>3. onBus \ Jumping = {}
    BY <2>1, BusTypes, Distinct DEF BusInv, BusNeedsLock
  <2>4. BusNeedsLock'
    BY <1>a, <2>3 DEF BusNeedsLock, Jumping
  <2>5. \A t \in onBus' : ~Moving(t)'
    BY <1>a, <1>2, <2>1, Distinct DEF Moving
  <2>6. LateInv'
    BY <1>a, <2>5 DEF BusInv, LateInv
  <2> QED
    BY <1>1, <1>3, <2>2, <2>4, <2>6 DEF BusInv
<1>5. CASE Release(r) \/ Crash(r)
  <2>1. lpc'[r] \notin Holding /\ lock' = (IF lock = r THEN NoThread ELSE lock)
    BY <1>5, BusTypes DEF Release, Crash, Unlocked, Holding
  <2>2. NoLeakedLock'
    BY <1>a, <2>1, Distinct DEF BusInv, NoLeakedLock
  <2>3. BusNeedsLock'
    BY <1>a, <1>2, <2>1 DEF BusInv, BusNeedsLock, Jumping
  <2>4. \A t \in onBus' : Moving(t)' => Moving(t)
    BY <1>a, <1>2, <2>1, Distinct, BusTypes DEF Moving
  <2>5. LateInv'
    BY <1>a, <2>4 DEF BusInv, LateInv
  <2> QED
    BY <1>1, <1>3, <2>2, <2>3, <2>5 DEF BusInv
<1> QED
  BY <1>4, <1>5

\* Every step of the Loop thread keeps the bus invariant.
LEMMA BusLoop ==
    ASSUME TypeOK, BusInv, NEW r \in Runs, LoopStep(r) \/ Crash(r)
    PROVE  BusInv'
<1> USE BusTypes DEF ctlVars, loopVars, robotVars, Goto, Leave, LoopPcs, Holding
<1>1. CASE GateStop(r) \/ Budget(r)
  BY <1>1, BusLoopControl DEF GateStop, Budget
<1>2. CASE GatePass(r) \/ StepBegin(r)
  BY <1>2, BusLoopControl DEF GatePass, StepBegin
<1>3. CASE GatePark(r)
  BY <1>3, BusUntouched DEF GatePark
<1>4. CASE MaybeCalibrate(r)
  <2>1. CASE calReq[r]
    BY <1>4, <2>1, BusLoopControl DEF MaybeCalibrate
  <2>2. CASE ~calReq[r]
    BY <1>4, <2>2, BusLoopControl DEF MaybeCalibrate
  <2> QED BY <2>1, <2>2
<1>5. CASE CalibBegin(r) \/ CalibOver(r)
  BY <1>5, BusLoopControl DEF CalibBegin, CalibOver
<1>6. CASE Acquire(r) \/ Release(r) \/ Crash(r)
  BY <1>6, BusLoopLock
<1>7. CASE DrainTake(r)
  BY <1>7, BusLoopControl DEF DrainTake
<1>8. CASE Obey(r)
  <2>1. CASE lpc' = lpc
    BY <1>8, <2>1, BusUntouched DEF Obey
  <2>2. CASE lpc' = [lpc EXCEPT ![r] = "bareWait"]
    BY <1>8, <2>2, BusLoopControl DEF Obey
  <2> QED BY <1>8, <2>1, <2>2 DEF Obey
<1>9. CASE DrainDone(r)
  <2>1. \E pc \in {"look", "exit", "gate", "vet"} : lpc' = [lpc EXCEPT ![r] = pc]
    BY <1>9 DEF DrainDone
  <2>2. \A q \in Runs : q # r => cmd'[q] = cmd[q]
    BY <1>9 DEF DrainDone
  <2> QED
    BY <1>9, <2>1, <2>2, BusLoopControl DEF DrainDone
<1>10. CASE Look(r)
  <2>1. \E pc \in {"gate", "vet", "plan"} : lpc' = [lpc EXCEPT ![r] = pc]
    BY <1>10 DEF Look
  <2>2. \A q \in Runs : q # r => cmd'[q] = cmd[q]
    BY <1>10 DEF Look
  <2> QED
    BY <1>10, <2>1, <2>2, BusLoopControl DEF Look
<1>11. CASE Plan(r)
  <2>1. \E pc \in {"gate", "drain"} : lpc' = [lpc EXCEPT ![r] = pc]
    BY <1>11 DEF Plan
  <2>2. \A q \in Runs : q # r => cmd'[q] = cmd[q]
    BY <1>11 DEF Plan
  <2> QED
    BY <1>11, <2>1, <2>2, BusLoopControl DEF Plan
<1>12. CASE Vet(r)
  <2>1. \E pc \in {"gate", "execWait"} : lpc' = [lpc EXCEPT ![r] = pc]
    BY <1>12 DEF Vet
  <2>2. \A q \in Runs : q # r => cmd'[q] = cmd[q]
    BY <1>12 DEF Vet
  <2> QED
    BY <1>12, <2>1, <2>2, BusLoopControl DEF Vet
<1>13. CASE Exit(r)
  BY <1>13, BusLoopControl DEF Exit
<1>14. CASE BeginWrite(r) \/ LandWrite(r)
  BY <1>14, BusWrite, Distinct
<1> QED
  BY <1>1, <1>2, <1>3, <1>4, <1>5, <1>6, <1>7, <1>8, <1>9, <1>10, <1>11,
     <1>12, <1>13, <1>14 DEF LoopStep

\* A HUD action between two places where it does not own the bus.
LEMMA BusHudQuiet ==
    ASSUME TypeOK, BusInv, NEW h \in Hud,
           \/ HudCall(h) \/ ResumeClear(h) \/ Grant(h) \/ OffPause(h) \/ CalibGo(h)
           \/ Timeout(h) /\ hpc[h] # "offWait"
    PROVE  BusInv'
<1> USE BusTypes DEF ctlVars, loopVars, robotVars, HudGoto, Call, HudPcs, Owning
<1>1. CASE Start(h) \/ Pause(h) \/ Resume(h) \/ Stop(h)
  BY <1>1, BusHudControl DEF Start, Pause, Resume, Stop
<1>2. CASE StepOnce(h)
  BY <1>2, BusHudControl DEF StepOnce
<1>3. CASE Request(h)
  BY <1>3, BusHudControl DEF Request
<1>4. CASE TorqueOff(h)
  <2>1. /\ UNCHANGED <<run, lpc, cmd, lock, onBus, late>> /\ torque' = FALSE
        /\ hpc[h] = "idle" /\ hpc' = [hpc EXCEPT ![h] = "offPause"]
    BY <1>4 DEF TorqueOff
  <2>2. RunsInOrder' /\ NoLeakedLock' /\ BusNeedsLock' /\ FlagOffBus'
    BY <2>1 DEF BusInv, RunsInOrder, NoLeakedLock, BusNeedsLock, FlagOffBus,
                Jumping
  <2>3. LateInv'
    BY <2>1, Distinct DEF BusInv, LateInv, Moving
  <2> QED
    BY <2>2, <2>3 DEF BusInv
<1>5. CASE CalibStart(h)
  <2>1. CASE hpc' = [hpc EXCEPT ![h] = "idle"]
    BY <1>5, <2>1, BusHudControl DEF CalibStart
  <2>2. CASE hpc' = [hpc EXCEPT ![h] = "calGo"]
    BY <1>5, <2>2, BusHudControl DEF CalibStart
  <2> QED BY <1>5, <2>1, <2>2 DEF CalibStart
<1>6. CASE CalibEnd(h) \/ CalibGo(h)
  BY <1>6, BusHudControl DEF CalibEnd, CalibGo
<1>7. CASE ResumeClear(h) \/ Grant(h) \/ OffPause(h)
  BY <1>7, BusHudControl DEF ResumeClear, Grant, OffPause
<1>8. CASE Timeout(h) /\ hpc[h] # "offWait"
  BY <1>8, BusHudControl DEF Timeout, TimesOut, AfterTimeout
<1> QED
  BY <1>1, <1>2, <1>3, <1>4, <1>5, <1>6, <1>7, <1>8 DEF HudCall

\* Start creates a run whose Loop does not hold the lock yet.
LEMMA BusInstall ==
    ASSUME TypeOK, BusInv, NEW h \in Hud, Install(h)
    PROVE  BusInv'
<1> USE DEF ctlVars, robotVars, Goto, HudGoto
<1>1. run + 1 \in Runs /\ lpc[run + 1] = "none"
  BY BusTypes DEF Install, Runs, BusInv, RunsInOrder
<1>2. /\ UNCHANGED <<cmd, lock, onBus, torque, late>> /\ run' = run + 1
      /\ lpc' = [lpc EXCEPT ![run + 1] = "gate"]
      /\ hpc[h] \in {"start", "startPaused"}
      /\ \E pc \in {"grant", "idle"} : hpc' = [hpc EXCEPT ![h] = pc]
  BY DEF Install, loopVars
<1>3. RunsInOrder'
  BY <1>1, <1>2, BusTypes DEF BusInv, RunsInOrder
<1>4. NoLeakedLock'
  BY <1>1, <1>2, BusTypes DEF BusInv, NoLeakedLock, Holding
<1>5. BusNeedsLock' /\ FlagOffBus'
  BY <1>2, BusTypes DEF BusInv, BusNeedsLock, FlagOffBus, Jumping
<1>6. LateInv'
  BY <1>1, <1>2, BusTypes, Distinct DEF BusInv, LateInv, Moving, Holding
<1> QED
  BY <1>3, <1>4, <1>5, <1>6 DEF BusInv

\* A HUD action takes the free lock, and with it the bus.
LEMMA BusTryLock ==
    ASSUME TypeOK, BusInv, NEW h \in Hud, TryLock(h)
    PROVE  BusInv'
<1> USE DEF ctlVars, loopVars, HudGoto
<1>1. /\ UNCHANGED <<run, lpc, cmd, torque, late>>
      /\ lock = NoThread /\ lock' = h
      /\ onBus \subseteq onBus' /\ onBus' \subseteq onBus \cup {h}
      /\ hpc[h] \in {"actWait", "pollWait", "onWait", "offWait"}
      /\ \E pc \in {"act", "poll", "on", "cut"} :
            /\ hpc' = [hpc EXCEPT ![h] = pc]
            /\ pc = "act" => onBus' = onBus
  BY DEF TryLock
<1>2. onBus \ Jumping = {}
  BY <1>1, BusTypes, Distinct DEF BusInv, BusNeedsLock
<1>3. h \notin onBus
  BY <1>1, <1>2 DEF Jumping
<1>4. RunsInOrder'
  BY <1>1 DEF BusInv, RunsInOrder
<1>5. NoLeakedLock'
  BY <1>1, BusTypes, Distinct DEF BusInv, NoLeakedLock
<1>6. Jumping' = Jumping
  BY <1>1, BusTypes DEF Jumping
<1>7. BusNeedsLock'
  BY <1>1, <1>2, <1>6 DEF BusNeedsLock
<1>8. FlagOffBus'
  BY <1>1, BusTypes DEF BusInv, FlagOffBus
<1>9. \A t \in onBus' : ~Moving(t)'
  BY <1>1, <1>3, BusTypes, Distinct DEF Moving
<1>10. LateInv'
  BY <1>1, <1>9 DEF BusInv, LateInv
<1> QED
  BY <1>4, <1>5, <1>7, <1>8, <1>10 DEF BusInv

\* An E-STOP that has waited long enough goes to the bus without the lock.
LEMMA BusJump ==
    ASSUME TypeOK, BusInv, NEW h \in Hud, Timeout(h), hpc[h] = "offWait"
    PROVE  BusInv'
<1>1. /\ UNCHANGED <<run, lpc, cmd, torque, late, lock>>
      /\ onBus' = onBus \cup {h} /\ hpc' = [hpc EXCEPT ![h] = "jump"]
  BY DEF Timeout, AfterTimeout, HudGoto, ctlVars, loopVars
<1>2. RunsInOrder' /\ NoLeakedLock'
  BY <1>1, BusTypes DEF BusInv, RunsInOrder, NoLeakedLock
<1>3. Jumping' = Jumping \cup {h}
  BY <1>1, BusTypes DEF Jumping
<1>4. BusNeedsLock'
  BY <1>1, <1>3 DEF BusInv, BusNeedsLock
<1>5. FlagOffBus'
  BY <1>1, BusTypes DEF BusInv, FlagOffBus
<1>6. LateInv'
  BY <1>1, BusTypes, Distinct DEF BusInv, LateInv, Moving
<1> QED
  BY <1>2, <1>4, <1>5, <1>6 DEF BusInv

\* The transactions of the HUD actions end; the owner of the lock gives it back.
LEMMA BusHudDone ==
    ASSUME TypeOK, BusInv, NEW h \in Hud,
           ActDone(h) \/ PollDone(h) \/ EnableMotors(h) \/ RaiseFlag(h) \/ CutMotors(h)
    PROVE  BusInv'
<1> USE DEF ctlVars, loopVars, robotVars, HudGoto
<1>1. /\ UNCHANGED <<run, lpc, cmd>>
      /\ onBus' = onBus \ {h}
      /\ hpc[h] \in Owning \cup {"jump"}
      /\ \E pc \in {"idle", "onFlag"} :
            /\ hpc' = [hpc EXCEPT ![h] = pc]
            /\ lock' = IF pc = "idle" /\ hpc[h] # "jump" THEN NoThread ELSE lock
            /\ pc = "onFlag" => hpc[h] = "on"
      /\ \/ UNCHANGED <<torque, late>>
         \/ late' = 0
  BY DEF ActDone, PollDone, EnableMotors, RaiseFlag, CutMotors, Owning,
         BusInv, FlagOffBus
<1>2. RunsInOrder'
  BY <1>1 DEF BusInv, RunsInOrder
<1>3. hpc[h] # "jump" => lock = h
  BY <1>1 DEF BusInv, NoLeakedLock, Owning
<1>4. hpc[h] = "jump" => lock # h
  BY DEF BusInv, NoLeakedLock
<1>5. NoLeakedLock'
  BY <1>1, <1>3, <1>4, BusTypes, Distinct DEF BusInv, NoLeakedLock, Owning
<1>6. Jumping \subseteq Jumping' \cup {h}
  BY <1>1, BusTypes DEF Jumping
<1>7. BusNeedsLock'
  BY <1>1, <1>3, <1>6 DEF BusInv, BusNeedsLock
<1>8. FlagOffBus'
  BY <1>1, BusTypes DEF BusInv, FlagOffBus
<1>9. \A t \in onBus' : Moving(t)' => Moving(t)
  BY <1>1, <1>3, BusTypes, Distinct DEF Moving
<1>10. LateInv'
  BY <1>1, <1>9 DEF BusInv, LateInv
<1> QED
  BY <1>2, <1>5, <1>7, <1>8, <1>10 DEF BusInv

\* A tick of the teleoperation takes the free lock and gives it back.
LEMMA BusTeleop ==
    ASSUME TypeOK, BusInv, TeleopWrite \/ TeleopRelease
    PROVE  BusInv'
<1> USE DEF ctlVars, loopVars
<1>1. UNCHANGED <<run, lpc, cmd, hpc, torque, late>>
  BY DEF TeleopWrite, TeleopRelease
<1>2. lock \notin Hud \cup Runs /\ lock' \notin Hud \cup Runs
  BY Distinct DEF TeleopWrite, TeleopRelease
<1>3. RunsInOrder' /\ NoLeakedLock'
  BY <1>1, <1>2 DEF BusInv, RunsInOrder, NoLeakedLock
<1>4. BusNeedsLock'
  <2>1. CASE TeleopWrite
    <3>1. onBus \ Jumping = {}
      BY <2>1, BusTypes, Distinct DEF TeleopWrite, BusInv, BusNeedsLock
    <3> QED
      BY <1>1, <2>1, <3>1 DEF TeleopWrite, BusNeedsLock, Jumping
  <2>2. CASE TeleopRelease
    BY <1>1, <2>2 DEF TeleopRelease, BusInv, BusNeedsLock, Jumping
  <2> QED BY <2>1, <2>2
<1>5. FlagOffBus'
  BY <1>1, Distinct DEF TeleopWrite, TeleopRelease, BusInv, FlagOffBus
<1>6. \A t \in onBus' : ~Moving(t)'
  BY <1>1, <1>2 DEF Moving
<1>7. LateInv'
  BY <1>1, <1>6 DEF BusInv, LateInv
<1> QED
  BY <1>3, <1>4, <1>5, <1>7 DEF BusInv

LEMMA NextBus == TypeOK /\ BusInv /\ [Next]_vars => BusInv'
<1> SUFFICES ASSUME TypeOK, BusInv, [Next]_vars PROVE BusInv'
  OBVIOUS
<1>1. ASSUME NEW r \in Runs, LoopStep(r) \/ Crash(r) PROVE BusInv'
  BY <1>1, BusLoop
<1>2. ASSUME NEW h \in Hud, HudCall(h) \/ HudStep(h) PROVE BusInv'
  <2>1. CASE HudCall(h) \/ ResumeClear(h) \/ Grant(h) \/ OffPause(h) \/ CalibGo(h)
    BY <2>1, BusHudQuiet
  <2>2. CASE Timeout(h)
    BY <2>2, BusHudQuiet, BusJump
  <2>3. CASE Install(h) \/ TryLock(h)
    BY <2>3, BusInstall, BusTryLock
  <2>4. CASE ActDone(h) \/ PollDone(h) \/ EnableMotors(h) \/ RaiseFlag(h) \/ CutMotors(h)
    BY <2>4, BusHudDone
  <2>5. CASE BeginWrite(h) \/ LandWrite(h)
    BY <2>5, BusWrite, Distinct
  <2> QED
    BY <1>2, <2>1, <2>2, <2>3, <2>4, <2>5 DEF HudStep
<1>3. ASSUME NEW k \in Speech, Hear(k) PROVE BusInv'
  BY <1>3, BusUntouched DEF Hear, loopVars, robotVars
<1>4. CASE ChatStep
  BY <1>4, BusUntouched DEF ChatStep, ChatPause, ChatStop, ChatPut, loopVars,
                            robotVars
<1>5. CASE TeleopWrite \/ TeleopRelease
  BY <1>5, BusTeleop
<1>6. CASE UNCHANGED vars
  BY <1>6, BusUntouched DEF vars, loopVars, robotVars
<1> QED
  BY <1>1, <1>2, <1>3, <1>4, <1>5, <1>6 DEF Next

LEMMA BusCorrect == Spec => [](TypeOK /\ BusInv)
<1> QED
  BY InitType, InitBus, NextType, NextBus, PTL DEF Spec

\* Nobody is in a bus transaction without the lock, E-STOPs that timed out apart (the
\* threading invariant of main.py), and the lock is held exactly while its owner is
\* inside a locked call, whatever raises (its `with` and `finally`).
THEOREM LockHolds == Spec => []LockDiscipline
<1>1. BusInv => LockDiscipline
  BY DEF BusInv, LockDiscipline
<1> QED
  BY <1>1, BusCorrect, PTL

\* However many loops and HUD actions are in a motion, or about to make one, at most one
\* of their joint writes lands after the E-STOP has cleared the flag (the tests of
\* _goto_joints and _settle).  The teleop's ticks do not look at the flag and do not count.
THEOREM EStopStopsWrites == Spec => []OneLateWrite
<1>1. TypeOK /\ BusInv => OneLateWrite
  BY DEF BusInv, LateInv, OneLateWrite, TypeOK
<1> QED
  BY <1>1, BusCorrect, PTL

-----------------------------------------------------------------------------
(* The Loop's control.                                                     *)

\* No directive is labelled with a run that has not begun; and a stop said during the
\* current run, once it is on its way to the queue, finds the run's stop event set.
Kept(d) == d.run <= run /\ (d.kind = "stop" /\ d.run = run /\ run # 0 => stopEv[run])
StopLabels ==
    /\ said <= run
    /\ cpc = "put" /\ said = run /\ run # 0 => stopEv[run]
    /\ \A i \in DOMAIN directives : Kept(directives[i])
    /\ \A r \in Runs : \A i \in DOMAIN batch[r] : Kept(batch[r][i])

\* What is kept stays kept: nothing clears the event of a run, and a directive for the
\* current run is for an earlier one after a start.
LEMMA KeptOn ==
    ASSUME TypeOK,
           \/ run' = run /\ \A r \in Runs : stopEv[r] => stopEv'[r]
           \/ run' = run + 1
    PROVE  /\ \A d \in Queued : Kept(d) => Kept(d)'
           /\ said <= run => said <= run'
           /\ said <= run /\ (said = run /\ run # 0 => stopEv[run])
                => (said = run' /\ run' # 0 => stopEv'[run'])
<1>1. run \in Nat /\ said \in Nat /\ MaxRuns \in Nat /\ run \in 0..MaxRuns
  BY BoundsAssumption DEF TypeOK
<1>2. run # 0 => run \in Runs
  BY <1>1 DEF Runs
<1>3. \A d \in Queued : d.run \in Nat
  BY <1>1 DEF Queued
<1>4. CASE run' = run + 1
  <2>1. \A n \in Nat : n <= run => n <= run' /\ n # run'
    BY <1>1, <1>4
  <2> QED
    BY <1>1, <1>3, <2>1 DEF Kept
<1>5. CASE run' = run /\ \A r \in Runs : stopEv[r] => stopEv'[r]
  BY <1>2, <1>5 DEF Kept
<1> QED
  BY <1>4, <1>5

\* A step that neither says nor moves a directive.
LEMMA LabelsKept ==
    ASSUME TypeOK, StopLabels,
           \/ run' = run /\ \A r \in Runs : stopEv[r] => stopEv'[r]
           \/ run' = run + 1,
           UNCHANGED <<said, directives, batch>>, cpc' = cpc \/ cpc' # "put"
    PROVE  StopLabels'
<1>1. /\ \A i \in DOMAIN directives : directives[i] \in Queued
      /\ \A r \in Runs : \A i \in DOMAIN batch[r] : batch[r][i] \in Queued
  BY DEF TypeOK
<1>2. said' <= run' /\ (cpc' = "put" /\ said' = run' /\ run' # 0 => stopEv'[run'])
  BY KeptOn DEF StopLabels
<1>3. \A i \in DOMAIN directives' : Kept(directives[i])'
  BY <1>1, KeptOn DEF StopLabels
<1>4. \A r \in Runs : \A i \in DOMAIN batch'[r] : Kept(batch[r][i])'
  BY <1>1, KeptOn DEF StopLabels
<1> QED
  BY <1>2, <1>3, <1>4 DEF StopLabels

\* A directive is said.
LEMMA LabelsSaid ==
    ASSUME TypeOK, StopLabels, NEW d \in Queued, Kept(d),
           directives' = Append(directives, d), said' \in {said, 0},
           cpc' = cpc \/ cpc' # "put", UNCHANGED <<run, stopEv, batch>>
    PROVE  StopLabels'
<1>1. /\ \A e : Kept(e)' = Kept(e)
  BY DEF Kept
<1>2. \A i \in DOMAIN directives' : directives'[i] = d \/ (i \in DOMAIN directives /\ directives'[i] = directives[i])
  BY AppendProperties DEF TypeOK
<1>3. \A i \in DOMAIN directives' : Kept(directives'[i])
  BY <1>2 DEF StopLabels
<1>4. said' <= run' /\ (cpc' = "put" /\ said' = run' /\ run' # 0 => stopEv'[run'])
  BY BoundsAssumption DEF StopLabels, TypeOK
<1> QED
  BY <1>1, <1>3, <1>4 DEF StopLabels

\* A stop of the current run that the second drain drops is in the stop event already:
\* the chat worker queues it last, nothing clears the event, and a start that makes the
\* run another one leaves the directive to the earlier run.
THEOREM DropIsSafe == Spec => []DroppedStopIsSet
<1>1. Init => StopLabels
  BY BoundsAssumption DEF Init, StopLabels
<1>2. TypeOK /\ StopLabels /\ [Next]_vars => StopLabels'
  <2> SUFFICES ASSUME TypeOK, StopLabels, [Next]_vars PROVE StopLabels'
    OBVIOUS
  <2> USE DEF ctlVars, loopVars, robotVars, history, Goto, Leave, HudGoto, Call
  <2>1. ASSUME UNCHANGED <<run, stopEv, said, directives, batch, cpc>> PROVE StopLabels'
    BY <2>1, LabelsKept
  <2>2. ASSUME NEW r \in Runs, LoopStep(r) \/ Crash(r), ~DrainTake(r), ~Obey(r)
        PROVE  StopLabels'
    BY <2>1, <2>2 DEF LoopStep, GateStop, GatePass, StepBegin, GatePark, Budget,
       MaybeCalibrate, CalibBegin, CalibOver, Acquire, Release, DrainDone, Look, Plan,
       Vet, Exit, Crash, BeginWrite, LandWrite
  <2>3. ASSUME NEW r \in Runs, DrainTake(r) PROVE StopLabels'
    <3>1. UNCHANGED <<run, stopEv, said, cpc>> /\ directives' = <<>>
          /\ batch' = [batch EXCEPT ![r] = directives]
      BY <2>3 DEF DrainTake
    <3>2. \A e : Kept(e)' = Kept(e)
      BY <3>1 DEF Kept
    <3>3. \A q \in Runs : \A i \in DOMAIN batch'[q] : Kept(batch'[q][i])
      BY <3>1 DEF StopLabels, TypeOK
    <3> QED
      BY <3>1, <3>2, <3>3 DEF StopLabels
  <2>4. ASSUME NEW r \in Runs, Obey(r) PROVE StopLabels'
    <3>1. UNCHANGED <<run, stopEv, said, cpc, directives>>
          /\ batch' = [batch EXCEPT ![r] = Tail(@)]
      BY <2>4 DEF Obey
    <3>2. \A e : Kept(e)' = Kept(e)
      BY <3>1 DEF Kept
    <3>3. \A i \in DOMAIN Tail(batch[r]) :
             i + 1 \in DOMAIN batch[r] /\ Tail(batch[r])[i] = batch[r][i + 1]
      BY <2>4, HeadTailProperties DEF Obey, TypeOK
    <3>4. \A i \in DOMAIN Tail(batch[r]) : Kept(Tail(batch[r])[i])
      BY <3>3 DEF StopLabels
    <3>5. \A q \in Runs : \A i \in DOMAIN batch'[q] : Kept(batch'[q][i])
      BY <3>1, <3>4 DEF StopLabels, TypeOK
    <3> QED
      BY <3>1, <3>2, <3>5 DEF StopLabels
  <2>5. ASSUME NEW h \in Hud, HudCall(h) \/ HudStep(h) PROVE StopLabels'
    <3>1. CASE Stop(h)
      BY <3>1, LabelsKept DEF Stop, TypeOK
    <3>2. CASE Install(h)
      BY <3>2, LabelsKept DEF Install
    <3>3. CASE HudCall(h) /\ ~Stop(h)
      BY <2>1, <3>3 DEF HudCall, Start, Pause, Resume, StepOnce, Request, TorqueOff,
         CalibStart, CalibEnd
    <3>4. CASE HudStep(h) /\ ~Install(h)
      BY <2>1, <3>4 DEF HudStep, ResumeClear, Grant, OffPause, TryLock, Timeout,
         ActDone, PollDone, EnableMotors, RaiseFlag, CutMotors, CalibGo, BeginWrite,
         LandWrite
    <3> QED
      BY <2>5, <3>1, <3>2, <3>3, <3>4
  <2>6. ASSUME NEW k \in Speech, Hear(k) PROVE StopLabels'
    <3>1. Going \in 0..run
      BY BoundsAssumption DEF Going, TypeOK
    <3>2. CASE k = "pause"
      BY <2>6, <3>2, LabelsKept DEF Hear
    <3>3. CASE k = "stop"
      <4>1. said' <= run' /\ cpc' # "put" /\ UNCHANGED <<run, stopEv, directives, batch>>
        BY <2>6, <3>1, <3>3, BoundsAssumption DEF Hear, TypeOK
      <4> QED
        BY <4>1 DEF StopLabels, Kept
    <3>4. CASE k \in {"cmd", "action"}
      <4>1. [kind |-> k, run |-> Going] \in Queued /\ Kept([kind |-> k, run |-> Going])
        BY <3>1, <3>4, SaidType, BoundsAssumption DEF Kept, Queued, TypeOK
      <4> QED
        BY <2>6, <3>4, <4>1, LabelsSaid DEF Hear
    <3> QED
      BY <2>6, <3>2, <3>3, <3>4 DEF Hear
  <2>7. CASE ChatPause
    <3>1. cpc' = "put" => run = 0
      BY <2>7 DEF ChatPause, AfterPause
    <3> QED
      BY <2>7, <3>1 DEF ChatPause, StopLabels, Kept
  <2>8. CASE ChatStop
    <3>1. run' = run /\ (\A r \in Runs : stopEv[r] => stopEv'[r])
          /\ UNCHANGED <<said, directives, batch>>
      BY <2>8 DEF ChatStop, TypeOK
    <3>2. run # 0 => stopEv'[run]
      BY <2>8, BoundsAssumption DEF ChatStop, TypeOK, Runs
    <3>3. /\ \A i \in DOMAIN directives : directives[i] \in Queued
          /\ \A r \in Runs : \A i \in DOMAIN batch[r] : batch[r][i] \in Queued
      BY DEF TypeOK
    <3>4. \A d \in Queued : Kept(d) => Kept(d)'
      BY <3>1, KeptOn
    <3> QED
      BY <3>1, <3>2, <3>3, <3>4 DEF StopLabels
  <2>9. CASE ChatPut
    <3>1. [kind |-> "stop", run |-> said] \in Queued
      BY DEF Queued, TypeOK
    <3>2. Kept([kind |-> "stop", run |-> said])
      BY <2>9 DEF ChatPut, StopLabels, Kept
    <3> QED
      BY <2>9, <3>1, <3>2, LabelsSaid DEF ChatPut
  <2>10. CASE TeleopWrite \/ TeleopRelease
    BY <2>1, <2>10 DEF TeleopWrite, TeleopRelease
  <2>11. CASE UNCHANGED vars
    BY <2>1, <2>11 DEF vars
  <2> QED
    BY <2>2, <2>3, <2>4, <2>5, <2>6, <2>7, <2>8, <2>9, <2>10, <2>11 DEF Next, ChatStep
<1>3. TypeOK /\ StopLabels => DroppedStopIsSet
  <2> SUFFICES ASSUME TypeOK, StopLabels, NEW r \in Runs, r = run, batch[r] # <<>>,
                      Head(batch[r]) = [kind |-> "stop", run |-> r]
               PROVE  stopEv[r]
    BY DEF DroppedStopIsSet
  <2>1. 1 \in DOMAIN batch[r] /\ Head(batch[r]) = batch[r][1]
    BY HeadTailProperties DEF TypeOK
  <2>2. Kept(batch[r][1]) /\ run # 0
    BY <2>1, BoundsAssumption DEF StopLabels, Runs
  <2> QED
    BY <2>1, <2>2 DEF Kept
<1> QED
  BY TypeCorrect, <1>1, <1>2, <1>3, PTL DEF Spec

\* The phase "paused" is shown only by a run that is at a step boundary or over.
THEOREM PausedIsParked == Spec => []PausedMeansParked
<1>1. Init => PausedMeansParked
  BY DEF Init, PausedMeansParked
<1>2. TypeOK /\ PausedMeansParked /\ [Next]_vars => PausedMeansParked'
  <2> SUFFICES ASSUME TypeOK, PausedMeansParked, [Next]_vars
               PROVE  PausedMeansParked'
    OBVIOUS
  <2> DEFINE Parked == {"gate", "exit", "ended"}
  <2> USE DEF ctlVars, loopVars, Goto, Leave
  <2>a. phase \in [Runs -> Phases] /\ lpc \in [Runs -> LoopPcs]
    BY DEF TypeOK
  <2>1. ASSUME NEW r \in Runs, phase' = phase,
               \/ lpc' = lpc
               \/ \E pc : /\ lpc' = [lpc EXCEPT ![r] = pc]
                          /\ lpc[r] \in Parked => pc \in Parked
        PROVE  PausedMeansParked'
    BY <2>1, <2>a DEF PausedMeansParked
  <2>2. ASSUME NEW r \in Runs, GatePass(r) PROVE PausedMeansParked'
    BY <2>2, <2>a DEF GatePass, ShowRunning, PausedMeansParked
  <2>3. ASSUME NEW r \in Runs, GatePark(r) PROVE PausedMeansParked'
    BY <2>3, <2>a DEF GatePark, ShowPaused, PausedMeansParked
  <2>4. ASSUME NEW r \in Runs, Exit(r) PROVE PausedMeansParked'
    BY <2>4, <2>a DEF Exit, PausedMeansParked
  <2>5. ASSUME NEW r \in Runs, LoopStep(r) \/ Crash(r),
               ~GatePass(r), ~GatePark(r), ~Exit(r)
        PROVE  /\ phase' = phase
               /\ \/ lpc' = lpc
                  \/ \E pc : /\ lpc' = [lpc EXCEPT ![r] = pc]
                             /\ lpc[r] \in Parked => pc \in Parked
    <3>1. CASE GateStop(r) \/ Budget(r)
      BY <3>1 DEF GateStop, Budget
    <3>2. CASE \/ StepBegin(r) \/ MaybeCalibrate(r) \/ CalibBegin(r)
               \/ CalibOver(r) \/ DrainTake(r)
      BY <3>2 DEF StepBegin, MaybeCalibrate, CalibBegin, CalibOver, DrainTake
    <3>3. CASE Acquire(r) \/ Release(r) \/ Crash(r)
      BY <3>3 DEF Acquire, Release, Crash, Holding
    <3>4. CASE Obey(r) \/ DrainDone(r)
      BY <3>4 DEF Obey, DrainDone
    <3>5. CASE Look(r) \/ Plan(r) \/ Vet(r)
      BY <3>5 DEF Look, Plan, Vet
    <3>6. CASE BeginWrite(r) \/ LandWrite(r)
      BY <3>6 DEF BeginWrite, LandWrite
    <3> QED
      BY <2>5, <3>1, <3>2, <3>3, <3>4, <3>5, <3>6 DEF LoopStep
  <2>6. ASSUME NEW h \in Hud, HudCall(h) PROVE phase' = phase /\ lpc' = lpc
    BY <2>6 DEF HudCall, Start, Pause, Resume, Stop, StepOnce, Request,
         TorqueOff, CalibStart, CalibEnd
  <2>7. ASSUME NEW h \in Hud, Install(h) PROVE PausedMeansParked'
    BY <2>7, <2>a DEF Install, PausedMeansParked
  <2>8. ASSUME NEW h \in Hud, HudStep(h), ~Install(h)
        PROVE  phase' = phase /\ lpc' = lpc
    BY <2>8 DEF HudStep, ResumeClear, Grant, OffPause, TryLock, Timeout,
         ActDone, PollDone, EnableMotors, RaiseFlag, CutMotors, CalibGo,
         BeginWrite, LandWrite
  <2>9. ASSUME NEW k \in Speech, Hear(k) PROVE phase' = phase /\ lpc' = lpc
    BY <2>9 DEF Hear
  <2>10. ASSUME ChatStep \/ TeleopWrite \/ TeleopRelease
         PROVE  phase' = phase /\ lpc' = lpc
    BY <2>10 DEF ChatStep, ChatPause, ChatStop, ChatPut, TeleopWrite, TeleopRelease
  <2>11. ASSUME phase' = phase, lpc' = lpc PROVE PausedMeansParked'
    BY <2>11 DEF PausedMeansParked
  <2>12. CASE UNCHANGED vars
    BY <2>11, <2>12 DEF vars
  <2> QED
    BY <2>1, <2>2, <2>3, <2>4, <2>5, <2>6, <2>7, <2>8, <2>9, <2>10, <2>11,
       <2>12 DEF Next
<1> QED
  BY TypeCorrect, <1>1, <1>2, PTL DEF Spec

\* The planner's command never gets past the second drain of its step while a
\* command of the human waits, and nothing queues one behind its back later.
THEOREM HumanGoesFirst == Spec => []HumanFirst
<1> DEFINE Chosen == {"vet", "execWait", "exec"}
<1>1. Init => HumanFirst
  BY DEF Init, HumanFirst
<1>2. TypeOK /\ HumanFirst /\ [Next]_vars => HumanFirst'
  <2> SUFFICES ASSUME TypeOK, HumanFirst, [Next]_vars PROVE HumanFirst'
    OBVIOUS
  <2> USE DEF ctlVars, loopVars, Goto, Leave
  <2>a. /\ lpc \in [Runs -> LoopPcs] /\ cmd \in [Runs -> Commands]
        /\ pending \in [Runs -> Nat]
    BY DEF TypeOK
  <2>1. ASSUME UNCHANGED <<lpc, cmd, pending>> PROVE HumanFirst'
    BY <2>1 DEF HumanFirst
  \* A step of a run that leaves it outside the chosen places.
  <2>2. ASSUME NEW r \in Runs, lpc'[r] \notin Chosen,
               \A q \in Runs : q # r => /\ lpc'[q] = lpc[q] /\ cmd'[q] = cmd[q]
                                        /\ pending'[q] = pending[q]
        PROVE  HumanFirst'
    BY <2>2 DEF HumanFirst
  <2>3. ASSUME NEW r \in Runs, LoopStep(r) \/ Crash(r) PROVE HumanFirst'
    <3>1. CASE \/ GateStop(r) \/ GatePass(r) \/ StepBegin(r) \/ Budget(r)
               \/ MaybeCalibrate(r) \/ CalibBegin(r) \/ CalibOver(r) \/ Exit(r)
               \/ Crash(r)
      BY <3>1, <2>a, <2>2 DEF GateStop, GatePass, StepBegin, Budget, MaybeCalibrate,
         CalibBegin, CalibOver, Exit, Crash
    <3>2. CASE GatePark(r) \/ BeginWrite(r) \/ LandWrite(r)
      BY <3>2, <2>1 DEF GatePark, BeginWrite, LandWrite
    <3>3. CASE Acquire(r)
      BY <3>3, <2>a DEF Acquire, HumanFirst
    <3>4. CASE Release(r)
      BY <3>4, <2>a, <2>2 DEF Release
    <3>5. CASE DrainTake(r) \/ Obey(r)
      BY <3>5, <2>a, <2>2 DEF DrainTake, Obey
    <3>6. CASE DrainDone(r)
      BY <3>6, <2>a DEF DrainDone, Superseded, HumanFirst
    <3>7. CASE Look(r)
      BY <3>7, <2>a DEF Look, HumanFirst
    <3>8. CASE Plan(r)
      BY <3>8, <2>a, <2>2 DEF Plan
    <3>9. CASE Vet(r)
      BY <3>9, <2>a DEF Vet, HumanFirst
    <3> QED
      BY <2>3, <3>1, <3>2, <3>3, <3>4, <3>5, <3>6, <3>7, <3>8, <3>9 DEF LoopStep
  <2>4. ASSUME NEW h \in Hud, HudCall(h) PROVE HumanFirst'
    BY <2>1, <2>4 DEF HudCall, Start, Pause, Resume, Stop, StepOnce, Request,
         TorqueOff, CalibStart, CalibEnd
  <2>5. ASSUME NEW h \in Hud, Install(h) PROVE HumanFirst'
    BY <2>5, <2>a DEF Install, HumanFirst
  <2>6. ASSUME NEW h \in Hud, HudStep(h), ~Install(h) PROVE HumanFirst'
    BY <2>1, <2>6 DEF HudStep, ResumeClear, Grant, OffPause, TryLock, Timeout,
         ActDone, PollDone, EnableMotors, RaiseFlag, CutMotors, CalibGo,
         BeginWrite, LandWrite
  <2>7. ASSUME NEW k \in Speech, Hear(k) PROVE HumanFirst'
    BY <2>1, <2>7 DEF Hear
  <2>8. CASE ChatStep \/ TeleopWrite \/ TeleopRelease
    BY <2>1, <2>8 DEF ChatStep, ChatPause, ChatStop, ChatPut, TeleopWrite,
                      TeleopRelease
  <2>9. CASE UNCHANGED vars
    BY <2>1, <2>9 DEF vars
  <2> QED
    BY <2>3, <2>4, <2>5, <2>6, <2>7, <2>8, <2>9 DEF Next
<1> QED
  BY TypeCorrect, <1>1, <1>2, PTL DEF Spec

-----------------------------------------------------------------------------
(* The flag and the motors.                                                *)

\* An E-STOP has cleared the flag before it goes for the motors, and torque_on has
\* enabled the motors before it raises the flag, unless the two have crossed.
HalfWay ==
    /\ Stopping # {} => ~torque \/ crossed
    /\ \A h \in Hud : hpc[h] = "onFlag" => motors \/ crossed \/ Stopping # {}
    /\ torque => motors \/ crossed \/ Stopping # {}

\* A torque flag that is on tells the truth about the motors, for any number of HUD
\* threads and whichever call on the bus raises: torque_on that fails, an E-STOP that
\* times out, one whose own bus call fails.  What `crossed` records is all that breaks it.
THEOREM FlagIsHonest == Spec => []FlagTellsMotors
<1> DEFINE Halves == {"onFlag", "offPause", "offWait", "cut", "jump"}
<1>1. Init => HalfWay
  BY DEF Init, HalfWay, Stopping
<1>2. TypeOK /\ HalfWay /\ [Next]_vars => HalfWay'
  <2> SUFFICES ASSUME TypeOK, HalfWay, [Next]_vars PROVE HalfWay'
    OBVIOUS
  <2> USE DEF ctlVars, loopVars, robotVars, history, HudGoto, Call
  <2>a. hpc \in [Hud -> HudPcs] /\ crossed \in BOOLEAN
    BY DEF TypeOK
  <2>1. ASSUME UNCHANGED <<hpc, torque, motors, crossed>> PROVE HalfWay'
    BY <2>1 DEF HalfWay, Stopping
  \* A HUD thread goes on, and is before and afterwards between no two halves.
  <2>2. ASSUME NEW h \in Hud, NEW pc \in HudPcs \ Halves, hpc' = [hpc EXCEPT ![h] = pc],
               hpc[h] \notin Halves, UNCHANGED <<torque, motors, crossed>>
        PROVE  HalfWay'
    <3>1. Stopping' = Stopping
      BY <2>2, <2>a DEF Stopping
    <3>2. \A g \in Hud : hpc'[g] = "onFlag" => hpc[g] = "onFlag"
      BY <2>2, <2>a
    <3> QED
      BY <2>2, <3>1, <3>2 DEF HalfWay
  \* An E-STOP goes on towards the motors.
  <2>3. ASSUME NEW h \in Hud, NEW pc \in {"offPause", "offWait", "cut", "jump"},
               hpc' = [hpc EXCEPT ![h] = pc], h \in Stopping,
               UNCHANGED <<torque, motors, crossed>>
        PROVE  HalfWay'
    <3>1. Stopping' = Stopping
      BY <2>3, <2>a DEF Stopping
    <3>2. \A g \in Hud : hpc'[g] = "onFlag" => hpc[g] = "onFlag"
      BY <2>3, <2>a
    <3> QED
      BY <2>3, <3>1, <3>2 DEF HalfWay
  <2>4. ASSUME NEW h \in Hud, HudCall(h) PROVE HalfWay'
    <3>1. CASE TorqueOff(h)
      <4>1. h \in Stopping' /\ ~torque'
        BY <3>1, <2>a DEF TorqueOff, Stopping
      <4> QED
        BY <4>1 DEF HalfWay
    <3>2. CASE Start(h) \/ Pause(h) \/ Resume(h) \/ Stop(h)
      BY <3>2, <2>2 DEF Start, Pause, Resume, Stop, HudPcs
    <3>3. CASE StepOnce(h) \/ Request(h) \/ CalibStart(h) \/ CalibEnd(h)
      BY <3>3, <2>2 DEF StepOnce, Request, CalibStart, CalibEnd, HudPcs
    <3> QED
      BY <2>4, <3>1, <3>2, <3>3 DEF HudCall
  <2>5. ASSUME NEW h \in Hud, HudStep(h) PROVE HalfWay'
    <3>1. CASE Install(h) \/ ResumeClear(h) \/ Grant(h)
      BY <3>1, <2>2 DEF Install, ResumeClear, Grant, HudPcs
    <3>2. CASE ActDone(h) \/ PollDone(h) \/ CalibGo(h)
      BY <3>2, <2>2 DEF ActDone, PollDone, CalibGo, HudPcs
    <3>3. CASE OffPause(h)
      BY <3>3, <2>3 DEF OffPause, Stopping
    <3>4. CASE TryLock(h)
      BY <3>4, <2>2, <2>3 DEF TryLock, HudPcs, Stopping
    <3>5. CASE Timeout(h)
      BY <3>5, <2>2, <2>3 DEF Timeout, TimesOut, AfterTimeout, HudPcs, Stopping
    <3>6. CASE EnableMotors(h)
      <4>1. Stopping' = Stopping
        BY <3>6, <2>a DEF EnableMotors, Stopping
      <4>2. CASE motors' = TRUE
        <5>1. UNCHANGED torque /\ (Stopping # {} => crossed' = crossed)
          BY <3>6, <2>a DEF EnableMotors
        <5> QED
          BY <4>1, <4>2, <5>1 DEF HalfWay
      <4>3. CASE UNCHANGED <<motors, crossed>> /\ hpc' = [hpc EXCEPT ![h] = "idle"]
        <5>1. \A g \in Hud : hpc'[g] = "onFlag" => hpc[g] = "onFlag"
          BY <4>3, <2>a
        <5> QED
          BY <3>6, <4>1, <4>3, <5>1 DEF EnableMotors, HalfWay
      <4> QED
        BY <3>6, <4>2, <4>3 DEF EnableMotors
    <3>7. CASE RaiseFlag(h)
      <4>1. Stopping' = Stopping /\ UNCHANGED motors
        BY <3>7, <2>a DEF RaiseFlag, Stopping
      <4>2. \A g \in Hud : hpc'[g] = "onFlag" => hpc[g] = "onFlag"
        BY <3>7, <2>a DEF RaiseFlag
      <4>3. motors \/ crossed'
        BY <3>7 DEF RaiseFlag, HalfWay
      <4>4. Stopping # {} => crossed'
        BY <3>7 DEF RaiseFlag
      <4> QED
        BY <4>1, <4>2, <4>3, <4>4 DEF HalfWay
    <3>8. CASE CutMotors(h)
      <4>1. h \in Stopping /\ UNCHANGED torque /\ (crossed => crossed')
        BY <3>8 DEF CutMotors, Stopping
      <4>2. \A g \in Hud : hpc'[g] = "onFlag" => hpc[g] = "onFlag"
        BY <3>8, <2>a DEF CutMotors
      <4>3. (\E g \in Hud : hpc[g] = "onFlag") => crossed'
        BY <3>8 DEF CutMotors
      <4>4. ~torque \/ crossed'
        BY <4>1 DEF HalfWay
      <4> QED
        BY <4>1, <4>2, <4>3, <4>4 DEF HalfWay
    <3>9. CASE BeginWrite(h) \/ LandWrite(h)
      BY <3>9, <2>1 DEF BeginWrite, LandWrite
    <3> QED
      BY <2>5, <3>1, <3>2, <3>3, <3>4, <3>5, <3>6, <3>7, <3>8, <3>9 DEF HudStep
  <2>6. ASSUME NEW r \in Runs, LoopStep(r) \/ Crash(r) PROVE HalfWay'
    BY <2>1, <2>6 DEF LoopStep, GateStop, GatePass, StepBegin, GatePark, Budget,
       MaybeCalibrate, CalibBegin, CalibOver, Acquire, Release, DrainTake, Obey,
       DrainDone, Look, Plan, Vet, Exit, Crash, BeginWrite, LandWrite
  <2>7. ASSUME NEW k \in Speech, Hear(k) PROVE HalfWay'
    BY <2>1, <2>7 DEF Hear
  <2>8. CASE ChatStep \/ TeleopWrite \/ TeleopRelease
    BY <2>1, <2>8 DEF ChatStep, ChatPause, ChatStop, ChatPut, TeleopWrite, TeleopRelease
  <2>9. CASE UNCHANGED vars
    BY <2>1, <2>9 DEF vars
  <2> QED
    BY <2>4, <2>5, <2>6, <2>7, <2>8, <2>9 DEF Next
<1>3. HalfWay => FlagTellsMotors
  BY DEF HalfWay, FlagTellsMotors
<1> QED
  BY TypeCorrect, <1>1, <1>2, <1>3, PTL DEF Spec

=============================================================================
