------------------------- MODULE SortSession_refinement -------------------------
(***************************************************************************)
(* SortSession implements MotorBus, for any number of HUD threads, runs,   *)
(* steps, tokens and directives: every step of the threads, the polls, the *)
(* timeouts and the calibration is a step of the abstract bus or no step.  *)
(***************************************************************************)
EXTENDS SortSession_proofs

-----------------------------------------------------------------------------
(* Who holds the bus is inside its locked call, so a thread that is not    *)
(* there changes nothing of the abstract bus as it goes on.                *)

\* Nothing that MotorBus sees changes.
LEMMA SameBus ==
    ASSUME UNCHANGED <<lock, torque>>, Writing' <=> Writing
    PROVE  UNCHANGED Bus!vars
<1>1. Writing' = Writing
  BY Zenon DEF Writing
<1> QED
  BY <1>1 DEF Bus!vars

LEMMA LoopElsewhere ==
    ASSUME TypeOK, BusInv, NEW r \in Runs, lpc[r] \notin Holding,
           UNCHANGED <<hpc, lock, onBus, torque>>,
           \A q \in Runs : q # r => lpc'[q] = lpc[q] /\ cmd'[q] = cmd[q]
    PROVE  UNCHANGED Bus!vars
<1>1. lock # r
  BY DEF BusInv, NoLeakedLock
<1>2. Moving(lock)' <=> Moving(lock)
  BY <1>1 DEF Moving
<1> QED
  BY <1>2, SameBus DEF Writing

LEMMA HudElsewhere ==
    ASSUME TypeOK, BusInv, NEW h \in Hud, hpc[h] \notin Owning,
           UNCHANGED <<lpc, cmd, lock, onBus, torque>>,
           \A g \in Hud : g # h => hpc'[g] = hpc[g]
    PROVE  UNCHANGED Bus!vars
<1>1. lock # h
  BY DEF BusInv, NoLeakedLock, Owning
<1>2. Moving(lock)' <=> Moving(lock)
  BY <1>1 DEF Moving
<1> QED
  BY <1>2, SameBus DEF Writing

-----------------------------------------------------------------------------
(* The steps that the abstract bus sees.                                   *)

\* A tick tests the flag and writes.
LEMMA WriteMaps ==
    ASSUME TypeOK, BusInv, NEW t \in Threads, BeginWrite(t) \/ LandWrite(t)
    PROVE  Bus!Next
<1> USE DEF loopVars
<1>1. /\ lock = t /\ t # NoThread /\ t # Teleop
      /\ lock' = lock /\ Moving(t) /\ Moving(t)'
  BY Distinct DEF BeginWrite, LandWrite, Moving, Threads
<1>2. CASE BeginWrite(t)
  <2>1. ~Writing /\ Writing' = TRUE /\ torque /\ UNCHANGED <<lock, torque>>
    BY <1>1, <1>2 DEF BeginWrite, Writing
  <2> QED
    BY <1>1, <2>1 DEF Bus!Next, Bus!Write
<1>3. CASE LandWrite(t)
  <2>1. Writing /\ Writing' = FALSE
        /\ UNCHANGED <<lock, torque>>
    BY <1>1, <1>3 DEF LandWrite, Writing
  <2> QED
    BY <1>1, <2>1 DEF Bus!Next, Bus!Land
<1> QED
  BY <1>2, <1>3

\* A thread takes the free lock; nobody is writing, it has not begun to.
LEMMA TakeMaps ==
    ASSUME TypeOK, BusInv, lock = NoThread, lock' \in Threads \ {Teleop}, ~Writing',
           UNCHANGED torque
    PROVE  Bus!Next
<1>1. ~Writing
  BY BusTypes, Distinct DEF Writing, Moving
<1>2. Writing' = Writing
  BY <1>1, Zenon DEF Writing
<1> QED
  BY <1>2 DEF Bus!Next, Bus!Take

\* The owner gives the lock back between two writes.
LEMMA GiveMaps ==
    ASSUME TypeOK, BusInv, lock \notin {NoThread, Teleop}, lock' = NoThread, ~Writing,
           onBus' \subseteq Threads,
           UNCHANGED torque
    PROVE  Bus!Next
<1>1. ~Writing'
  BY Distinct DEF Writing
<1>2. Writing' = Writing
  BY <1>1, Zenon DEF Writing
<1> QED
  BY <1>2 DEF Bus!Next, Bus!Give

\* The Loop's thread.
LEMMA LoopMaps ==
    ASSUME TypeOK, BusInv, TypeOK', NEW r \in Runs, LoopStep(r) \/ Crash(r)
    PROVE  Bus!Next \/ UNCHANGED Bus!vars
<1> USE DEF ctlVars, loopVars, robotVars, Goto, Leave
<1>a. onBus' \subseteq Threads
  BY DEF TypeOK
<1>1. CASE \/ GateStop(r) \/ GatePass(r) \/ StepBegin(r) \/ GatePark(r) \/ Budget(r)
           \/ MaybeCalibrate(r) \/ CalibBegin(r) \/ CalibOver(r) \/ DrainTake(r)
           \/ Obey(r) \/ Exit(r)
  <2>1. lpc[r] \notin Holding
    BY <1>1 DEF GateStop, GatePass, StepBegin, GatePark, Budget, MaybeCalibrate,
       CalibBegin, CalibOver, DrainTake, Obey, Exit, Holding
  <2>2. /\ UNCHANGED <<hpc, lock, onBus, torque, cmd>>
        /\ \A q \in Runs : q # r => lpc'[q] = lpc[q]
    BY <1>1, BusTypes DEF GateStop, GatePass, StepBegin, GatePark, Budget,
       MaybeCalibrate, CalibBegin, CalibOver, DrainTake, Obey, Exit
  <2> QED
    BY <2>1, <2>2, LoopElsewhere
<1>2. CASE DrainDone(r) \/ Look(r) \/ Plan(r) \/ Vet(r)
  <2>1. lpc[r] \notin Holding
    BY <1>2 DEF DrainDone, Look, Plan, Vet, Holding
  <2>2. UNCHANGED <<hpc, lock, onBus, torque>>
    BY <1>2 DEF DrainDone, Look, Plan, Vet
  <2>3. \A q \in Runs : q # r => lpc'[q] = lpc[q] /\ cmd'[q] = cmd[q]
    BY <1>2, BusTypes DEF DrainDone, Look, Plan, Vet
  <2> QED
    BY <2>1, <2>2, <2>3, LoopElsewhere
<1>3. CASE Acquire(r)
  <2>1. lock = NoThread /\ lock' = r /\ UNCHANGED <<onBus, torque, hpc>>
    BY <1>3 DEF Acquire
  <2>2. r \notin onBus
    BY <2>1, Distinct DEF BusInv, BusNeedsLock, Jumping
  <2> QED
    BY <2>1, <2>2, TakeMaps, Distinct DEF Writing
<1>4. CASE Release(r) \/ Crash(r)
  <2>1. /\ r \notin onBus /\ UNCHANGED <<onBus, torque, hpc>>
        /\ lock' = (IF lock = r THEN NoThread ELSE lock)
        /\ \A q \in Runs : q # r => lpc'[q] = lpc[q] /\ cmd'[q] = cmd[q]
    BY <1>4, BusTypes DEF Release, Crash, Unlocked
  <2>2. CASE lock = r
    BY <1>a, <2>1, <2>2, GiveMaps, Distinct DEF Writing
  <2>3. CASE lock # r
    <3>1. lpc[r] \notin Holding
      BY <2>3 DEF BusInv, NoLeakedLock
    <3> QED
      BY <2>1, <2>3, <3>1, LoopElsewhere
  <2> QED
    BY <2>2, <2>3
<1>5. CASE BeginWrite(r) \/ LandWrite(r)
  BY <1>5, WriteMaps, Distinct
<1> QED
  BY <1>1, <1>2, <1>3, <1>4, <1>5 DEF LoopStep

\* A request that arrives.
LEMMA HudCallMaps ==
    ASSUME TypeOK, BusInv, NEW h \in Hud, HudCall(h)
    PROVE  Bus!Next \/ UNCHANGED Bus!vars
<1> USE DEF ctlVars, loopVars, robotVars, HudGoto, Call
<1>1. hpc[h] = "idle" /\ hpc[h] \notin Owning /\ UNCHANGED <<lpc, cmd, lock, onBus>>
  BY DEF HudCall, Start, Pause, Resume, Stop, StepOnce, Request, TorqueOff,
     CalibStart, CalibEnd, Owning
<1>2. \A g \in Hud : g # h => hpc'[g] = hpc[g]
  BY BusTypes DEF HudCall, Start, Pause, Resume, Stop, StepOnce, Request, TorqueOff,
     CalibStart, CalibEnd
<1>3. CASE TorqueOff(h)
  <2>1. torque' = FALSE
    BY <1>3 DEF TorqueOff
  <2>2. lock # h
    BY <1>1 DEF BusInv, NoLeakedLock
  <2>3. Writing' <=> Writing
    BY <1>1, <1>2, <2>2 DEF Writing, Moving
  <2>4. CASE torque
    <3>1. Writing' = Writing
      BY <2>3, Zenon DEF Writing
    <3> QED
      BY <1>1, <2>1, <2>4, <3>1 DEF Bus!Next, Bus!Disarm
  <2>5. CASE ~torque
    <3>1. torque' = torque
      BY <2>1, <2>5, BusTypes
    <3> QED
      BY <1>1, <2>3, <3>1, SameBus
  <2> QED
    BY <2>4, <2>5
<1>4. CASE ~TorqueOff(h)
  <2>1. torque' = torque
    BY <1>4 DEF HudCall, Start, Pause, Resume, Stop, StepOnce, Request,
       CalibStart, CalibEnd
  <2> QED
    BY <1>1, <1>2, <2>1, HudElsewhere
<1> QED
  BY <1>3, <1>4

\* An action that goes on.
LEMMA HudStepMaps ==
    ASSUME TypeOK, BusInv, TypeOK', NEW h \in Hud, HudStep(h)
    PROVE  Bus!Next \/ UNCHANGED Bus!vars
<1> USE DEF ctlVars, loopVars, robotVars, HudGoto
<1>a. onBus' \subseteq Threads
  BY DEF TypeOK
<1>1. CASE ResumeClear(h) \/ Grant(h) \/ OffPause(h) \/ CalibGo(h)
  <2>1. hpc[h] \notin Owning /\ UNCHANGED <<lpc, cmd, lock, onBus, torque>>
    BY <1>1 DEF ResumeClear, Grant, OffPause, CalibGo, Owning
  <2>2. \A g \in Hud : g # h => hpc'[g] = hpc[g]
    BY <1>1, BusTypes DEF ResumeClear, Grant, OffPause, CalibGo
  <2> QED
    BY <2>1, <2>2, HudElsewhere
<1>2. CASE Install(h)
  <2>1. /\ run + 1 \in Runs /\ lpc[run + 1] = "none"
        /\ hpc[h] \in {"start", "startPaused"}
        /\ UNCHANGED <<cmd, lock, onBus, torque>>
    BY <1>2, BusTypes DEF Install, Runs, BusInv, RunsInOrder
  <2>2. /\ \A q \in Runs : q # run + 1 => lpc'[q] = lpc[q]
        /\ \A g \in Hud : g # h => hpc'[g] = hpc[g]
    BY <1>2, BusTypes DEF Install, Goto
  <2>3. lock # h /\ lock # run + 1
    BY <2>1 DEF BusInv, NoLeakedLock, Holding
  <2>4. Moving(lock)' <=> Moving(lock)
    BY <2>1, <2>2, <2>3 DEF Moving
  <2> QED
    BY <2>1, <2>4, SameBus DEF Writing
<1>3. CASE TryLock(h)
  <2>1. lock = NoThread /\ lock' = h /\ UNCHANGED torque
        /\ hpc[h] \in {"actWait", "pollWait", "onWait", "offWait"}
    BY <1>3 DEF TryLock
  <2>2. h \notin onBus
    BY <2>1, Distinct DEF BusInv, BusNeedsLock, Jumping
  <2>3. h \in onBus' => hpc'[h] # "act"
    BY <1>3, <2>2, BusTypes DEF TryLock
  <2>4. ~Writing'
    BY <2>1, <2>3, Distinct DEF Writing, Moving
  <2> QED
    BY <2>1, <2>4, TakeMaps, Distinct
<1>4. CASE Timeout(h)
  <2>1. /\ hpc[h] \notin Owning /\ UNCHANGED <<lpc, cmd, lock, torque>>
        /\ onBus' = onBus \/ onBus' = onBus \cup {h}
    BY <1>4 DEF Timeout, TimesOut, Owning
  <2>2. \A g \in Hud : g # h => hpc'[g] = hpc[g]
    BY <1>4, BusTypes DEF Timeout
  <2>3. lock # h
    BY <2>1 DEF BusInv, NoLeakedLock, Owning
  <2>4. Writing' <=> Writing
    BY <2>1, <2>2, <2>3 DEF Writing, Moving
  <2> QED
    BY <2>1, <2>4, SameBus
<1>5. CASE ActDone(h) \/ PollDone(h)
  <2>1. /\ lock = h /\ lock' = NoThread /\ UNCHANGED torque
        /\ h \notin onBus \/ hpc[h] # "act"
    BY <1>5 DEF ActDone, PollDone, BusInv, NoLeakedLock
  <2>2. ~Writing
    BY <2>1, Distinct DEF Writing, Moving
  <2> QED
    BY <1>a, <2>1, <2>2, GiveMaps, Distinct
<1>6. CASE EnableMotors(h)
  <2>1. lock = h /\ ~Writing /\ UNCHANGED torque
    BY <1>6, Distinct DEF EnableMotors, BusInv, NoLeakedLock, Writing, Moving
  <2>2. CASE lock' = NoThread
    BY <1>a, <2>1, <2>2, GiveMaps, Distinct
  <2>3. CASE lock' = lock
    <3>1. onBus' = onBus \ {h}
      BY <1>6 DEF EnableMotors
    <3> QED
      BY <2>1, <2>3, <3>1, SameBus DEF Writing
  <2> QED
    BY <1>6, <2>2, <2>3 DEF EnableMotors
<1>7. CASE RaiseFlag(h)
  <2>1. lock = h /\ ~Writing /\ lock' = NoThread /\ torque' = TRUE
    BY <1>7, Distinct DEF RaiseFlag, BusInv, NoLeakedLock, Writing, Moving
  <2>2. ~Writing'
    BY <1>a, <2>1, Distinct DEF Writing
  <2>3. Writing' = Writing
    BY <2>1, <2>2, Zenon DEF Writing
  <2> QED
    BY <2>1, <2>3, Distinct DEF Bus!Next, Bus!Arm
<1>8. CASE CutMotors(h)
  <2>1. UNCHANGED <<lpc, cmd, torque>> /\ onBus' = onBus \ {h}
    BY <1>8 DEF CutMotors
  <2>2. CASE hpc[h] = "cut"
    <3>1. lock = h /\ lock' = NoThread
      BY <1>8, <2>2 DEF CutMotors, BusInv, NoLeakedLock
    <3>2. ~Writing
      BY <2>2, <3>1, Distinct DEF Writing, Moving
    <3> QED
      BY <1>a, <2>1, <3>1, <3>2, GiveMaps, Distinct
  <2>3. CASE hpc[h] # "cut"
    <3>1. hpc[h] = "jump" /\ lock' = lock /\ lock # h
      BY <1>8, <2>3 DEF CutMotors, BusInv, NoLeakedLock
    <3>2. \A g \in Hud : g # h => hpc'[g] = hpc[g]
      BY <1>8, BusTypes DEF CutMotors
    <3>3. Writing' <=> Writing
      BY <2>1, <3>1, <3>2 DEF Writing, Moving
    <3> QED
      BY <2>1, <3>1, <3>3, SameBus
  <2> QED
    BY <2>2, <2>3
<1>9. CASE BeginWrite(h) \/ LandWrite(h)
  BY <1>9, WriteMaps, Distinct
<1> QED
  BY <1>1, <1>2, <1>3, <1>4, <1>5, <1>6, <1>7, <1>8, <1>9 DEF HudStep

\* The teleoperation's tick is the leader's: it takes the bus and writes, whatever the
\* flag says, and gives it back.
LEMMA TeleopMaps ==
    ASSUME TypeOK, BusInv, TypeOK', TeleopWrite \/ TeleopRelease
    PROVE  Bus!Next
<1> USE DEF loopVars
<1>1. CASE TeleopWrite
  <2>1. lock = NoThread /\ lock' = Teleop /\ UNCHANGED torque /\ Teleop \in onBus'
    BY <1>1, Distinct DEF TeleopWrite, TypeOK
  <2>2. Writing'
    BY <2>1 DEF Writing
  <2>3. Writing' = TRUE
    BY <2>2, Zenon DEF Writing
  <2> QED
    BY <2>1, <2>3 DEF Bus!Next, Bus!Follow
<1>2. CASE TeleopRelease
  <2>1. lock = Teleop /\ lock' = NoThread /\ UNCHANGED torque /\ onBus' \subseteq Threads
    BY <1>2 DEF TeleopRelease, TypeOK
  <2>2. ~Writing'
    BY <2>1, Distinct DEF Writing
  <2>3. Writing' = FALSE
    BY <2>2, Zenon DEF Writing
  <2> QED
    BY <2>1, <2>3 DEF Bus!Next, Bus!Followed
<1> QED
  BY <1>1, <1>2

-----------------------------------------------------------------------------
\* Whatever the threads, timeouts and polls do, the lock and the flag keep the
\* promise of the abstract bus: one holder; a motion's writes begin only with the flag
\* on, and the teleop's, which do not look at it, only while nobody else holds the bus;
\* the flag goes off at any time and on again never inside somebody's motion.
THEOREM SessionImplementsBus == Spec => BusPromise
<1>1. Init => Bus!Init
  <2> SUFFICES ASSUME Init PROVE Bus!Init
    OBVIOUS
  <2>1. ~Writing
    BY DEF Init, Writing
  <2>2. Writing = FALSE
    BY <2>1, Zenon DEF Writing
  <2> QED
    BY <2>2 DEF Init, Bus!Init
<1>2. TypeOK /\ TypeOK' /\ BusInv /\ [Next]_vars => [Bus!Next]_(Bus!vars)
  <2> SUFFICES ASSUME TypeOK, TypeOK', BusInv, [Next]_vars
               PROVE  Bus!Next \/ UNCHANGED Bus!vars
    OBVIOUS
  <2> USE DEF ctlVars, loopVars, robotVars
  <2>1. ASSUME NEW r \in Runs, LoopStep(r) \/ Crash(r)
        PROVE  Bus!Next \/ UNCHANGED Bus!vars
    BY <2>1, LoopMaps
  <2>2. ASSUME NEW h \in Hud, HudCall(h) \/ HudStep(h)
        PROVE  Bus!Next \/ UNCHANGED Bus!vars
    BY <2>2, HudCallMaps, HudStepMaps
  <2>3. ASSUME UNCHANGED <<lpc, cmd, hpc, lock, onBus, torque>>
        PROVE  UNCHANGED Bus!vars
    BY <2>3, SameBus DEF Writing, Moving
  <2>4. ASSUME NEW k \in Speech, Hear(k) PROVE UNCHANGED Bus!vars
    BY <2>3, <2>4 DEF Hear
  <2>5. CASE ChatStep
    BY <2>3, <2>5 DEF ChatStep, ChatPause, ChatStop, ChatPut
  <2>6. CASE TeleopWrite \/ TeleopRelease
    BY <2>6, TeleopMaps
  <2>7. CASE UNCHANGED vars
    BY <2>3, <2>7 DEF vars
  <2> QED
    BY <2>1, <2>2, <2>4, <2>5, <2>6, <2>7 DEF Next
<1> QED
  BY <1>1, <1>2, BusCorrect, PTL DEF Spec, BusPromise, Bus!Spec

=============================================================================
