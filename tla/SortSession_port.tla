---------------------------- MODULE SortSession_port ----------------------------
(***************************************************************************)
(* One Loop at a time, and the stops arrive as RunPort promises, for any   *)
(* number of HUD threads, runs, steps, tokens and directives and whatever  *)
(* is said.                                                                *)
(*                                                                         *)
(* start() tests for a run and creates the next one later, without a lock: *)
(* two starts that overlap make two Loops.  `raced` records that they did, *)
(* and all of this is about behaviours up to there.                        *)
(***************************************************************************)
EXTENDS SortSession_proofs

\* Runs that have not been started are as Init made them.
Fresh == \A r \in Runs : r > run => lpc[r] = "none" /\ ~stopEv[r]

\* "one Loop thread at a time": the only thread that is alive is the current run's, so
\* that stops and pauses go to whoever moves the arm, and _run_loop reports on its own
\* Control.
OneLoop == \A r \in Runs : Alive(r) => r = run

\* At most one action is about to create a run, and the one before has ended.
OneStart == \A g, h \in Starting : g = h /\ ~Running

Lifecycle == Fresh /\ (raced \/ (OneLoop /\ OneStart))

\* The variables all of this is about.
lifeVars == <<run, stopEv, lpc, hpc, raced>>

LEMMA LifecycleUntouched ==
    ASSUME Lifecycle, UNCHANGED lifeVars
    PROVE  Lifecycle'
BY DEF Lifecycle, lifeVars, Fresh, OneLoop, Alive, OneStart, Starting, Running

LEMMA LifecycleInit == Init => Lifecycle
BY DEF Init, Lifecycle, Fresh, OneLoop, Alive, OneStart, Starting

-----------------------------------------------------------------------------
(* The Loop.                                                               *)

\* A thread that takes a step is alive; it never forgets that it was started, and it
\* leaves the stop events and the actions alone.
LEMMA LoopGoesOn ==
    ASSUME TypeOK, NEW r \in Runs, LoopStep(r) \/ Crash(r)
    PROVE  /\ UNCHANGED <<run, stopEv, hpc, raced>>
           /\ \/ UNCHANGED <<lpc, directives>>
              \/ /\ Alive(r)
                 /\ \E pc \in LoopPcs \ {"none"} : lpc' = [lpc EXCEPT ![r] = pc]
                 /\ UNCHANGED directives \/ directives' = <<>>
<1> USE DEF ctlVars, loopVars, robotVars, history, Goto, Leave, Alive, LoopPcs, Holding
<1>1. CASE GateStop(r) \/ GatePass(r) \/ StepBegin(r) \/ GatePark(r) \/ Budget(r)
  BY <1>1 DEF GateStop, GatePass, StepBegin, GatePark, Budget
<1>2. CASE MaybeCalibrate(r) \/ CalibBegin(r) \/ CalibOver(r)
  BY <1>2 DEF MaybeCalibrate, CalibBegin, CalibOver
<1>3. CASE Acquire(r) \/ Release(r)
  BY <1>3 DEF Acquire, Release
<1>4. CASE DrainTake(r) \/ Obey(r)
  BY <1>4 DEF DrainTake, Obey
<1>5. CASE DrainDone(r)
  BY <1>5 DEF DrainDone
<1>6. CASE Look(r) \/ Plan(r) \/ Vet(r)
  BY <1>6 DEF Look, Plan, Vet
<1>7. CASE Exit(r)
  BY <1>7 DEF Exit
<1>8. CASE BeginWrite(r) \/ LandWrite(r)
  BY <1>8 DEF BeginWrite, LandWrite
<1>9. CASE Crash(r)
  BY <1>9 DEF Crash
<1> QED
  BY <1>1, <1>2, <1>3, <1>4, <1>5, <1>6, <1>7, <1>8, <1>9 DEF LoopStep

\* So it does not bring a run back that has ended.
LEMMA LifecycleLoop ==
    ASSUME TypeOK, Lifecycle, NEW r \in Runs, LoopStep(r) \/ Crash(r)
    PROVE  Lifecycle'
<1>1. UNCHANGED <<run, stopEv, hpc, raced>>
  BY LoopGoesOn
<1>2. CASE UNCHANGED lpc
  BY <1>1, <1>2, LifecycleUntouched DEF lifeVars
<1>3. CASE Alive(r) /\ \E pc \in LoopPcs \ {"none"} : lpc' = [lpc EXCEPT ![r] = pc]
  <2>1. PICK pc \in LoopPcs \ {"none"} : lpc' = [lpc EXCEPT ![r] = pc]
    BY <1>3
  <2>2. \A q \in Runs : q # r => lpc'[q] = lpc[q]
    BY <2>1, BusTypes
  <2>3. Fresh'
    BY <1>1, <1>3, <2>2, BusTypes DEF Lifecycle, Fresh, Alive
  <2>4. CASE ~raced
    <3>1. r = run /\ run # 0 /\ Running
      BY <1>3, <2>4, BusTypes DEF Lifecycle, OneLoop, Alive, Running, Runs
    <3>2. Starting' = {}
      BY <1>1, <2>4, <3>1 DEF Lifecycle, OneStart, Starting
    <3>3. OneLoop'
      BY <1>1, <2>2, <2>4, <3>1 DEF Lifecycle, OneLoop, Alive
    <3> QED
      BY <2>3, <3>2, <3>3 DEF Lifecycle, OneStart
  <2> QED
    BY <1>1, <2>3, <2>4 DEF Lifecycle
<1> QED
  BY <1>2, <1>3, LoopGoesOn

-----------------------------------------------------------------------------
(* The HUD actions.                                                        *)

\* An action goes on, or arrives, and is not about to create a run.
LEMMA LifecycleQuiet ==
    ASSUME TypeOK, Lifecycle, NEW h \in Hud, NEW pc \in HudPcs \ {"start", "startPaused"},
           hpc' = [hpc EXCEPT ![h] = pc], UNCHANGED <<run, lpc, raced>>,
           \A r \in Runs : r > run => stopEv'[r] = stopEv[r]
    PROVE  Lifecycle'
<1>1. Starting' \subseteq Starting
  BY BusTypes DEF Starting
<1>2. Fresh'
  BY DEF Lifecycle, Fresh
<1>3. CASE ~raced
  BY <1>1, <1>2, <1>3 DEF Lifecycle, OneLoop, Alive, OneStart, Running
<1> QED
  BY <1>2, <1>3 DEF Lifecycle

\* A start that finds no run going: alone, or from here on they have raced.
LEMMA LifecycleStart ==
    ASSUME TypeOK, Lifecycle, NEW h \in Hud, NEW pc \in {"start", "startPaused"},
           ~Running, hpc' = [hpc EXCEPT ![h] = pc], raced' = (raced \/ Starting # {}),
           UNCHANGED <<run, lpc, stopEv>>
    PROVE  Lifecycle'
<1>1. Fresh'
  BY DEF Lifecycle, Fresh
<1>2. CASE ~raced /\ Starting = {}
  <2>1. Starting' \subseteq {h}
    BY <1>2, BusTypes DEF Starting
  <2> QED
    BY <1>1, <1>2, <2>1 DEF Lifecycle, OneLoop, Alive, OneStart, Running
<1> QED
  BY <1>1, <1>2 DEF Lifecycle

LEMMA LifecycleCall ==
    ASSUME TypeOK, Lifecycle, NEW h \in Hud, HudCall(h)
    PROVE  Lifecycle'
<1> USE DEF ctlVars, loopVars, robotVars, history, Call, HudGoto
<1>1. CASE Start(h)
  BY <1>1, LifecycleStart DEF Start
<1>2. CASE StepOnce(h)
  <2>1. CASE Running
    BY <1>2, <2>1, LifecycleQuiet DEF StepOnce, HudPcs
  <2>2. CASE ~Running
    BY <1>2, <2>2, LifecycleStart DEF StepOnce
  <2> QED BY <2>1, <2>2
<1>3. CASE Pause(h) \/ Resume(h) \/ TorqueOff(h)
  BY <1>3, LifecycleQuiet DEF Pause, Resume, TorqueOff, HudPcs
<1>4. CASE Request(h)
  BY <1>4, LifecycleQuiet DEF Request, HudPcs
<1>5. CASE Stop(h)
  <2>a. \A r \in Runs : r > run => r # run
    BY BusTypes
  <2>1. \A r \in Runs : r > run => stopEv'[r] = stopEv[r]
    BY <1>5, <2>a DEF Stop, TypeOK
  <2> QED
    BY <1>5, <2>1, LifecycleQuiet DEF Stop, HudPcs
<1>6. CASE CalibStart(h) \/ CalibEnd(h)
  BY <1>6, LifecycleQuiet DEF CalibStart, CalibEnd, HudPcs
<1> QED
  BY <1>1, <1>2, <1>3, <1>4, <1>5, <1>6 DEF HudCall

LEMMA LifecycleStep ==
    ASSUME TypeOK, Lifecycle, NEW h \in Hud, HudStep(h)
    PROVE  Lifecycle'
<1> USE DEF ctlVars, loopVars, robotVars, history, HudGoto
\* The run before has ended, and the new one is the only one that is alive.
<1>1. CASE Install(h)
  <2>a. hpc \in [Hud -> HudPcs] /\ run \in Nat /\ Runs \subseteq Nat /\ lpc \in [Runs -> LoopPcs]
    BY BusTypes
  <2>1. /\ run' = run + 1 /\ lpc' = [lpc EXCEPT ![run + 1] = "gate"] /\ UNCHANGED raced
        /\ h \in Starting /\ Starting' \subseteq Starting \ {h}
        /\ \A r \in Runs : r # run + 1 => stopEv'[r] = stopEv[r]
    BY <1>1, <2>a DEF Install, Goto, TypeOK, Starting
  <2>2. Fresh'
    <3>1. \A r \in Runs : r > run + 1 => r > run /\ r # run + 1
      BY <2>a
    <3> QED
      BY <2>a, <2>1, <3>1 DEF Lifecycle, Fresh
  <2>3. CASE ~raced
    <3>1. ~Running /\ Starting' = {}
      BY <2>1, <2>3 DEF Lifecycle, OneStart
    <3>2. \A r \in Runs : ~Alive(r)
      BY <2>3, <3>1 DEF Lifecycle, OneLoop, Alive, Running, Runs
    <3>3. OneLoop'
      BY <2>a, <2>1, <3>2 DEF OneLoop, Alive
    <3> QED
      BY <2>2, <3>1, <3>3 DEF Lifecycle, OneStart
  <2> QED
    BY <2>1, <2>2, <2>3 DEF Lifecycle
<1>2. CASE ResumeClear(h) \/ OffPause(h) \/ Grant(h) \/ CalibGo(h)
  BY <1>2, LifecycleQuiet DEF ResumeClear, OffPause, Grant, CalibGo, HudPcs
<1>3. CASE TryLock(h)
  BY <1>3, LifecycleQuiet DEF TryLock, HudPcs
<1>4. CASE Timeout(h)
  <2>1. AfterTimeout(hpc[h]) \in HudPcs \ {"start", "startPaused"}
    BY DEF AfterTimeout, HudPcs
  <2> QED
    BY <1>4, <2>1, LifecycleQuiet DEF Timeout
<1>5. CASE ActDone(h) \/ PollDone(h)
  BY <1>5, LifecycleQuiet DEF ActDone, PollDone, HudPcs
<1>6. CASE EnableMotors(h)
  BY <1>6, LifecycleQuiet DEF EnableMotors, HudPcs
<1>7. CASE RaiseFlag(h) \/ CutMotors(h)
  BY <1>7, LifecycleQuiet DEF RaiseFlag, CutMotors, HudPcs
<1>8. CASE BeginWrite(h) \/ LandWrite(h)
  BY <1>8, LifecycleUntouched DEF BeginWrite, LandWrite, lifeVars
<1> QED
  BY <1>1, <1>2, <1>3, <1>4, <1>5, <1>6, <1>7, <1>8 DEF HudStep

-----------------------------------------------------------------------------

LEMMA LifecycleNext == TypeOK /\ Lifecycle /\ [Next]_vars => Lifecycle'
<1> SUFFICES ASSUME TypeOK, Lifecycle, [Next]_vars PROVE Lifecycle'
  OBVIOUS
<1> USE DEF ctlVars, loopVars, robotVars, history
<1>1. ASSUME NEW r \in Runs, LoopStep(r) \/ Crash(r) PROVE Lifecycle'
  BY <1>1, LifecycleLoop
<1>2. ASSUME NEW h \in Hud, HudCall(h) \/ HudStep(h) PROVE Lifecycle'
  BY <1>2, LifecycleCall, LifecycleStep
<1>3. ASSUME NEW k \in Speech, Hear(k) PROVE Lifecycle'
  BY <1>3, LifecycleUntouched DEF Hear, lifeVars
<1>4. CASE ChatStop
  <2>a. \A r \in Runs : r > run => r # run
    BY BusTypes
  <2>1. /\ UNCHANGED <<run, lpc, hpc, raced>>
        /\ \A r \in Runs : r > run => stopEv'[r] = stopEv[r]
    BY <1>4, <2>a DEF ChatStop, TypeOK
  <2> QED
    BY <2>1 DEF Lifecycle, Fresh, OneLoop, Alive, OneStart, Starting, Running
<1>5. CASE ChatPause \/ ChatPut
  BY <1>5, LifecycleUntouched DEF ChatPause, ChatPut, lifeVars
<1>6. CASE TeleopWrite \/ TeleopRelease \/ UNCHANGED vars
  BY <1>6, LifecycleUntouched DEF TeleopWrite, TeleopRelease, vars, lifeVars
<1> QED
  BY <1>1, <1>2, <1>3, <1>4, <1>5, <1>6 DEF Next, ChatStep

LEMMA LifecycleCorrect == Spec => [](TypeOK /\ Lifecycle)
<1>1. Init => TypeOK /\ Lifecycle
  BY InitType, LifecycleInit
<1>2. TypeOK /\ Lifecycle /\ [Next]_vars => TypeOK' /\ Lifecycle'
  BY NextType, LifecycleNext
<1> QED
  BY <1>1, <1>2, PTL DEF Spec

\* One Loop at a time, until two starts overlap: start() and step_once() find the thread
\* of the last run ended, and whatever happens before the new one is created, speech and
\* the other actions of the HUD included, it still has.
THEOREM OneLoopHolds == Spec => [](raced \/ OneLoop)
<1>1. Lifecycle => raced \/ OneLoop
  BY DEF Lifecycle
<1> QED
  BY <1>1, LifecycleCorrect, PTL

-----------------------------------------------------------------------------
(* The port at which stops arrive.                                         *)

\* The abstract state in terms of formulas, which is how steps are described below.
LEMMA PortValues ==
    /\ Running \in BOOLEAN /\ Running' \in BOOLEAN
    /\ (Running' <=> Running) => Running' = Running
    /\ (StopSet' <=> StopSet) => StopSet' = StopSet
    /\ (StopQueued' <=> StopQueued) => StopQueued' = StopQueued
    /\ (Running' => Running' = TRUE) /\ (~Running' => Running' = FALSE)
    /\ (StopSet' => StopSet' = TRUE) /\ (~StopSet' => StopSet' = FALSE)
    /\ (StopQueued' => StopQueued' = TRUE) /\ (~StopQueued' => StopQueued' = FALSE)
BY Zenon DEF Running, StopSet, StopQueued

\* Nothing that arrives there, and no run that begins or ends.
LEMMA SamePort ==
    ASSUME UNCHANGED run, Running' <=> Running, StopSet' <=> StopSet, StopQueued' <=> StopQueued
    PROVE  UNCHANGED Port!vars
BY PortValues DEF Port!vars

LEMMA PortUntouched ==
    ASSUME UNCHANGED <<run, lpc, stopEv, directives>>
    PROVE  UNCHANGED Port!vars
BY SamePort DEF Running, StopSet, StopQueued

\* A thread that is alive is the current run's: if it ends the run does, and if it takes
\* what is queued a run does that is going.
LEMMA LoopPort ==
    ASSUME TypeOK, Lifecycle, ~raced, NEW r \in Runs, LoopStep(r) \/ Crash(r)
    PROVE  Port!Next \/ UNCHANGED Port!vars
<1>1. UNCHANGED <<run, stopEv>>
  BY LoopGoesOn
<1>2. CASE UNCHANGED <<lpc, directives>>
  BY <1>1, <1>2, PortUntouched
<1>3. CASE Alive(r) /\ (UNCHANGED directives \/ directives' = <<>>)
  <2>1. Running /\ (StopSet' <=> StopSet)
    BY <1>1, <1>3 DEF Lifecycle, OneLoop, Alive, Running, Runs, StopSet
  <2>2. StopQueued' => StopQueued
    BY <1>3 DEF StopQueued
  <2>3. CASE StopQueued /\ ~StopQueued'
    BY <1>1, <2>1, <2>3, PortValues DEF Port!Next, Port!TakeStop
  <2>4. CASE (StopQueued' <=> StopQueued) /\ ~Running'
    BY <1>1, <2>1, <2>4, PortValues DEF Port!Next, Port!End
  <2>5. CASE (StopQueued' <=> StopQueued) /\ Running'
    BY <1>1, <2>1, <2>5, SamePort
  <2> QED
    BY <2>2, <2>3, <2>4, <2>5
<1> QED
  BY <1>2, <1>3, LoopGoesOn

\* A run begins with an event of its own, which nobody has set.
LEMMA InstallPort ==
    ASSUME TypeOK, Lifecycle, ~raced, NEW h \in Hud, Install(h)
    PROVE  Port!Next
<1> USE DEF loopVars
<1>1. run \in Nat /\ lpc \in [Runs -> LoopPcs] /\ run + 1 \in Runs /\ run + 1 # 0
  BY BusTypes DEF Install, Runs
<1>2. ~Running /\ run' = run + 1 /\ (StopQueued' <=> StopQueued)
  BY DEF Install, Lifecycle, OneStart, Starting, StopQueued
<1>3. lpc'[run + 1] = "gate" /\ stopEv'[run + 1] = FALSE
  BY <1>1 DEF Install, Goto, NewStopEv, TypeOK
<1>4. Running' /\ ~StopSet'
  BY <1>1, <1>2, <1>3 DEF Running, StopSet
<1> QED
  BY <1>2, <1>4, PortValues DEF Port!Next, Port!Begin

\* Whoever sets an event sets the current run's.
LEMMA StopPort ==
    ASSUME TypeOK, run # 0, stopEv' = [stopEv EXCEPT ![run] = TRUE], UNCHANGED <<run, lpc, directives>>
    PROVE  Port!Next
<1>1. run \in Runs
  BY BoundsAssumption DEF TypeOK, Runs
<1>2. StopSet' /\ (Running' <=> Running) /\ (StopQueued' <=> StopQueued)
  BY <1>1 DEF StopSet, Running, StopQueued, TypeOK
<1> QED
  BY <1>2, PortValues DEF Port!Next, Port!SetStop

LEMMA HudPort ==
    ASSUME TypeOK, Lifecycle, ~raced, NEW h \in Hud, HudCall(h) \/ HudStep(h)
    PROVE  Port!Next \/ UNCHANGED Port!vars
<1> USE DEF loopVars, ctlVars, robotVars, history
<1>1. CASE Install(h)
  BY <1>1, InstallPort
<1>2. CASE Stop(h)
  BY <1>2, StopPort DEF Stop, Running
<1>3. CASE Start(h) \/ Pause(h) \/ Resume(h) \/ StepOnce(h) \/ Request(h) \/ TorqueOff(h)
           \/ CalibStart(h) \/ CalibEnd(h)
  BY <1>3, PortUntouched DEF Start, Pause, Resume, StepOnce, Request, TorqueOff, CalibStart, CalibEnd
<1>4. CASE ResumeClear(h) \/ Grant(h) \/ OffPause(h) \/ TryLock(h) \/ Timeout(h) \/ ActDone(h)
           \/ PollDone(h) \/ EnableMotors(h) \/ RaiseFlag(h) \/ CutMotors(h) \/ CalibGo(h)
           \/ BeginWrite(h) \/ LandWrite(h)
  BY <1>4, PortUntouched DEF ResumeClear, Grant, OffPause, TryLock, Timeout, ActDone, PollDone,
     EnableMotors, RaiseFlag, CutMotors, CalibGo, BeginWrite, LandWrite
<1> QED
  BY <1>1, <1>2, <1>3, <1>4 DEF HudCall, HudStep

\* A directive is queued behind the others.
LEMMA PutPort ==
    ASSUME TypeOK, NEW k \in {"stop", "cmd", "action"}, NEW d \in 0..MaxRuns,
           directives' = Append(directives, [kind |-> k, run |-> d]),
           UNCHANGED <<run, lpc, stopEv>>
    PROVE  Port!Next \/ UNCHANGED Port!vars
<1>1. (Running' <=> Running) /\ (StopSet' <=> StopSet)
  BY DEF Running, StopSet
<1>2. StopQueued' <=> (StopQueued \/ k = "stop")
  <2>1. directives \in Seq(Queued)
    BY DEF TypeOK
  <2>2. /\ DOMAIN directives' = DOMAIN directives \cup {Len(directives) + 1}
        /\ \A i \in DOMAIN directives : directives'[i] = directives[i]
        /\ directives'[Len(directives) + 1] = [kind |-> k, run |-> d]
    BY <2>1
  <2> QED
    BY <2>1, <2>2 DEF StopQueued
<1>3. CASE k = "stop"
  BY <1>1, <1>2, <1>3, PortValues DEF Port!Next, Port!PutStop
<1>4. CASE k # "stop"
  BY <1>1, <1>2, <1>4, SamePort
<1> QED
  BY <1>3, <1>4

LEMMA ChatPort ==
    ASSUME TypeOK, ChatStep \/ \E k \in Speech : Hear(k)
    PROVE  Port!Next \/ UNCHANGED Port!vars
<1> USE DEF loopVars, ctlVars, robotVars, history
<1>1. CASE ChatPause
  BY <1>1, PortUntouched DEF ChatPause
<1>2. CASE ChatStop
  <2>1. CASE run # 0
    BY <1>2, <2>1, StopPort DEF ChatStop
  <2>2. CASE run = 0
    BY <1>2, <2>2, SamePort DEF ChatStop, StopSet, Running, StopQueued
  <2> QED
    BY <2>1, <2>2
<1>3. CASE ChatPut
  BY <1>3, PutPort DEF ChatPut, TypeOK
<1>4. ASSUME NEW k \in Speech, Hear(k) PROVE Port!Next \/ UNCHANGED Port!vars
  <2>1. Going \in 0..MaxRuns
    BY SaidType
  <2>2. CASE k \in {"cmd", "action"}
    BY <1>4, <2>1, <2>2, PutPort DEF Hear
  <2>3. CASE k \in {"stop", "pause"}
    BY <1>4, <2>3, PortUntouched DEF Hear
  <2> QED
    BY <1>4, <2>2, <2>3 DEF Hear
<1> QED
  BY <1>1, <1>2, <1>3, <1>4 DEF ChatStep

\* For any number of HUD threads SortSession is what Chat takes a run for, until two
\* starts have overlapped: every step of the Loop, of the actions and of the chat worker
\* begins or ends the one run, sets its event, queues a stop or takes it, or does none of
\* this; no event is ever taken back.
THEOREM SessionImplementsPort == Spec => PortPromise
<1>1. Init => Port!Init
  <2> SUFFICES ASSUME Init PROVE Port!Init
    OBVIOUS
  <2>1. ~Running /\ ~StopSet /\ ~StopQueued
    BY DEF Init, Running, StopSet, StopQueued
  <2>2. Running = FALSE /\ StopSet = FALSE /\ StopQueued = FALSE
    BY <2>1, Zenon DEF Running, StopSet, StopQueued
  <2> QED
    BY <2>2 DEF Init, Port!Init
<1>2. TypeOK /\ Lifecycle /\ [Next]_vars => [raced \/ Port!Next]_(Port!vars)
  <2> SUFFICES ASSUME TypeOK, Lifecycle, [Next]_vars, ~raced
               PROVE  Port!Next \/ UNCHANGED Port!vars
    OBVIOUS
  <2>1. CASE TeleopWrite \/ TeleopRelease \/ UNCHANGED vars
    BY <2>1, PortUntouched DEF TeleopWrite, TeleopRelease, vars, loopVars, ctlVars
  <2> QED
    BY <2>1, LoopPort, HudPort, ChatPort DEF Next
<1> QED
  BY <1>1, <1>2, LifecycleCorrect, PTL DEF Spec, PortPromise

=============================================================================
