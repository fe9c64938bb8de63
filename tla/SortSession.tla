------------------------------ MODULE SortSession ------------------------------
(***************************************************************************)
(* The run lifecycle of sortbot.main: the Session's HUD actions, the       *)
(* Control gate, the Loop thread, the urgent path of the chat worker, the  *)
(* directive queue, and the shared motor bus with its lock and E-STOP.     *)
(*                                                                         *)
(* HUD actions run on a thread pool, so every HUD thread takes its action  *)
(* one step at a time, and a value it has tested may be stale when it acts *)
(* on it.  Run r stands for the Control and the Loop that the r-th start   *)
(* created and for the thread that executes them.  All three devices are   *)
(* connected throughout.                                                   *)
(***************************************************************************)
EXTENDS Naturals, Sequences, FiniteSets

CONSTANTS
    Hud,            \* the threads that serve HUD actions
    Teleop,         \* the teleoperation thread of a calibration session
    NoThread,       \* the owner of a free lock
    MaxRuns,        \* bound: how many times the operator starts a run
    MaxSteps,       \* Loop.max_steps
    MaxTokens,      \* bound: single-step tokens outstanding
    MaxDirectives,  \* bound: directives queued
    Ops,            \* the HUD actions the operator uses
    Speech          \* what the human says

AllOps == {"start", "pause", "resume", "stop", "step_once", "act", "poll",
           "torque_on", "torque_off", "calib_start", "calib_end"}
AllSpeech == {"stop", "pause", "cmd", "action"}

Runs == 1..MaxRuns
Threads == Hud \cup Runs \cup {Teleop}

ASSUME BoundsAssumption ==
    /\ MaxRuns \in Nat \ {0}
    /\ MaxSteps \in Nat \ {0}
    /\ MaxTokens \in Nat
    /\ MaxDirectives \in Nat
ASSUME OpsAssumption == Ops \subseteq AllOps /\ Speech \subseteq AllSpeech
ASSUME ThreadsAssumption ==
    /\ Hud \cap Runs = {}
    /\ Teleop \notin Hud \cup Runs
    /\ NoThread \notin Threads

VARIABLES
    run,        \* the run Session.ctl, .loop and .thread belong to (0: none)
    stopEv,     \* Control.stop_ev
    pauseEv,    \* Control.pause_ev
    tokens,     \* Control._steps
    phase,      \* Control.phase
    lpc,        \* where the Loop thread is
    step,       \* Loop.step
    cmd,        \* the command in hand in this step, by who gave it
    batch,      \* the directives a drain has taken and not yet obeyed
    keep,       \* keep_going of the drain in progress
    pending,    \* how many Loop.pending_actions
    calReq,     \* Loop._calib_requested
    outcome,    \* what Loop.run returned, or "error"
    directives, \* Session.directives
    torque,     \* robot.torque, the flag every motion consults
    motors,     \* the torque of the motors themselves
    lock,       \* Session.robot_lock
    onBus,      \* the threads inside a transaction on the motor bus
    late,       \* history: joint writes that landed while the flag was off
    calib,      \* CalibController.active
    hpc,        \* where each HUD thread is in its action
    cpc,        \* where the chat worker is in the urgent path
    said,       \* history: the run that was going when its stop was said (0: none)
    raced,      \* history: two starts have overlapped
    crossed     \* history: an E-STOP has cut the motors inside a torque_on, or
                \* a torque_on has raised the flag inside an E-STOP

ctlVars   == <<stopEv, pauseEv, tokens, phase>>
loopVars  == <<lpc, step, cmd, batch, keep, pending, calReq, outcome>>
robotVars == <<torque, motors, lock, onBus, late>>
history   == <<said, raced, crossed>>
vars == <<run, ctlVars, loopVars, directives, robotVars, calib, hpc, cpc, history>>

Phases   == {"idle", "running", "paused", "done", "stopped", "error"}
Holding  == {"home", "bare", "exec"}
LoopPcs  == {"none", "gate", "begin", "calib", "calGo", "calWait", "homeWait",
             "bareWait", "execWait", "drain", "obey", "look", "plan", "vet",
             "exit", "ended"} \cup Holding
Outcomes == {"none", "stopped", "voice", "done", "budget", "error"}
Commands == {"none", "human", "plan", "done"}
HudPcs   == {"idle", "start", "startPaused", "grant", "resume",
             "actWait", "act", "pollWait", "poll",
             "onWait", "on", "onFlag", "offPause", "offWait", "cut", "jump",
             "calGo"}
\* A directive, with the run that was going when it was said (history; 0: none).
Queued   == [kind: {"stop", "cmd", "action"}, run: 0..MaxRuns]

TypeOK ==
    /\ run \in 0..MaxRuns
    /\ stopEv \in [Runs -> BOOLEAN] /\ pauseEv \in [Runs -> BOOLEAN]
    /\ tokens \in [Runs -> 0..MaxTokens] /\ phase \in [Runs -> Phases]
    /\ lpc \in [Runs -> LoopPcs] /\ step \in [Runs -> 0..MaxSteps]
    /\ cmd \in [Runs -> Commands] /\ batch \in [Runs -> Seq(Queued)]
    /\ keep \in [Runs -> BOOLEAN] /\ pending \in [Runs -> Nat]
    /\ calReq \in [Runs -> BOOLEAN] /\ outcome \in [Runs -> Outcomes]
    /\ directives \in Seq(Queued)
    /\ torque \in BOOLEAN /\ motors \in BOOLEAN /\ calib \in BOOLEAN
    /\ lock \in Threads \cup {NoThread} /\ onBus \in SUBSET Threads
    /\ late \in Nat
    /\ hpc \in [Hud -> HudPcs]
    /\ cpc \in {"idle", "pause", "stopPause", "stop", "put"}
    /\ said \in 0..MaxRuns /\ raced \in BOOLEAN /\ crossed \in BOOLEAN
    /\ \A r \in Runs : lpc[r] = "begin" => step[r] < MaxSteps

Init ==
    /\ run = 0
    /\ stopEv = [r \in Runs |-> FALSE] /\ pauseEv = [r \in Runs |-> FALSE]
    /\ tokens = [r \in Runs |-> 0] /\ phase = [r \in Runs |-> "idle"]
    /\ lpc = [r \in Runs |-> "none"] /\ step = [r \in Runs |-> 0]
    /\ cmd = [r \in Runs |-> "none"] /\ batch = [r \in Runs |-> <<>>]
    /\ keep = [r \in Runs |-> TRUE] /\ pending = [r \in Runs |-> 0]
    /\ calReq = [r \in Runs |-> FALSE] /\ outcome = [r \in Runs |-> "none"]
    /\ directives = <<>>
    /\ torque = TRUE /\ motors = TRUE /\ calib = FALSE
    /\ lock = NoThread /\ onBus = {} /\ late = 0
    /\ hpc = [h \in Hud |-> "idle"] /\ cpc = "idle"
    /\ said = 0 /\ raced = FALSE /\ crossed = FALSE

\* Session._running: the current run's thread is alive.
Running == run # 0 /\ lpc[run] # "ended"

-----------------------------------------------------------------------------
(* The motor bus.  A motion holds the lock from its first tick to its      *)
(* last; each tick tests the torque flag and then writes, and the flag can *)
(* change between the two.  The teleop, which copies the leader's joints,  *)
(* holds the lock for one tick and does not look at the flag.              *)

\* In the middle of a motion.  Of the commands only done moves nothing; a home or
\* a bare command moves the arm whatever the planner has answered.
Moving(t) ==
    /\ lock = t
    /\ \/ t \in Hud /\ hpc[t] = "act"
       \/ t \in Runs /\ lpc[t] \in Holding /\ (lpc[t] = "exec" => cmd[t] # "done")

\* Mutation of BeginWrite: no torque test before a write.
BeginWriteUntested(t) ==
    /\ Moving(t) /\ t \notin onBus
    /\ onBus' = onBus \cup {t}
    /\ UNCHANGED <<history, run, ctlVars, loopVars, directives, torque, motors, lock,
                   late, calib, hpc, cpc>>

BeginWrite(t) ==
    /\ Moving(t) /\ t \notin onBus
    /\ torque
    /\ onBus' = onBus \cup {t}
    /\ UNCHANGED <<history, run, ctlVars, loopVars, directives, torque, motors, lock,
                   late, calib, hpc, cpc>>

LandWrite(t) ==
    /\ Moving(t) /\ t \in onBus
    /\ onBus' = onBus \ {t}
    /\ late' = IF torque THEN late ELSE late + 1
    /\ UNCHANGED <<history, run, ctlVars, loopVars, directives, torque, motors, lock,
                   calib, hpc, cpc>>

\* CalibSession._loop writes the leader's joints straight to the follower:
\* under the lock, without a look at the torque flag.
TeleopWrite ==
    /\ calib /\ lock = NoThread
    /\ lock' = Teleop /\ onBus' = onBus \cup {Teleop}
    /\ UNCHANGED <<history, run, ctlVars, loopVars, directives, torque, motors, late,
                   calib, hpc, cpc>>

\* A tick that raises puts the session in state "error": no longer active.
TeleopRelease ==
    /\ lock = Teleop
    /\ lock' = NoThread /\ onBus' = onBus \ {Teleop}
    /\ calib' \in {calib, FALSE}
    /\ UNCHANGED <<history, run, ctlVars, loopVars, directives, torque, motors, late,
                   hpc, cpc>>

-----------------------------------------------------------------------------
(* The Loop thread.                                                        *)

\* The steps of a run that touch only its own control flow.
Goto(r, pc) == lpc' = [lpc EXCEPT ![r] = pc]
Leave(r, why) == Goto(r, "exit") /\ outcome' = [outcome EXCEPT ![r] = why]

\* Mutation of StopSeen: the gate looks at the pause event first.
StopSeenLate(r) == stopEv[r] /\ ~pauseEv[r]
StopSeen(r) == stopEv[r]

GateStop(r) ==
    /\ lpc[r] = "gate" /\ step[r] < MaxSteps /\ StopSeen(r)
    /\ Leave(r, "stopped")
    /\ UNCHANGED <<history, run, ctlVars, step, cmd, batch, keep, pending, calReq,
                   directives, robotVars, calib, hpc, cpc>>

\* gate() lets a step through when the run is not paused, or against one
\* single-step token.  Mutation of Admit: the token is not counted.
AdmitUncounted(r) ==
    \/ ~pauseEv[r] /\ UNCHANGED tokens
    \/ pauseEv[r] /\ tokens' = [tokens EXCEPT ![r] = @ - 1]
Admit(r) ==
    \/ ~pauseEv[r] /\ UNCHANGED tokens
    \/ /\ pauseEv[r] /\ tokens[r] > 0
       /\ tokens' = [tokens EXCEPT ![r] = @ - 1]

\* Mutation of ShowRunning: forgotten for a single step.
ShowRunningIfFree(r) ==
    phase' = IF pauseEv[r] THEN phase ELSE [phase EXCEPT ![r] = "running"]
ShowRunning(r) == phase' = [phase EXCEPT ![r] = "running"]

GatePass(r) ==
    /\ lpc[r] = "gate" /\ step[r] < MaxSteps /\ ~StopSeen(r)
    /\ Admit(r)
    /\ ShowRunning(r)
    /\ Goto(r, "begin")
    /\ UNCHANGED <<history, run, stopEv, pauseEv, step, cmd, batch, keep, pending, calReq,
                   outcome, directives, robotVars, calib, hpc, cpc>>

\* What comes between the gate and this is too late for this step.
StepBegin(r) ==
    /\ lpc[r] = "begin"
    /\ step' = [step EXCEPT ![r] = @ + 1]
    /\ Goto(r, "calib")
    /\ UNCHANGED <<history, run, ctlVars, cmd, batch, keep, pending, calReq,
                   outcome, directives, robotVars, calib, hpc, cpc>>

\* Mutation of ShowPaused: the phase is left as the step set it.
ShowPausedNever(r) == UNCHANGED phase
ShowPaused(r) == phase' = [phase EXCEPT ![r] = "paused"]

GatePark(r) ==
    /\ lpc[r] = "gate" /\ step[r] < MaxSteps
    /\ ~StopSeen(r) /\ pauseEv[r] /\ tokens[r] = 0
    /\ ShowPaused(r)
    /\ UNCHANGED <<history, run, stopEv, pauseEv, tokens, loopVars, directives,
                   robotVars, calib, hpc, cpc>>

Budget(r) ==
    /\ lpc[r] = "gate" /\ step[r] = MaxSteps
    /\ Leave(r, "budget")
    /\ UNCHANGED <<history, run, ctlVars, step, cmd, batch, keep, pending, calReq,
                   directives, robotVars, calib, hpc, cpc>>

\* _maybe_calibrate: the request is consumed before the session starts, and
\* the loop then waits for the session to end, whatever the events say.
MaybeCalibrate(r) ==
    /\ lpc[r] = "calib"
    /\ Goto(r, IF calReq[r] THEN "calGo" ELSE "homeWait")
    /\ calReq' = [calReq EXCEPT ![r] = FALSE]
    /\ UNCHANGED <<history, run, ctlVars, step, cmd, batch, keep, pending, outcome,
                   directives, robotVars, calib, hpc, cpc>>

CalibBegin(r) ==
    /\ lpc[r] = "calGo"
    /\ \/ calib /\ UNCHANGED calib                   \* already running
       \/ ~calib /\ lock = NoThread /\ calib' \in BOOLEAN  \* FALSE: cannot start
    /\ Goto(r, "calWait")
    /\ UNCHANGED <<history, run, ctlVars, step, cmd, batch, keep, pending, calReq,
                   outcome, directives, robotVars, hpc, cpc>>

CalibOver(r) ==
    /\ lpc[r] = "calWait" /\ ~calib
    /\ Goto(r, "homeWait")
    /\ UNCHANGED <<history, run, ctlVars, step, cmd, batch, keep, pending, calReq,
                   outcome, directives, robotVars, calib, hpc, cpc>>

\* `with self.lock`: homing, a bare command, the step's own command.
Acquire(r) ==
    /\ lock = NoThread
    /\ \/ lpc[r] = "homeWait" /\ Goto(r, "home")
       \/ lpc[r] = "bareWait" /\ Goto(r, "bare")
       \/ lpc[r] = "execWait" /\ Goto(r, "exec")
    /\ lock' = r
    /\ UNCHANGED <<history, run, ctlVars, step, cmd, batch, keep, pending, calReq,
                   outcome, directives, torque, motors, onBus, late, calib,
                   hpc, cpc>>

\* The locked call has returned, done or refused: home() is followed by the
\* drain, a bare command by the rest of its drain, the command by its result.
Release(r) ==
    /\ lock = r /\ lpc[r] \in Holding /\ r \notin onBus
    /\ lock' = NoThread
    /\ \/ lpc[r] = "home" /\ Goto(r, "drain") /\ UNCHANGED <<cmd, outcome>>
       \/ lpc[r] = "bare" /\ Goto(r, "obey") /\ UNCHANGED <<cmd, outcome>>
       \/ /\ lpc[r] = "exec"
          /\ IF cmd[r] = "done" THEN Leave(r, "done")
             ELSE Goto(r, "gate") /\ UNCHANGED outcome
          /\ cmd' = [cmd EXCEPT ![r] = "none"]
    /\ UNCHANGED <<history, run, ctlVars, step, batch, keep, pending, calReq,
                   directives, torque, motors, onBus, late, calib, hpc, cpc>>

\* drain_inputs: everything queued is taken at once, then obeyed in order.
DrainTake(r) ==
    /\ lpc[r] = "drain"
    /\ batch' = [batch EXCEPT ![r] = directives]
    /\ directives' = <<>>
    /\ keep' = [keep EXCEPT ![r] = TRUE]
    /\ Goto(r, "obey")
    /\ UNCHANGED <<history, run, ctlVars, step, cmd, pending, calReq, outcome,
                   robotVars, calib, hpc, cpc>>

Obey(r) ==
    /\ lpc[r] = "obey" /\ batch[r] # <<>>
    /\ batch' = [batch EXCEPT ![r] = Tail(@)]
    /\ \/ /\ Head(batch[r]).kind = "cmd"
          /\ Goto(r, "bareWait") /\ UNCHANGED <<pending, keep>>
       \/ /\ Head(batch[r]).kind = "action"
          /\ pending' = [pending EXCEPT ![r] = @ + 1]
          /\ UNCHANGED <<lpc, keep>>
       \/ /\ Head(batch[r]).kind = "stop"
          /\ keep' = [keep EXCEPT ![r] = FALSE]
          /\ UNCHANGED <<lpc, pending>>
    /\ UNCHANGED <<history, run, ctlVars, step, cmd, calReq, outcome, directives,
                   robotVars, calib, hpc, cpc>>

\* Commands spoken while the planner was thinking supersede its answer.
\* Mutation of Superseded: they do not.
SupersededNever(r) == FALSE
Superseded(r) == pending[r] > 0

\* The first drain of a step honours a stop; the second, with the planner's
\* answer in hand, only looks whether the human gave a command meanwhile.
DrainDone(r) ==
    /\ lpc[r] = "obey" /\ batch[r] = <<>>
    /\ IF cmd[r] = "none"
       THEN /\ IF keep[r] THEN Goto(r, "look") /\ UNCHANGED outcome
                          ELSE Leave(r, "voice")
            /\ UNCHANGED cmd
       ELSE /\ IF Superseded(r)
               THEN Goto(r, "gate") /\ cmd' = [cmd EXCEPT ![r] = "none"]
               ELSE Goto(r, "vet") /\ UNCHANGED cmd
            /\ UNCHANGED outcome
    /\ UNCHANGED <<history, run, ctlVars, step, batch, keep, pending, calReq,
                   directives, robotVars, calib, hpc, cpc>>

\* Capture, homography, one locked pose read; then the human's oldest pending
\* command, or else the planner.
Look(r) ==
    /\ lpc[r] = "look"
    /\ \/ Goto(r, "gate") /\ UNCHANGED <<cmd, pending>>    \* no homography
       \/ /\ lock = NoThread /\ pending[r] > 0
          /\ cmd' = [cmd EXCEPT ![r] = "human"]
          /\ pending' = [pending EXCEPT ![r] = @ - 1]
          /\ Goto(r, "vet")
       \/ /\ lock = NoThread /\ pending[r] = 0
          /\ Goto(r, "plan") /\ UNCHANGED <<cmd, pending>>
    /\ UNCHANGED <<history, run, ctlVars, step, batch, keep, calReq, outcome,
                   directives, robotVars, calib, hpc, cpc>>

\* vlm.plan_step returns a tool call, or fails and costs the step.
Plan(r) ==
    /\ lpc[r] = "plan"
    /\ \/ Goto(r, "gate") /\ UNCHANGED cmd
       \/ /\ \E c \in {"plan", "done"} : cmd' = [cmd EXCEPT ![r] = c]
          /\ Goto(r, "drain")
    /\ UNCHANGED <<history, run, ctlVars, step, batch, keep, pending, calReq, outcome,
                   directives, robotVars, calib, hpc, cpc>>

\* validate: done is never refused.
Vet(r) ==
    /\ lpc[r] = "vet"
    /\ \/ Goto(r, "execWait") /\ UNCHANGED cmd
       \/ /\ cmd[r] # "done"
          /\ Goto(r, "gate") /\ cmd' = [cmd EXCEPT ![r] = "none"]
    /\ UNCHANGED <<history, run, ctlVars, step, batch, keep, pending, calReq, outcome,
                   directives, robotVars, calib, hpc, cpc>>

\* Leaving `with self.lock` by an exception.
Unlocked(t) == IF lock = t THEN NoThread ELSE lock

\* A device call raises: the lock is released and the run ends in error.
Crash(r) ==
    /\ lpc[r] \in Holding \cup {"look"} /\ r \notin onBus
    /\ lock' = Unlocked(r)
    /\ Leave(r, "error")
    /\ UNCHANGED <<history, run, ctlVars, step, cmd, batch, keep, pending, calReq,
                   directives, torque, motors, onBus, late, calib, hpc, cpc>>

\* _run_loop reports through Session.ctl, whichever run that now is.
Exit(r) ==
    /\ lpc[r] = "exit"
    /\ phase' = [phase EXCEPT ![run] =
                    IF outcome[r] = "error" THEN "error"
                    ELSE IF stopEv[run] THEN "stopped" ELSE "done"]
    /\ Goto(r, "ended")
    /\ UNCHANGED <<history, run, stopEv, pauseEv, tokens, step, cmd, batch, keep,
                   pending, calReq, outcome, directives, robotVars, calib,
                   hpc, cpc>>

LoopStep(r) ==
    \/ GateStop(r) \/ GatePass(r) \/ GatePark(r) \/ Budget(r) \/ StepBegin(r)
    \/ MaybeCalibrate(r) \/ CalibBegin(r) \/ CalibOver(r)
    \/ Acquire(r) \/ Release(r) \/ DrainTake(r) \/ Obey(r) \/ DrainDone(r)
    \/ Look(r) \/ Plan(r) \/ Vet(r) \/ Exit(r)
    \/ BeginWrite(r) \/ LandWrite(r)

-----------------------------------------------------------------------------
(* The HUD actions.  `Call` is the request arriving with its first tests   *)
(* passed; a request that is refused there changes nothing.                *)

HudGoto(h, pc) == hpc' = [hpc EXCEPT ![h] = pc]
Call(h, op, pc) == hpc[h] = "idle" /\ op \in Ops /\ HudGoto(h, pc)

\* start() tests for a run without a lock, and creates the next one later.
Starting == {h \in Hud : hpc[h] \in {"start", "startPaused"}}

Start(h) ==
    /\ Call(h, "start", "start") /\ ~Running /\ run < MaxRuns
    /\ raced' = (raced \/ Starting # {})
    /\ UNCHANGED <<run, ctlVars, loopVars, directives, robotVars, calib, cpc, said, crossed>>

\* A new Control, a new Loop, a new thread; q_directives is the Session's own
\* and is not emptied.  Mutation of NewStopEv: the Control of the last run is kept.
NewStopEvKept == IF run = 0 THEN FALSE ELSE stopEv[run]
NewStopEv     == FALSE

Install(h) ==
    /\ hpc[h] \in {"start", "startPaused"} /\ run < MaxRuns
    /\ run' = run + 1
    /\ stopEv' = [stopEv EXCEPT ![run + 1] = NewStopEv]
    /\ pauseEv' = [pauseEv EXCEPT ![run + 1] = (hpc[h] = "startPaused")]
    /\ Goto(run + 1, "gate")
    /\ HudGoto(h, IF hpc[h] = "startPaused" THEN "grant" ELSE "idle")
    /\ UNCHANGED <<tokens, phase, step, cmd, batch, keep, pending,
                   calReq, outcome, directives, robotVars, calib, cpc, history>>

Pause(h) ==
    /\ Call(h, "pause", "idle") /\ Running
    /\ pauseEv' = [pauseEv EXCEPT ![run] = TRUE]
    /\ UNCHANGED <<history, run, stopEv, tokens, phase, loopVars, directives,
                   robotVars, calib, cpc>>

MayResume == Running /\ torque

Resume(h) ==
    /\ Call(h, "resume", "resume") /\ MayResume
    /\ UNCHANGED <<history, run, ctlVars, loopVars, directives, robotVars, calib, cpc>>

ResumeClear(h) ==
    /\ hpc[h] = "resume"
    /\ pauseEv' = [pauseEv EXCEPT ![run] = FALSE]
    /\ HudGoto(h, "idle")
    /\ UNCHANGED <<history, run, stopEv, tokens, phase, loopVars, directives,
                   robotVars, calib, cpc>>

Stop(h) ==
    /\ Call(h, "stop", "idle") /\ Running
    /\ stopEv' = [stopEv EXCEPT ![run] = TRUE]
    /\ UNCHANGED <<history, run, pauseEv, tokens, phase, loopVars, directives,
                   robotVars, calib, cpc>>

StepOnce(h) ==
    /\ \/ /\ Call(h, "step_once", "grant") /\ Running /\ pauseEv[run]
          /\ tokens[run] < MaxTokens
          /\ UNCHANGED raced
       \/ /\ Call(h, "step_once", "startPaused") /\ ~Running /\ run < MaxRuns
          /\ raced' = (raced \/ Starting # {})
    /\ UNCHANGED <<run, ctlVars, loopVars, directives, robotVars, calib, cpc, said, crossed>>

Grant(h) ==
    /\ hpc[h] = "grant" /\ tokens[run] < MaxTokens
    /\ tokens' = [tokens EXCEPT ![run] = @ + 1]
    /\ HudGoto(h, "idle")
    /\ UNCHANGED <<history, run, stopEv, pauseEv, phase, loopVars, directives,
                   robotVars, calib, cpc>>

\* _robot_act admits a motion, or torque_on, when no run is going or its
\* pause event is set.
HandsFree == Running => pauseEv[run]

\* A /state poll reads the bus when no calibration session owns it.
Request(h) ==
    /\ \/ Call(h, "act", "actWait") /\ HandsFree
       \/ Call(h, "torque_on", "onWait") /\ HandsFree
       \/ Call(h, "poll", "pollWait") /\ ~calib
    /\ UNCHANGED <<history, run, ctlVars, loopVars, directives, robotVars, calib, cpc>>

\* torque_off: the flag first, then the pause event, then the bus.
Stopping == {h \in Hud : hpc[h] \in {"offPause", "offWait", "cut", "jump"}}

TorqueOff(h) ==
    /\ Call(h, "torque_off", "offPause")
    /\ torque' = FALSE /\ crossed' = FALSE
    /\ UNCHANGED <<run, ctlVars, loopVars, directives, motors, lock, onBus,
                   late, calib, cpc, said, raced>>

OffPause(h) ==
    /\ hpc[h] = "offPause"
    /\ IF run = 0 THEN UNCHANGED pauseEv
       ELSE pauseEv' = [pauseEv EXCEPT ![run] = TRUE]
    /\ HudGoto(h, "offWait")
    /\ UNCHANGED <<history, run, stopEv, tokens, phase, loopVars, directives,
                   robotVars, calib, cpc>>

\* robot_lock.acquire(timeout): a motion takes the lock and then the bus tick
\* by tick; the others go straight to their one transaction.
TryLock(h) ==
    /\ lock = NoThread
    /\ lock' = h
    /\ \/ hpc[h] = "actWait" /\ HudGoto(h, "act") /\ UNCHANGED onBus
       \/ hpc[h] = "pollWait" /\ HudGoto(h, "poll") /\ onBus' = onBus \cup {h}
       \/ hpc[h] = "onWait" /\ HudGoto(h, "on") /\ onBus' = onBus \cup {h}
       \/ hpc[h] = "offWait" /\ HudGoto(h, "cut") /\ onBus' = onBus \cup {h}
    /\ UNCHANGED <<history, run, ctlVars, loopVars, directives, torque, motors, late,
                   calib, cpc>>

\* Every acquire of a HUD action has a timeout.  Mutation of TimesOut: the
\* E-STOP's has none.
TimesOutButEStop(h) == hpc[h] \in {"actWait", "onWait", "pollWait"}
TimesOut(h) == hpc[h] \in {"actWait", "onWait", "pollWait", "offWait"}

\* The E-STOP alone goes on without the lock, and knows it (`got`).  Mutation
\* of AfterTimeout: the result of acquire is ignored.
AfterTimeoutAsGot(pc) == IF pc = "offWait" THEN "cut" ELSE "idle"
AfterTimeout(pc) == IF pc = "offWait" THEN "jump" ELSE "idle"

Timeout(h) ==
    /\ lock # NoThread /\ TimesOut(h)
    /\ HudGoto(h, AfterTimeout(hpc[h]))
    /\ onBus' = IF hpc[h] = "offWait" THEN onBus \cup {h} ELSE onBus
    /\ UNCHANGED <<history, run, ctlVars, loopVars, directives, torque, motors, lock,
                   late, calib, cpc>>

ActDone(h) ==
    /\ hpc[h] = "act" /\ h \notin onBus
    /\ lock' = NoThread
    /\ HudGoto(h, "idle")
    /\ UNCHANGED <<history, run, ctlVars, loopVars, directives, torque, motors, onBus,
                   late, calib, cpc>>

PollDone(h) ==
    /\ hpc[h] = "poll"
    /\ lock' = NoThread /\ onBus' = onBus \ {h}
    /\ HudGoto(h, "idle")
    /\ UNCHANGED <<history, run, ctlVars, loopVars, directives, torque, motors, late,
                   calib, cpc>>

\* _set_torque(True) and, if it did not raise, the flag.
\* Mutation of EnableMotors: the flag whether or not it raised.
EnableMotorsBlind(h) ==
    /\ hpc[h] = "on" /\ HudGoto(h, "onFlag")
    /\ onBus' = onBus \ {h} /\ motors' \in {TRUE, motors}
    /\ crossed' = (crossed /\ Stopping # {})
    /\ UNCHANGED <<run, ctlVars, loopVars, directives, torque, lock, late, calib,
                   cpc, said, raced>>
EnableMotors(h) ==
    /\ hpc[h] = "on"
    /\ onBus' = onBus \ {h}
    /\ \/ /\ motors' = TRUE /\ HudGoto(h, "onFlag") /\ UNCHANGED lock
          /\ crossed' = (crossed /\ Stopping # {})
       \/ UNCHANGED <<motors, crossed>> /\ HudGoto(h, "idle") /\ lock' = NoThread
    /\ UNCHANGED <<run, ctlVars, loopVars, directives, torque, late, calib, cpc, said, raced>>

RaiseFlag(h) ==
    /\ hpc[h] = "onFlag"
    /\ torque' = TRUE /\ late' = 0
    /\ crossed' = (crossed \/ Stopping # {})
    /\ lock' = NoThread
    /\ HudGoto(h, "idle")
    /\ UNCHANGED <<run, ctlVars, loopVars, directives, motors, onBus, calib, cpc, said, raced>>

\* _set_torque(False), which may raise; the lock is released if it was got.
CutMotors(h) ==
    /\ hpc[h] \in {"cut", "jump"}
    /\ motors' \in {FALSE, motors}
    /\ onBus' = onBus \ {h}
    /\ lock' = IF hpc[h] = "cut" THEN NoThread ELSE lock
    /\ crossed' = (crossed \/ \E g \in Hud : hpc[g] = "onFlag")
    /\ HudGoto(h, "idle")
    /\ UNCHANGED <<run, ctlVars, loopVars, directives, torque, late, calib, cpc, said, raced>>

\* _calib_start: at once when the loop is parked or no run is going, else at
\* the next step boundary.
CalibStart(h) ==
    /\ \/ /\ Running /\ phase[run] # "paused" /\ ~calib
          /\ Call(h, "calib_start", "idle")
          /\ calReq' = [calReq EXCEPT ![run] = TRUE]
       \/ /\ ~(Running /\ phase[run] # "paused")
          /\ Call(h, "calib_start", "calGo")
          /\ UNCHANGED calReq
    /\ UNCHANGED <<history, run, ctlVars, lpc, step, cmd, batch, keep, pending, outcome,
                   directives, robotVars, calib, cpc>>

CalibGo(h) ==
    /\ hpc[h] = "calGo"
    /\ \/ calib /\ UNCHANGED calib
       \/ ~calib /\ lock = NoThread /\ calib' \in BOOLEAN
    /\ HudGoto(h, "idle")
    /\ UNCHANGED <<history, run, ctlVars, loopVars, directives, robotVars, cpc>>

\* Finish or Cancel ends the session; the teleop thread is between two ticks.
CalibEnd(h) ==
    /\ Call(h, "calib_end", "idle") /\ calib /\ lock # Teleop
    /\ calib' = FALSE
    /\ UNCHANGED <<history, run, ctlVars, loopVars, directives, robotVars, cpc>>

HudCall(h) ==
    \/ Start(h) \/ Pause(h) \/ Resume(h) \/ Stop(h) \/ StepOnce(h)
    \/ Request(h) \/ TorqueOff(h) \/ CalibStart(h) \/ CalibEnd(h)

HudStep(h) ==
    \/ Install(h) \/ ResumeClear(h) \/ Grant(h) \/ OffPause(h)
    \/ TryLock(h) \/ Timeout(h) \/ ActDone(h) \/ PollDone(h)
    \/ EnableMotors(h) \/ RaiseFlag(h) \/ CutMotors(h) \/ CalibGo(h)
    \/ BeginWrite(h) \/ LandWrite(h)

-----------------------------------------------------------------------------
(* The chat worker.  Urgent speech sets the Control events on the spot,    *)
(* one after the other, and then queues the stop; a bare command or a      *)
(* command of the model is queued only.                                    *)

Going == IF Running THEN run ELSE 0

Hear(k) ==
    /\ cpc = "idle" /\ k \in Speech /\ Len(directives) < MaxDirectives
    /\ \/ k = "pause" /\ cpc' = "pause" /\ UNCHANGED <<directives, said>>
       \/ k = "stop" /\ cpc' = "stopPause" /\ said' = Going /\ UNCHANGED directives
       \/ /\ k \in {"cmd", "action"}
          /\ directives' = Append(directives, [kind |-> k, run |-> Going])
          /\ UNCHANGED <<cpc, said>>
    /\ UNCHANGED <<run, ctlVars, loopVars, robotVars, calib, hpc, raced, crossed>>

\* A pause is done; a stop goes on to the stop event, if there is a Control.
\* Mutation of AfterPause: a stop only pauses, and is left to its directive.
AfterPauseOnly == IF cpc = "pause" THEN "idle" ELSE "put"
AfterPause == IF cpc = "pause" THEN "idle" ELSE IF run = 0 THEN "put" ELSE "stop"

ChatPause ==
    /\ cpc \in {"pause", "stopPause"}
    /\ IF run = 0 THEN UNCHANGED pauseEv
       ELSE pauseEv' = [pauseEv EXCEPT ![run] = TRUE]
    /\ cpc' = AfterPause
    /\ UNCHANGED <<history, run, stopEv, tokens, phase, loopVars, directives,
                   robotVars, calib, hpc>>

ChatStop ==
    /\ cpc = "stop"
    /\ stopEv' = [stopEv EXCEPT ![run] = TRUE]
    /\ cpc' = "put"
    /\ UNCHANGED <<history, run, pauseEv, tokens, phase, loopVars, directives,
                   robotVars, calib, hpc>>

ChatPut ==
    /\ cpc = "put"
    /\ directives' = Append(directives, [kind |-> "stop", run |-> said])
    /\ cpc' = "idle" /\ said' = 0
    /\ UNCHANGED <<run, ctlVars, loopVars, robotVars, calib, hpc, raced, crossed>>

ChatStep == ChatPause \/ ChatStop \/ ChatPut

-----------------------------------------------------------------------------
Next ==
    \/ \E r \in Runs : LoopStep(r) \/ Crash(r)
    \/ \E h \in Hud : HudCall(h) \/ HudStep(h)
    \/ \E k \in Speech : Hear(k)
    \/ ChatStep
    \/ TeleopWrite \/ TeleopRelease

Spec == Init /\ [][Next]_vars

\* Every thread that can go on does: the Loop, the chat worker, the teleop
\* thread and a HUD action once called.  A motion has a finite plan and a
\* settle timeout, so it ends however many ticks it takes; and the system's
\* locks do not pass over one waiter for ever.  The operator owes nothing.
Fairness ==
    /\ \A r \in Runs : WF_vars(LoopStep(r)) /\ SF_vars(Release(r))
                         /\ SF_vars(Acquire(r)) /\ SF_vars(Look(r))
                         /\ SF_vars(CalibBegin(r))
    /\ \A h \in Hud : WF_vars(HudStep(h)) /\ SF_vars(ActDone(h))
    /\ WF_vars(ChatStep)
    /\ WF_vars(TeleopRelease)

FairSpec == Spec /\ Fairness

-----------------------------------------------------------------------------
(* Safety.                                                                 *)

Jumping == {h \in Hud : hpc[h] = "jump"}
Alive(r) == lpc[r] \notin {"none", "ended"}

\* THREADING INVARIANT of main.py: whoever is in a bus transaction owns the
\* lock, except an E-STOP that gave up waiting for it.  So at most one thread
\* is on the bus besides such E-STOPs.
BusNeedsLock == \A t \in onBus \ Jumping : lock = t

\* _goto_joints and _settle re-test the torque flag before every write: after
\* the E-STOP clears it, one write of a motion already past its test may land,
\* and no second one, however many loops and HUD actions were about to move.
\* The teleop's ticks are no motions and are not held back by the flag.
OneLateWrite == late <= 1

\* No thread keeps the lock after its locked call, not even when a device call
\* raises or the E-STOP's own bus call fails.
NoLeakedLock ==
    /\ \A r \in Runs : (lock = r) <=> (lpc[r] \in Holding)
    /\ \A h \in Hud : (lock = h) <=> (hpc[h] \in {"act", "poll", "on", "onFlag", "cut"})

LockDiscipline == BusNeedsLock /\ NoLeakedLock

\* _calib_start takes phase "paused" to mean that the loop is parked at a step
\* boundary: a step in flight never shows that phase.
PausedMeansParked ==
    \A r \in Runs : phase[r] = "paused" => lpc[r] \in {"gate", "exit", "ended"}

\* "Your command runs first": a command of the planner is never executed while
\* a human command the loop has already drained is waiting.
HumanFirst ==
    \A r \in Runs :
        lpc[r] \in {"vet", "execWait", "exec"} /\ cmd[r] \in {"plan", "done"}
            => pending[r] = 0

\* "False after torque_off() (E-STOP)": with the motors cut the flag is off, so that
\* motions are refused and not silently lost, whichever bus call raises or gives up
\* waiting.  One thing alone breaks it: an E-STOP and a torque_on that cross, so that
\* the motors are cut, or the flag raised, between the two halves of the other.
FlagTellsMotors ==
    (~crossed /\ Stopping = {} /\ \A h \in Hud : hpc[h] # "onFlag") => (torque => motors)

\* The second drain of a step drops what drain_inputs returns.  A stop of the current
\* run that it takes is not lost: the gate will see the event, which the chat worker
\* sets before it queues the directive.
DroppedStopIsSet ==
    \A r \in Runs :
        (/\ r = run /\ lpc[r] = "obey" /\ cmd[r] # "none" /\ batch[r] # <<>>
         /\ Head(batch[r]) = [kind |-> "stop", run |-> r]) => stopEv[r]

-----------------------------------------------------------------------------
(* Action properties.                                                      *)

\* A stop said during one run ends that run and no later one.
StopIsForThisRun ==
    [][\A r \in Runs :
        (lpc[r] = "obey" /\ keep[r] /\ ~keep'[r])
            => Head(batch[r]).run \in {0, r}]_vars

-----------------------------------------------------------------------------
(* Refinement.                                                             *)

Writing == lock \in onBus /\ (Moving(lock) \/ lock = Teleop)

\* Whatever the threads, the timeouts and the polls do, the lock and the flag
\* keep the promise of MotorBus, on which the motions of Grasp rely.
Bus == INSTANCE MotorBus WITH Nobody <- NoThread, Leader <- Teleop, holder <- lock,
                              writing <- Writing, armed <- torque
BusPromise == Bus!Spec

\* Where stops arrive, in the events of the current Control and in q_directives, is the
\* port to which Chat delivers them, for any number of HUD threads, up to a step after
\* which two starts have overlapped: those make two loops, which no port has.
StopSet    == run # 0 /\ stopEv[run]
StopQueued == \E i \in DOMAIN directives : directives[i].kind = "stop"

Port == INSTANCE RunPort WITH going <- Running, stop <- StopSet, queued <- StopQueued
PortPromise == Port!Init /\ [][raced \/ Port!Next]_(Port!vars)

-----------------------------------------------------------------------------
(* Liveness, under Fairness.                                               *)

\* A run whose stop event is set ends, unless it waits for the human to finish
\* a calibration.
StopIsServed ==
    \A r \in Runs : stopEv[r] ~> (lpc[r] \in {"none", "ended", "calWait"})

\* The E-STOP never waits for ever for the bus: whoever holds the lock, the
\* torque call is made and the action returns.
EStopCompletes == \A h \in Hud : hpc[h] = "offPause" ~> hpc[h] = "idle"

\* A pause that no token and no resume undoes parks the run (or the run ends,
\* or waits in a calibration).
PauseParks ==
    \A r \in Runs :
        [](\/ ~[](pauseEv[r] /\ tokens[r] = 0 /\ ~stopEv[r])
           \/ <>(phase[r] = "paused" \/ ~Alive(r) \/ lpc[r] = "calWait"))

=============================================================================
