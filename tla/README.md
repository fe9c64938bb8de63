# Formal models of sortbot

This directory holds TLA+ models of the sorting robot in `src/sortbot`: an
SO-101 arm that a language model plans for, that a human talks to, and that an
operator drives from a browser HUD. The models are about *control*: who may move
the arm when, what a pause, a stop and an E-STOP really do, in which order the
human's words, the planner's answers and the verifier's verdicts reach the arm.
What the language models say, how images are drawn and how angles are solved is
left open: a model answers anything, a plan may be refused, a device may raise.

- `SortSession.tla`: one run of the program: Session, Control, Loop, chat
  worker, teleoperation, motor bus.
- `SortSession_proofs.tla`: theorems about it, for all values of the constants;
  `SortSession_port.tla`: theorems about its runs and stops.
- `MotorBus.tla`: the abstract motor bus, what the lock and the torque flag
  promise to whoever moves the arm; `SortSession_refinement.tla`: that `SortSession` keeps it.
  `Grasp` implements it too.
- `Grasp.tla`: what one step does to the arm: home, tools, verified grasp.
- `Grasp_proofs.tla`: theorems about it.
- `CalibSession.tla`: the teleoperated calibration, its requests, its thread and
  its file; `CalibSession_proofs.tla`: theorems about it.
- `Chat.tla`: from the microphone and the text box to the end of a run;
  `Chat_proofs.tla`: theorems about it.
- `RunPort.tla`: the abstract run, what whoever stops it may count on; `SortSession`
  implements it, until two starts overlap, and `Chat` relies on it.
- `Speech.tla`: what the program says, from `speak` to the worker that plays it;
  `Speech_proofs.tla`: theorems about it.
- `Stores.tla`: what survives a restart, rules and settings; `Stores_proofs.tla`:
  theorems about it.
- `MC*.tla`, `MC*.cfg`: instances for TLC. `PROJECT.json`: which definition
  models which lines, what each run checks, the hazards, the findings.

## The system

| component | state | operations | talks to |
|---|---|---|---|
| **Session** (`main.py`) | `ctl`, `loop`, `thread` of the current run, `directives`, `robot_lock`, devices | the HUD actions: start, pause, resume, stop, step_once, torque_on/off, jog, goto, home, gripper, calib_*, set_*, device connect | creates Control, Loop and its thread; sets Control's events; takes the lock |
| **Control** | `stop_ev`, `pause_ev`, `_steps`, `phase` | `gate`, `grant_steps` | written by Session and the chat worker, polled by the Loop |
| **Loop** | `step`, `pending_actions`, `hints`, `rules`, `holding`, `_pose_cache`, `_calib_requested` | `run`, `drain_inputs`, `execute`, `verify_alignment`, `pick_verified` | gate, directive queue, planner, robot under the lock |
| **DirectiveQueue, ChatWorker** | `q_directives`, the lines not yet answered | `put`, `drain`; urgent path, bare commands, merged chat turns | sets Control's events directly, queues the rest for the Loop |
| **Robot** (`robot.py`) | `torque`, `gripper_open`, `roll_deg`, the arm | `move_to`, `home`, `turn_to`, `open/close_gripper`, `pick`, `place_at`, `torque_on/off` | motor bus |
| **CalibController, CalibSession** (`calibrate.py`) | state of the session, samples, teleop thread | start, capture, undo, finish, cancel; 50 Hz teleop tick | motor bus under the same lock, `phase` of the gate |
| **VoiceIO, RulesStore** (`voice.py`) | `q_heard`, `q_say`, the rules and `rules.json` | microphones, dedupe, speech synthesis; add, remove | the chat worker |
| **models, config** | `config.yaml`, `config.local.yaml` | `yaml_set`, model selection | Session |
| **vlm, perception, hud, calibration** | clients, drawings, web server, fitted homographies | - | Loop, Session |

What makes it hard:

- **Concurrency.** HUD actions run on a thread pool, so two of them interleave.
  Beside them run the Loop, the chat worker, the teleoperation thread, speech
  and `/state` polls. One lock, `robot_lock`, serialises the motor bus. The
  events of `Control` and the `torque` flag are plain shared state that is
  tested here and used there.
- **E-STOP.** `torque_off` clears the flag at once, pauses the run, and then
  waits a bounded time for the lock: it must not depend on whoever holds the
  bus. Everybody who moves the arm has to notice the flag.
- **Ordering.** A spoken stop is both an event and a queued directive. A command
  can arrive while the planner thinks. A step drains its inputs twice.
- **Beliefs.** `holding`, `gripper_open`, `roll_deg`, `_pose_cache`, `phase` are
  what the program believes about the arm and the run. Refused plans, motions
  cut short and the operator's own motions make them differ from the truth.
- **Files.** `calib.json`, `rules.json` and `config.yaml` are written in place: a
  crash, a full disk or another writer can come between the opening and the write.
- **Timeouts.** Every lock acquire of a HUD action has one, and what happens
  after it fails differs from action to action.

What makes each component correct is stated as the properties below; the full
list of hazards with their lines is `hazards` in `PROJECT.json`, including those
that no property covers yet, each with the reason.

The modules meet at these points. `SortSession` and `Grasp` share the motor bus,
whose promise is `MotorBus`: both implement it, `SortSession` with its threads and one
tick as a write, `Grasp` with the motions and one leg as a write. `CalibSession` shares it too, but for the bus only the
tick and the start matter, and those are in `SortSession`: `CalibSession` is about
the lock of a session, which is held *around* the bus lock and never the other way.
`Chat` hands stops to a run through the stop event and the directive queue: what it
takes for a run is `RunPort`, and `SortSession` implements `RunPort` as long as no two
starts overlap.
`Speech` and `Stores` share nothing with the others but the threads that call them.

## SortSession

Models `main.py` (`Control`, `DirectiveQueue`, `Loop.run`, `drain_inputs`, the
Session's run, torque and motion actions, `_chat_urgent`), the ends of
`calibrate.py` that touch the bus, and the torque flag of `robot.py`.

A run number stands for one `Control`, one `Loop` and one thread, which `start`
creates together. `lpc[r]` is where that thread is in `Loop.run`, `hpc[h]` where
HUD thread `h` is inside its action, `cpc` where the chat worker is in the urgent
path. `step`, `tokens`, `phase`, `stopEv`, `pauseEv` are the fields of the same
names. `cmd[r]` is the command in hand in a step, by who gave it; `pending[r]`
the length of `pending_actions`; `batch[r]` what a drain took and has not obeyed.

A HUD action is several actions here, one per point where another thread can
come in between: `Resume` tests the torque and `ResumeClear` clears the event;
`Start` tests `_running()` and `Install` replaces the run; `Request` tests
whether hands are free and `TryLock` gets the lock up to two seconds later. Of the
Loop, `GatePass` is the gate's answer and `StepBegin` what `run` does with it: a stop
or a pause that comes between the two is too late for that step.

The bus: `BeginWrite` is a tick of a motion that has tested `torque` and enters
its write, `LandWrite` the same write arriving. A homing, a bare command, a motion of
the operator and every command but "done" is such a motion (`Moving`), a bare command
in the second drain of a step too, whatever the planner has answered. `late` counts
their writes that land after the flag was cleared. The teleoperation moves the arm
without a look at the flag: `TeleopWrite` and `TeleopRelease` are its tick.
`EnableMotors`/`RaiseFlag` and `OffPause`/`CutMotors` are the two halves of `torque_on`
and `torque_off`; `Timeout` is an acquire that gave up (the E-STOP then goes on
without the lock).

Three variables are history. `said` is the run in which a stop was said, `raced` that
two starts have overlapped, `crossed` that since the last E-STOP began an E-STOP and a
`torque_on` have crossed: the motors were cut, or the flag raised, between the two
halves of the other. HUD actions run on a thread pool, so both can happen, and what
they break is stated as an exception and not assumed away.

| run | constants | checks |
|---|---|---|
| `session_port` | 2 HUD threads, 2 runs of 1 step; start, stop and single step, stops by voice | `DroppedStopIsSet`, `PortPromise` |
| `session_bus` | 2 HUD threads, 1 run of 1 step, every action but stop | `TypeOK`, `PausedMeansParked`, `HumanFirst`, `LockDiscipline`, `OneLateWrite`, `FlagTellsMotors`, `BusPromise` |
| `session_live` | 1 HUD thread, 1 run of 2 steps, fair | `StopIsServed`, `EStopCompletes`, `PauseParks` |

- `PausedMeansParked`: `_calib_start` takes phase `paused` to mean that no motion
  is going. A step in flight never shows that phase. (That the run is resumed between
  the read of the phase and the start of the session is another matter: see below.)
- `HumanFirst`: an answer of the planner is never executed while a command of
  the human that has been drained is waiting.
- `FlagTellsMotors`: with no torque action in progress and the motors cut the torque
  flag is off, so that a motion is refused and not silently lost, whichever bus call of
  the torque actions raises or gives up waiting, unless an E-STOP and a `torque_on` have
  crossed.
- `DroppedStopIsSet`: the second drain of a step does not look at what `drain_inputs`
  returns. A stop of this run that it takes is not lost, because the chat worker sets the
  event before it queues the directive, whatever starts and ends in between.
- `LockDiscipline`: the threading invariant of `main.py`'s docstring, with its one
  exception, an E-STOP that gave up waiting (`BusNeedsLock`), and the lock held by
  nobody outside a locked call, whatever raised in it (`NoLeakedLock`).
- `OneLateWrite`: after the flag is cleared one write of a motion that has passed its
  test may land, and no second one, however many loops, bare commands and actions were
  about to move. The teleoperation's ticks are no motions: they go on until the session
  ends.
- `BusPromise`: `SortSession` implements `MotorBus`, whose three variables are the
  holder of the bus, whether it is writing (`Writing`: the lock's owner is on the bus,
  inside a motion or in a tick of the teleoperation), and the flag. In it the flag goes
  off at any moment; a motion's write begins only while it is on; a tick of the
  teleoperation needs no flag, but the bus, so that it never falls into a motion; and the
  flag comes back on only by a holder that is not writing: never in the middle of
  somebody's motion. `Grasp` takes that last part for granted.
- `PortPromise`: `SortSession` implements `RunPort`: a run begins only when the last has
  ended, with a stop event of its own; no pause, Resume, step or E-STOP takes a stop
  back; a stop in the queue stays there until a run that is going takes it. This is
  what `Chat` builds on. It is stated up to a step after which two starts have overlapped
  (`raced`), for those make two loops, which no port has.
- `StopIsServed`, `PauseParks`, `EStopCompletes`: stop, pause and E-STOP take
  effect.

**Bounds.** A stop, a drain and the planner's answer meet inside one step; that a
stop or a pause is served in a later one is in `session_live`, with two. What a run
leaves behind, a directive, a token or an event, shows in the next run: two of them in
`session_port`. One token and one queued directive are enough to be left over.
Two HUD threads are needed for every race between two actions and for the E-STOP to
meet a motion that holds the lock; the proofs cover any number of them.

**Fairness.** Weak on each thread (the Loop, the chat worker, a HUD action once
called, the teleoperation's release): the operating system schedules them. Strong on
leaving a motion (`Release`, `ActDone`: a plan has a fixed number of ticks and
`_settle` a timeout, so a motion ends although ticks go on being possible) and
on the Loop's acquires of a lock that is free again and again (`Acquire`,
`Look`, `CalibBegin`: an assumption about the lock, which Python's `threading`
does not promise formally). None on the operator, on speech, on
finishing a calibration, or on the teleoperation's next tick.

**Deadlock** is not checked in these runs: with no run going and nothing said the
server waits for the operator, and when a bound is used up the model stops.

### Disagreements between the code and what it says

Each is a run that TLC ends with a counterexample; `findings` in `PROJECT.json`
quotes the line.

| run | what happens |
|---|---|
| `session_stale_stop` | A spoken stop ends the run at the gate through `stop_ev`; its directive stays queued and ends the *next* run at its first drain. |

The model shows more, for which no run is kept:

- Two concurrent Starts both find no run going and create two Loops on one arm,
  the first of which no longer answers to Stop (`Start`, `Install`); `main.py:1000`
  says "one Loop thread at a time". `OneLoop` and `PortPromise` hold until then.
- A manual motion admitted while no run was going, or the run was paused, waits up to
  two seconds for the lock and then moves the arm in the middle of a running run,
  because another request's Start or Resume came meanwhile (`main.py:1600` refuses
  that).
- A Resume that tested the flag before an E-STOP lifts the E-STOP's pause
  (`Resume`, `OffPause`, `ResumeClear`). For this one and the one before there is no
  property: what remains without the second request is the guard itself.
- A `torque_off` between the two halves of a `torque_on` leaves the flag on and the
  motors off (`crossed`).
- `_calib_start` finds the loop parked, the loop is resumed, and the session starts
  (`CalibStart`, `ResumeClear`, `CalibGo`). Start, Resume and Step do not look at a live
  calibration either, so the Loop and the leader arm drive the follower in turns.
- A token of a single step that a Resume left over is spent in a later pause.
- The teleoperation's tick does not test the flag: an E-STOP is fought until the session
  ends.
- `README.md` of the repository says that a spoken stop fires `torque_off()`; the
  code sets the two events only (`ChatPause`, `ChatStop`).

### What is simplified

- `start`'s five assignments are one step (`Install`), and so are the tests of one
  round of `gate`: a stop set between two of them comes, as one between the gate and
  `StepBegin` does, too late for this step.
- All three devices are connected: refusals for a missing device, `_set_device`,
  `shutdown`, `set_max_steps` and `set_task` are left out, as are rules, hints
  and `ask_human` (they do not touch the arm or the events).
- A motion is any number of ticks; what it does to the arm is in `Grasp`.
- `calib.start` is one step, taken when the lock is free (`CalibSession` has its parts).
- `MaxTokens` and `MaxDirectives` cap counters that the code leaves unbounded;
  the guards that use them are those of `StepOnce` and `Hear`.

## Grasp

Models `Loop.run`'s homing and pose reads, `_run_bare`, `execute` with the
updates of `holding`, `pick_verified`, `verify_alignment`, and `robot.py`'s
`_run`, `move_to`, `home`, `_goto_joints`, `_settle`, gripper, `turn_to`, `pick`
and `place_at`. `SortSession` shows that the calls on the arm are serialised by
the lock and that only the E-STOP acts in the middle of one: that is the
interface between the two modules, and why `Grasp` has one call at a time.
`EnableBegin` and `EnableEnd` are `torque_on`, a call of its own whose bus call may raise.

`call` is the locked call and where the Loop is in it; `prog` the robot
operations it has still to do; `legs` the waypoints of the current one. An
operation is planned as a whole (`OpStart`) and refused as a whole: by the
envelope or the inverse kinematics, a free choice here. `LegStart` and
`LegAbort` are the two tests of the torque flag that raise `SafetyError`;
`LegEnd` is a leg that returns *normally*, which it does at its waypoint or short of
it: `_settle` returns after its timeout, on a stall and when the torque is cut under it,
with a line in the log, and does not look at the gripper. `short` is history: a leg of
this command stopped short with the torque *on*.
`at`, `jaws`, `objX`, `inJaws` are the world; `gripOpen`, `roll`, `pose` and
`holding` are what the program believes of it.

| run | checks |
|---|---|
| `grasp_verified` | `TypeOK`, `CorrectionBounded`, `RetreatsOpen`, `ClosesChecked`, `PickTakes`, `BusPromise`, `CallEnds` |

- `ClosesChecked`: a pick or close tool closes the jaws only after the verifier
  accepted this very command, whatever stalls; and a pick closes them *at the accepted
  point*, at grasp height, E-STOPs in the middle of any motion included, unless a motion
  of the command stopped short with the torque on. The reason is not
  local: a leg cut short by an E-STOP returns success, and only the flag test at
  the start of the next leg keeps the jaws from closing elsewhere.
- `PickTakes`: a pick that sets `holding` has the object in the jaws, if the object
  lay at the point the verifier accepted; no leg that an E-STOP cut makes it a lie, only
  one that stopped short by itself.
- `RetreatsOpen`: a pick that is not confirmed comes up with the jaws open, whatever
  E-STOPs came, unless a motion of the command stopped short (`open_gripper` then says
  ok with the jaws as they were).
- `CorrectionBounded`: after `i` looks the jaws are within `i - 1` clamped
  nudges of the commanded point.
- `BusPromise`: `Grasp` implements `MotorBus`: the holder is the thread of the call, a leg
  is a write. No leg starts with the torque off or outside a call, also where calls nest
  and retry (a home refused by the plan goes straight to the joints, a nudge is a second
  motion of the same call), and no call gives the bus back inside a leg. In the middle of
  a call others do an E-STOP and no more, which is what `SortSession` provides.
- `CallEnds`: with a fair call (it runs in one thread and each leg has a fixed
  number of ticks) every call gives the lock back, whatever the verifier says.

**Bounds.** `MaxX = 2` gives three coordinates: the asked one, a corrected one and
home's, so that "closes where it was accepted" differs from "where it was
asked". The bare commands are a close and a homing, the operator's motions an open
and a homing: each changes what the next call starts from. `Tries = 3` (`grasp.max_retries` 2) gives an accepted first look,
one accepted after one and after two corrections, and a give-up. Offsets `-2, 0, 1`
are beyond the clamp, unusable and within it. Deadlock is checked: the Loop can
always begin another step.

`Verify = TRUE` in every run: `config.yaml` ships with `grasp.verify: false`, in
which case `pick_verified` is `robot.pick` and the requirement that
`verify_alignment` states is switched off by the operator.

The model shows five disagreements without a run of their own. A motion that times out
or stalls with the torque on answers ok (`robot.py:302`): a pick may close away from the
accepted point and set `holding` with nothing in the jaws, and only the log knows, also
when the gap is large enough for a warning. A `turn_to` is lost:
the step of the pick that follows homes first, `home` resets `roll_deg`, and a pick
is never made at the angle the planner set (`vlm.py:45` offers it for that). A
pick whose last lift is refused leaves the object in the jaws and `holding` empty,
and so does an `open` that the torque flag refuses. A spoken "close" closes the
gripper with no look (`BareBegin`), against the requirement that `verify_alignment`
states. After the operator opens the gripper, `holding` still names the object that
fell (`ManualEnd` leaves it alone).

**Simplified.** One table coordinate stands for two (they are treated alike).
The arm does not sag when the torque is cut, and a leg that is cut or stops short leaves
the arm, and the jaws, at the leg's start or its end. `placed`, the counters and the messages are left out.
Motions of the operator run between two calls: within one, the lock keeps them
out. One grasp height: a live change of the trim inside a pick is a hazard that is
listed without a property.

## CalibSession

Models `calibrate.py`'s `CalibController` (start, trigger, `_end`) and `CalibSession`
(teleop loop, capture, undo, drop worst, touch table, finish, cancel), the save and
load of `calibration.py`, and `_calib_done` of `main.py`.

`cs[s]` is a session, `tel[s]` its teleop thread, `call[h]` a request of HUD thread
`h` with the session it read from `controller.session`, `cur` that field itself. The
requests that hold the session's lock from their first test to their last write are
one action each (`Capture`, `Undo`, `DropWorst`, `TouchTable`, `Cancel`) that waits
for the lock (`Has`, `Free`). Finish is cut where others can see it: the checks
(`FinishRefused`, `FinishBlocked`, `FinishAccepted`), the copy to `.bak`, the write,
and after the lock `End` and `Load`. A start is three actions: `Start` tests for a running
session, `Install`, after the connection of the leader, puts a new one into
`controller.session`, and `Go` is `self.session.start()`, which reads that field again and
takes no lock: it starts whatever session is there by then, also one that a Cancel has
ended meanwhile (`undone`, history), whose stop event stays set. `drives[t]` is the
session the thread `t` was launched for. A sample
is the pose it was taken at; `Fit`, `Problems` and `Worst` say of the samples what the
code tells apart: too few, on one line, off. `main`, `bak` and `loaded` are whose
calibration is in `calib.json`, in its backup and in the robot.

| run | constants | checks |
|---|---|---|
| `calib_saved` | 2 HUD threads, 2 sessions, 1 pose, 1 sample, 1 fault; start, capture, undo, finish, cancel | `TypeOK`, `SavesAFit`, `SavedIsLoaded`, `NoStragglerTick`, `LastCopy` |
| `calib_live` | 2 HUD threads, 1 session, 2 poses, every button but the forced Finish, fair | `TeleopEnds`, `CallsReturn` |
| `calib_override` | 1 HUD thread, 2 poses, one of them off | `ToldBeforeSaved`, violated |

- `SavesAFit`: whatever other requests and the teleop thread do in between, a save
  happens in a session that has not ended, with a fit of the samples it has then. A
  session that was cancelled before its `start()` runs all the same, and is excepted.
- `NoStragglerTick`: the loop tests its stop event without the lock and takes the
  lock later; still no tick comes after the end of the session, and none in a session
  that was ended before its thread was launched. Unless sessions overlapped, the
  session of a tick is the controller's, and not in error.
- `LastCopy`: a save that fails, or a crash in it, never takes the last intact
  calibration. The condition is real: after a *failed* save `calib.json` is torn, the
  next Finish copies the torn file over the good `.bak`, and a second fault
  destroys both (`calibration.py:418` says "can never destroy a good one").
- `SavedIsLoaded`: when all requests have returned, the robot uses what the fitted
  session saved, although `_end` and `_calib_done` look at the controller's session of
  that moment. It says nothing of a session whose `fitted` was overwritten before `End` by
  a Cancel or by the error of a tick: that file is saved and not loaded.
- `TeleopEnds`, `CallsReturn`: Finish and Cancel end the thread, one that is launched
  only after them included; nobody waits for the session's lock for ever.

`raced` marks that a session was replaced before it was started, or before it and its
save were over: two Starts at once, the second of which leaves the first session's thread
without an owner, or is started twice while the other never is. `SavedIsLoaded`, the second
half of `NoStragglerTick` and `LastCopy` are stated for what has not been replaced this way.

The undone Cancel is a disagreement without a run of its own: Cancel answers "cancelled
(nothing written)" (`calibrate.py:327`), `start()` then shows the session running with a
thread that ends at once, and captures and a Finish in it write `calib.json`.

`calib_override`: the "nothing changed" that lets a second Finish override a warning
is the number of samples and the table height. After an undo and a capture both are
as before, and Finish saves with a problem that was never shown.

**Bounds.** Two sessions are needed for a replacement, two HUD threads for every race
of two requests, the one of a Cancel with a start included. One sample decides between
"too few" and "a fit" when `Least` is 1 (the code's 4 and 8 are constants), and is all
that `calib_saved` needs; there `Enough` is 1 too, so that the first Finish is accepted;
whether a warning may be overridden is asked in `calib_override`. In the others two poses let samples be on one line, off, dropped
and exchanged. One fault: what a single failure may do.

**Fairness.** Weak on each HUD thread once its request is made and on each teleop
thread. None on the operator. **Deadlock** is not checked: with the sessions used up
and nothing pressed, the model stops.

**Simplified.** The join of Finish and Cancel gives up after two seconds, so `End` may
come while the thread still runs. The motor bus, the colour of the target, the frames
and `status` are left out. A crash names the sessions' files "old": after a restart
nobody knows them.

## Chat

Models `voice.py`'s `push`, `_on_partial`, `_on_final`, `mic_on`, `mic_off`, its urgent
and bare patterns, `main.py`'s `ChatWorker` and `_chat_urgent`, and of a run its start,
its gate and its drains.

`said` is the list of lines with what became of each; `mic` the stream: the line being
heard, the interim transcripts still to come, `_partial_urgent` (`fired`). A push is two
actions, because the test for an echo (`Type`, `OnFinal`) and the queueing (`Put`) are
not under a lock; the window of `DEDUPE_S` ends at any time (`WindowEnds`). `Drain`
takes everything queued as one turn; the patterns are then applied to the lines
joined, so a "stop" behind another line no longer matches (`Stops`). A turn is
answered at once or by the model (`Answer`, `ModelFails`).

| run | constants | checks |
|---|---|---|
| `chat_stream` | 1 typist, the stream, 2 lines, 2 runs, 1 cut-off, fair | `TypeOK`, `StreamStops`, `PortPromise`, `StopEndsTheRun`, `LinesAreAnswered` |
| `chat_late_stop` | the stream alone, 3 lines, 1 cut-off | `StopNeverWaits`, violated |

- `StreamStops`: a stop heard by the stream has set the run's events before its sentence
  is queued, and they are still set if that run is still going, so that nothing that
  happens to the line later matters.
- `PortPromise`: what `Chat` takes for a run begins, is stopped and ends as `RunPort`
  says, whichever of the three ways (interim transcript, pattern, model) a stop takes;
  with `SortSession`'s `PortPromise` it is the run the Session gives.
- `StopEndsTheRun`: a stop said in a run ends that run, past push, queue, worker and
  gate. The exceptions are the three ways in which the code loses one: its line is
  merged behind another, it is taken for the echo of a line of another run or of one
  that was merged (`Swallowed`), the stream ends in the middle of it.
- `LinesAreAnswered`: every line leaves the queue and the turn; an exception of the
  model does not end the worker (the lines of that turn are lost).

`chat_late_stop`: `_partial_urgent` is reset only by the end of a sentence. When the
microphone is switched off in the middle of a "stop", the next "stop" fires nothing from
its interim transcripts; merged behind another line it goes to the model.

**Bounds.** Two lines are needed to merge, echo and overtake, two runs for a stop to be
late for its run; a third line, for the cut-off and a merge, is in `chat_late_stop`.
**Fairness.** Weak on the pushers, the stream's callbacks, the worker and the gate:
threads run, the transcription and the model answer or raise. None on the human.
**Deadlock** is not checked: nobody has to speak.

**Simplified.** Five texts stand for the classes of the patterns. A pause and the other
directives do nothing to a run here (`SortSession` has them). A stop that the second
drain of a step takes may or may not end the run (`DrainInputs`): its result is not
looked at, the event is. The chunk loop and
push-to-talk are pushers of whole lines. Rules and hints are "told".

## Speech

Models `speak` and `_speak_loop` of `voice.py`, with the threads that call the first: the
Loop and the HUD's, and the conversation, whose replies have priority.

`speak` takes no lock. `Room` looks at the length of the queue and `Drop` drops later, when
the worker or another speaker may have emptied or refilled it; `Put` adds the line; `Alive`
looks whether `_speak_thread` is alive, `Create` assigns a new thread and `Start` starts
whatever thread the field holds by then. A thread assigned and not yet started is not
alive. A worker is at the head of its loop, in its `get` or playing. A line is its number.
`stale[s]` and `raced` are history: what was queued when a call began, and whether two
speakers have been starting a worker at once.

| run | constants | checks |
|---|---|---|
| `speech` | 2 speakers, one of them replying, 4 lines, fair | `TypeOK`, `OneVoice`, `FreshReply`, `LinesEnd` |

- `Backlog`, a part of `TypeOK`: the cap on the queue is tested apart from the put, so it can be exceeded, but
  never by more than one line for each speaker.
- `OneVoice`: two workers are alive at once only if two speakers were starting one at once:
  not through a worker that ended, nor through a test of a thread about to be started.
- `FreshReply`: what was waiting when a reply was given to `speak` is gone when the reply is
  put, and never comes back, whoever drops and puts lines at the same time.
- `LinesEnd`: every line is played or dropped, unless the program shuts down, also when the
  threads of two speakers overwrite each other in `_speak_thread`.

The model shows three things that the code does not say. Two speakers at once start two
workers, which play over each other for the rest of the program, or start one thread twice,
which raises in the second (`main.py:34` promises one worker). A planner's line that has
seen a full queue (`Room`) drops the reply that a conversation has put into the emptied queue
meanwhile (`Drop`), although "a fresh conversational reply always wins" (`voice.py:7`).

**Bounds.** Two speakers for every overlap of two calls; four lines: two that fill the
queue, one that drops them, one that comes meanwhile. **Fairness.** Weak on each call of
`speak` and on each worker: threads run, and synthesis and playback end or fail. None on
whoever has something to say. **Deadlock** is not checked: with all lines said and played
after a shutdown nothing is left to do.

**Simplified.** A client and a player are there; without them `speak` prints and returns.
A line is played within the sixty seconds that `_play` waits (a longer one would go on
under the next).

## Stores

Models `RulesStore` of `voice.py`, `yaml_set` of `models.py` as `set_model` and `set_z_trim`
use it, and `config.load`.

A change of the rules takes the lock (`Change`), opens `rules.json` (`Open`: the file is
empty), writes it (`Write`) and returns (`Saved`); `SaveFails` is an exception at either.
An edit of a setting holds no lock: `Set` changes the live value, `Read` takes the file,
`YamlOpen` and `YamlWrite` replace it. `Crash` comes between any two steps, `Restart` reads
the files. `yaml` is the lines of `Keys` and whether the rest of the file is there.

| run | constants | checks |
|---|---|---|
| `stores` | 2 threads, 2 rules, 2 settings of 2 values, 4 changes | `TypeOK`, `Durable`, `ConfigKept` |

- `Durable`: what was reported saved is what a restart finds, or what a later change was
  about to save, and nothing at all only inside a write or after one that failed.
- `NoTwins`, a part of `TypeOK`: no rule twice, in the list or in the file.
- `ConfigKept` is about `config.yaml`. `SettingsPersist`: as long as no two edits overlap and none fails, a restart loads what
  the HUD set. Two that overlap lose a line, which is why `mixed` is in it.
  `RestSurvives`: the rest of `config.yaml` is lost only by a fault or a crash in a write,
  or by an edit that reads the file while another writes it.

**Bounds.** Two threads and two keys for an overlap, two rules for an order, four changes
for a success after a failure beside an overlap. **Fairness.** None: a change whose lock
is free and whose file system answers returns, and no property says more. **Deadlock** is not checked:
without its sections `config.yaml` is an error and the program does not start.

**Simplified.** A file that was cut off in a write is empty: a part of the JSON is read as
no rules just as well. The other thing a lost write does is visible without a property:
a rule whose save failed is in memory, and telling it again is answered "rule added"
without a save, because it is there already (`NoChange`).

## What is proved

`SortSession_proofs.tla`, for every set of HUD threads, every number of runs,
steps, tokens and queued directives, from the named assumptions on the constants
(bounds are naturals, at least one run and one step; threads are distinct):

| theorem | property |
|---|---|
| `TypeCorrect` | `[]TypeOK` |
| `LockHolds` | `[]LockDiscipline` |
| `EStopStopsWrites` | `[]OneLateWrite` |
| `DropIsSafe` | `[]DroppedStopIsSet` |
| `PausedIsParked` | `[]PausedMeansParked` |
| `HumanGoesFirst` | `[]HumanFirst` |
| `FlagIsHonest` | `[]FlagTellsMotors` |

None assumes anything of the requests: any number of them are in progress at once.

The argument for the bus. `BusNeedsLock` and `OneLateWrite` are not inductive.
`BusInv` strengthens them by: runs are installed in order, so a thread with a
larger number than `run` does not exist yet (`RunsInOrder`); the lock is held
exactly by the threads inside a locked call (`NoLeakedLock`); while `torque_on`
is about to raise the flag nobody is in a write (`FlagOffBus`); and `LateInv`: the
writes that have landed late, plus the one the lock owner may have in flight
while the flag is off, are at most one. A write begins only with the flag on, so a
second late write would need a second writer on the bus, which the lock excludes.
Each action preserves the conjunction; TLC checked it before it was proved.

`FlagIsHonest`: an E-STOP in progress has cleared the flag, a `torque_on` between its
halves has enabled the motors, and a flag that is on has motors behind it, unless an
E-STOP is in progress or the two have crossed (`HalfWay`). Whichever call raises, it
raises before the half that would break this.

`DropIsSafe`: a queued or drained stop carries the run it was said in, and none of a run
that has not begun; one of the current run has its stop event set, which nothing clears
(`StopLabels`). A Start makes all that is queued a matter of an earlier run.

`SortSession_port.tla`, for any number of HUD threads, runs, steps, tokens and directives:

| theorem | property |
|---|---|
| `OneLoopHolds` | `[](raced \/ OneLoop)`: the only loop that is alive is the one the Session knows |
| `SessionImplementsPort` | `PortPromise` |

A start is check-then-act code: `_running()` is tested and the run is created later, without
a lock. `Lifecycle` says that until two starts overlap at most one action is about to create
a run, and the run before has ended (`OneStart`): nothing but a start begins a run, so what
it has tested still holds when it acts. `SessionImplementsPort` needs `OneLoop`: a thread
that ends or drains is then the run the port means (`LoopPort`), and the event that is set
is its own (`StopPort`). Without `raced` both are false: TLC finds the two Starts.

`SortSession_refinement.tla`:

| theorem | property |
|---|---|
| `SessionImplementsBus` | `BusPromise` |

Initial states map to the free bus. A thread that is not in its locked call
changes nothing the abstract bus sees (`LoopElsewhere`, `HudElsewhere`, by
`NoLeakedLock`); the others are a `Take`, `Give`, `Write`, `Land`, `Disarm` or `Arm`, and
the teleoperation's tick is a `Follow` and a `Followed`.
The step that needs the invariant is `RaiseFlag`: its thread owns the lock and is
in no write, and so nobody is.

`Grasp_proofs.tla`, for every table, number of tries, clamp and home:

| theorem | property |
|---|---|
| `TypeCorrect` | `[]TypeOK` |
| `NudgesBounded` | `[]CorrectionBounded` |
| `RetreatKeepsOpen` | `[]RetreatsOpen` |
| `VerifiedCloses` | `ClosesChecked`, if `Verify` |
| `PickTakesObject` | `PickTakes` |
| `GraspKeepsBus` | `BusPromise` |

The inductive invariant says, per call, which operations it has still to do
(`ProgShape`) and what is known of the jaws and the arm *as long as the torque flag is on*
(`JawsKnown`, `GraspKnown`): at the last leg of a grasp the arm is at the accepted
point, in a retreat the jaws are open. A leg that an E-STOP cuts leaves the arm
anywhere and returns normally, but then the flag is off, it stays off to the
end of the call (the promise of `MotorBus`), and no further leg starts: either
what is known holds or nothing will move. `ShiftKnown` and `CorrectionBounded`
carry the bound on the corrections over the retries, and `AcceptedInv` that a
closing call has an accepted verdict. A leg that stops short with the torque on sets
`short` for the rest of the command, and what is known is known unless `short`.
`TakenInv` follows a grasp to its end: unless it is
cut, it descends and closes with the jaws open and lifts with the object between them.
`GraspKeepsBus` needs of the invariant that a call that is over or looking is in no leg
(`CallShape`): then giving the bus back is a `Give`, and `EnableEnd` an `Arm`.

`CalibSession_proofs.tla`, for any threads, sessions, poses, bounds and faults:

| theorem | property |
|---|---|
| `TypeCorrect` | `[]TypeOK` |
| `SavesAFitHolds` | `[]SavesAFit` |
| `SavedIsLoadedHolds` | `[]SavedIsLoaded` |
| `NoStragglerTickHolds` | `NoStragglerTick` |
| `LastCopyHolds` | `LastCopy` |

The invariant has one conjunct per reason: a request's session was installed (`Shape`),
a start has one thread to launch and nobody else launches it (`Launches`), at most one
save per session (`Locks`), whoever ends a session sets its stop event and a start leaves
it set (`Stops`), without a race what runs, is saved or is about to be started is the
controller's session (`Solo`), an intact `calib.json` is overwritten only when its copy is
complete (`Copied`), and a fitted session is loaded or a request is on its way to load it
(`Announced`). Each is one lemma per step.

`Chat_proofs.tla`, for any pushers, texts and bounds:

| theorem | property |
|---|---|
| `TypeCorrect` | `[]TypeOK` |
| `StreamStopsHolds` | `[]StreamStops` |
| `ChatKeepsPort` | `PortPromise` |

For the first: the stop in the microphone is served, or the transcript that serves it is to
come and what fired before was not a stop; between two lines nothing has fired, unless one
was cut off (`Stage`); and a stop that was served in a run has set that run's event, which
nothing takes back while it goes on (`Evented`). For the port each action is one of
`RunPort` or none; the step that needs an invariant is the stop event set before the first
run, where there is no Control to set it in (`NoControl`).

`Speech_proofs.tla`, for any finite set of speakers, any replies and number of lines:

| theorem | property |
|---|---|
| `TypeCorrect` | `[]TypeOK`, with `Backlog` |
| `OneVoiceHolds` | `[]OneVoice` |
| `FreshReplyHolds` | `[]FreshReply` |

A speaker that has seen room counts as if its line were queued (`Capped`). A line in a
speaker's hand was never queued, so it belongs to nobody's stale backlog, and no line is in
two hands (`Hands`): what is put never brings back what was dropped. Without a race one
speaker at a time is starting a worker, and from its test to its start no worker is alive
(`Solo`).

`Stores_proofs.tla`, for any threads, rules, keys, values and bounds:

| theorem | property |
|---|---|
| `TypeCorrect` | `[]TypeOK`, with `NoTwins` |
| `DurableHolds` | `[]Durable` |
| `SettingsPersistHolds` | `[]SettingsPersist` |
| `RestSurvivesHolds` | `[]RestSurvives` |
| `ConfigKeptHolds` | `[]ConfigKept`, from the two |

For the rules: a save is made by the owner of the lock (`Locked`), what is being written
is the list as it is (`Current`), and with nobody in a save the file is what was
reported or a failed save's nothing (`AtRest`). For the settings: unless `mixed` one edit
is alone (`Alone`) and its copy, with its own line replaced, is what is in use (`Mine`); a
copy is whole unless it was read inside a write (`CopyWhole`).

## What is only model-checked, and why

Liveness (`StopIsServed`, `EStopCompletes`, `PauseParks`, `CallEnds`, `TeleopEnds`,
`CallsReturn`, `StopEndsTheRun`, `LinesAreAnswered`): the proof system
does not handle fairness and ENABLED; the same for `LinesEnd`. Every other property of a
passing run is a theorem.
The findings are counterexamples; there is nothing to prove about them.

## What is not modelled, and why

Nearly all of the repository is vendored: `src/lerobot` is a third-party library of
robot drivers, datasets, policies and training code, of which sortbot uses the motor
bus, the cameras and the kinematics. The models are of `src/sortbot`, the program
itself; the library appears in them as devices that answer or raise.

Of `src/sortbot`: inverse kinematics and homography fits are least squares over reals.
Prompts, HTTP, JSON and drawing are I/O or wording. `hud.py` is a web server: its one
consequence, concurrent actions, is in `SortSession`. The transcript and the decision log
are lists under one lock each. `testing.py` and `calibrate_aruco.py` are fixtures and a
one-shot script. The arithmetic of the envelope, and connecting,
disconnecting and shutting down devices could be modelled and are in the plan.

## Plan

1. The depth trim changed live between the verifier's look and the grasp, in `Grasp`.
2. Devices of the Session: connect, disconnect and shutdown against a run.
3. `Envelope`: `grasp_z`, `check_target` and the validator's floor as integer arithmetic.
4. An abstract promise of `Grasp` to its caller (a call ends with the arm at rest and the
   jaws as reported), and of `Stores` to a restart, with the refinements proved.
