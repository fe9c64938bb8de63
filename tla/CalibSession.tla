------------------------------ MODULE CalibSession ------------------------------
(***************************************************************************)
(* The teleoperated calibration: CalibController and its CalibSessions.    *)
(*                                                                         *)
(* The HUD's thread pool calls the triggers.  A Start installs a session   *)
(* and then starts the one that controller.session holds: its teleop       *)
(* thread, named here after the session that was installed, copies the     *)
(* leader to the follower.  A trigger reads controller.session first and   *)
(* takes that session's lock later.                                        *)
(* Finish holds the lock from its checks to the end of the save, and goes  *)
(* on without it: it joins the teleop thread and loads the calibration     *)
(* into the robot.  Every other trigger is one step under the lock.        *)
(* The motor bus, which each tick takes too, is SortSession's.             *)
(*                                                                         *)
(* A sample is the pose it was taken at; the residuals, the coverage and   *)
(* the fit are functions of the samples, told apart as far as the code     *)
(* tells them apart: too few, off, no fit at all.                          *)
(***************************************************************************)
EXTENDS Naturals, Sequences, FiniteSets

CONSTANTS
    Hud,          \* HUD request threads
    Sessions,     \* bound: the sessions of one process
    NoSession,    \* controller.session is None
    Ops,          \* the buttons the operator may press
    Poses,        \* where a sample can be taken, far enough apart
    Off,          \* poses whose sample is nudged or misdetected
    Line,         \* poses on one line: samples of these alone have no fit
    Least,        \* samples a save needs (4)
    Enough,       \* usable samples a save needs to be trusted (8)
    MaxSamples,   \* bound
    MaxFaults     \* bound on write errors and crashes

ASSUME SampleAssumption ==
    /\ Least \in Nat \ {0} /\ Enough \in Nat /\ MaxSamples \in Nat /\ MaxFaults \in Nat
    /\ Off \subseteq Poses /\ Line \subseteq Poses
ASSUME NameAssumption ==
    /\ NoSession \notin Sessions
    /\ {"old", "absent", "torn", "few"} \cap (Sessions \cup Poses) = {}
ASSUME OpsAssumption ==
    Ops \subseteq {"start", "capture", "undo", "drop", "touch", "finish", "force", "cancel"}

VARIABLES
    cur,     \* controller.session
    cs,      \* the sessions: state, stop event, samples, z_off, blocked signature,
             \* and (history) the problems the last refused Finish listed, and whether
             \* it was started after it had been ended
    tel,     \* where each teleop thread is
    drives,  \* the session it belongs to
    call,    \* what each HUD thread is doing, and on which session
    main,    \* calib.json: whose it is, "old", "absent" or "torn"
    bak,     \* calib.json.bak
    loaded,  \* whose calibration the robot uses
    raced,   \* history: a session was replaced before it was started, or before it
             \* and its save were over
    faults   \* write errors and crashes so far

vars == <<cur, cs, tel, drives, call, main, bak, loaded, raced, faults>>
files == <<main, bak, loaded, faults>>
teleop == <<tel, drives>>

-----------------------------------------------------------------------------
(* The data of a session.                                                  *)

PosesOf(smp) == {smp[i] : i \in DOMAIN smp}

\* _refit: H is None with too few samples or degenerate ones.
Fit(smp) == Len(smp) >= Least /\ ~(PosesOf(smp) \subseteq Line)

\* _problems.  Without a fit nobody knows which samples are off.
Usable(smp) == IF Fit(smp) THEN PosesOf(smp) \ Off ELSE PosesOf(smp)
Problems(smp) ==
    (IF Cardinality(Usable(smp)) < Enough THEN {"few"} ELSE {})
    \cup (IF Fit(smp) THEN PosesOf(smp) \cap Off ELSE {})

\* The index of a sample that the fit disagrees with most.
Worst(smp, i) ==
    i \in DOMAIN smp /\ (PosesOf(smp) \cap Off # {} => smp[i] \in Off)

NoSig == [n |-> 0, z |-> "none"]
Signature(s) == [n |-> Len(cs[s].samples), z |-> cs[s].z]

Fresh == [state |-> "none", stop |-> FALSE, samples |-> <<>>, z |-> "none",
          sig |-> NoSig, shown |-> {}, undone |-> FALSE]
Idle  == [pc |-> "idle", op |-> "none", s |-> NoSession]

active == cur # NoSession /\ cs[cur].state = "running"

\* The holder of a session's lock between two steps is in the middle of a save.
Saving(h) == call[h].pc \in {"copy", "write"}

\* mutants of Free: no lock, and a lock that is not re-entrant
FreeAlways(s) == TRUE
FreeOnce(s)   == \A h \in Hud : call[h].pc \in {"call", "copy", "write"} => call[h].s # s
Free(s)       == \A h \in Hud : Saving(h) => call[h].s # s

\* What a reader of calib.json finds: a write in progress has truncated it.
Seen == {main} \cup (IF \E h \in Hud : call[h].pc = "write" THEN {"torn"} ELSE {})

Init ==
    /\ cur = NoSession
    /\ cs = [s \in Sessions |-> Fresh]
    /\ tel = [t \in Sessions |-> "none"]
    /\ drives = [t \in Sessions |-> NoSession]
    /\ call = [h \in Hud |-> Idle]
    /\ main \in {"old", "absent"} /\ bak = "absent" /\ loaded = main
    /\ raced = FALSE
    /\ faults = 0

Goto(h, pc) == call' = [call EXCEPT ![h].pc = pc]
Return(h)   == call' = [call EXCEPT ![h] = Idle]

-----------------------------------------------------------------------------
(* CalibController.start.                                                  *)

\* The test and the installation are apart: between them the leader connects.
Start(h) ==
    /\ "start" \in Ops /\ call[h].pc = "idle" /\ ~active
    /\ call' = [call EXCEPT ![h] = [pc |-> "start", op |-> "start", s |-> NoSession]]
    /\ UNCHANGED <<cur, cs, teleop, raced, files>>

\* No leader, or a calib.json that does not parse.
StartFails(h) ==
    /\ call[h].pc = "start"
    /\ Return(h)
    /\ UNCHANGED <<cur, cs, teleop, raced, files>>

\* The new session is there for every trigger, and not started.
Install(h) ==
    /\ call[h].pc = "start"
    /\ \E s \in Sessions, old \in Seen \ {"torn"} :
         /\ cs[s].state = "none"
         /\ cur' = s
         /\ cs' = [cs EXCEPT ![s].state = "idle",
                             ![s].z = IF old = "absent" THEN "none" ELSE "kept"]
         /\ call' = [call EXCEPT ![h].pc = "launch", ![h].s = s]
    /\ raced' = \/ raced \/ active \/ (cur # NoSession /\ ~Free(cur))
                \/ \E g \in Hud : call[g].pc = "launch"
    /\ UNCHANGED <<teleop, files>>

\* mutant of Launch: the thread is created and not started
LaunchNot(t) == tel' = tel
Launch(t)    == tel' = [tel EXCEPT ![t] = "test"]

\* self.session.start(), on the session of this moment and without its lock: it runs,
\* whatever a Cancel has made of it meanwhile, and its stop event stays as it is.
Go(h) ==
    /\ call[h].pc = "launch"
    /\ cs' = [cs EXCEPT ![cur].state = "running", ![cur].undone = @ \/ cs[cur].stop]
    /\ Launch(call[h].s)
    /\ drives' = [drives EXCEPT ![call[h].s] = cur]
    /\ Return(h)
    /\ UNCHANGED <<cur, raced, files>>

-----------------------------------------------------------------------------
(* CalibController.trigger, and the triggers that keep the session going.  *)

Trigger(h) ==
    /\ call[h].pc = "idle" /\ cur # NoSession
    /\ \E op \in Ops \ {"start"} :
         call' = [call EXCEPT ![h] = [pc |-> "call", op |-> op, s |-> cur]]
    /\ UNCHANGED <<cur, cs, teleop, raced, files>>

\* h has the lock of its session, to do op.
Has(h, op) == call[h].pc = "call" /\ call[h].op = op /\ Free(call[h].s)

\* A trigger that is one step under the lock, and its refusals.
Edit(h, smp, z) ==
    /\ cs' = [cs EXCEPT ![call[h].s].samples = smp, ![call[h].s].z = z]
    /\ Return(h)
    /\ UNCHANGED <<cur, teleop, raced, files>>

Capture(h) ==
    LET c == cs[call[h].s] IN
    /\ Has(h, "capture")
    /\ c.state = "running" /\ Len(c.samples) < MaxSamples
    /\ \E p \in Poses \ PosesOf(c.samples) : Edit(h, Append(c.samples, p), c.z)

\* Neither looks at the state: they change the samples of an ended session too.
Undo(h) ==
    LET c == cs[call[h].s] IN
    /\ Has(h, "undo")
    /\ c.samples # <<>>
    /\ Edit(h, SubSeq(c.samples, 1, Len(c.samples) - 1), c.z)

DropWorst(h) ==
    LET c == cs[call[h].s] IN
    /\ Has(h, "drop")
    /\ Fit(c.samples) /\ Len(c.samples) > Least
    /\ \E i \in DOMAIN c.samples :
         /\ Worst(c.samples, i)
         /\ Edit(h, SubSeq(c.samples, 1, i - 1) \o SubSeq(c.samples, i + 1, Len(c.samples)), c.z)

TouchTable(h) ==
    /\ Has(h, "touch")
    /\ Edit(h, cs[call[h].s].samples, "touch")

\* Not running, moving, not detected, too close; nothing to undo or drop; a bus error.
Refused(h) ==
    /\ \E op \in {"capture", "undo", "drop", "touch"} : Has(h, op)
    /\ Return(h)
    /\ UNCHANGED <<cur, cs, teleop, raced, files>>

-----------------------------------------------------------------------------
(* Finish and cancel.                                                      *)

Finishes(h) == Has(h, "finish") \/ Has(h, "force")
Ready(s)    == cs[s].state = "running" /\ Len(cs[s].samples) >= Least

\* A warning stands in the way of a Finish that was not pressed twice.
Blocked(h) ==
    LET s == call[h].s IN
    /\ call[h].op = "finish" /\ Problems(cs[s].samples) # {}
    /\ cs[s].sig # Signature(s)

FinishRefused(h) ==
    /\ Finishes(h) /\ ~Ready(call[h].s)
    /\ Return(h)
    /\ UNCHANGED <<cur, cs, teleop, raced, files>>

FinishBlocked(h) ==
    LET s == call[h].s IN
    /\ Finishes(h) /\ Ready(s) /\ Blocked(h)
    /\ cs' = [cs EXCEPT ![s].sig = Signature(s), ![s].shown = Problems(cs[s].samples)]
    /\ Return(h)
    /\ UNCHANGED <<cur, teleop, raced, files>>

\* The table height is taken from the samples before the fit is looked at.
Height(s) == IF cs[s].z = "none" THEN "samples" ELSE cs[s].z

\* mutant of FirstStep: the old file is overwritten at once
FirstStepWrite == "write"
FirstStep      == IF main = "absent" THEN "write" ELSE "copy"

FinishAccepted(h) ==
    LET s == call[h].s IN
    /\ Finishes(h) /\ Ready(s) /\ ~Blocked(h)
    /\ cs' = [cs EXCEPT ![s].z = Height(s)]
    /\ IF Fit(cs[s].samples)
         THEN Goto(h, FirstStep)
         ELSE Return(h)
    /\ UNCHANGED <<cur, teleop, raced, files>>

SaveCopy(h) ==
    /\ call[h].pc = "copy"
    /\ bak' = main
    /\ Goto(h, "write")
    /\ UNCHANGED <<cur, cs, teleop, main, loaded, raced, faults>>

SaveWrite(h) ==
    /\ call[h].pc = "write"
    /\ main' = call[h].s
    /\ cs' = [cs EXCEPT ![call[h].s].state = "fitted", ![call[h].s].stop = TRUE]
    /\ Goto(h, "end")
    /\ UNCHANGED <<cur, teleop, bak, loaded, raced, faults>>

\* The disk is full: the file is left truncated, the error leaves finish().
SaveFails(h) ==
    /\ Saving(h) /\ faults < MaxFaults
    /\ IF call[h].pc = "copy" THEN bak' = "torn" /\ UNCHANGED main
                              ELSE main' = "torn" /\ UNCHANGED bak
    /\ faults' = faults + 1
    /\ Return(h)
    /\ UNCHANGED <<cur, cs, teleop, loaded, raced>>

\* mutant of Cancelled: the teleop thread is not told
CancelledOnly(c) == [c EXCEPT !.state = "cancelled"]
Cancelled(c)     == [c EXCEPT !.state = "cancelled", !.stop = TRUE]

Cancel(h) ==
    /\ Has(h, "cancel")
    /\ cs' = [cs EXCEPT ![call[h].s] = Cancelled(@)]
    /\ Goto(h, "end")
    /\ UNCHANGED <<cur, teleop, raced, files>>

\* After the join, which gives up after two seconds: _end looks at the session the
\* controller has now, on_done at its state.
End(h) ==
    /\ call[h].pc = "end"
    /\ IF cs[cur].state = "fitted" THEN Goto(h, "load") ELSE Return(h)
    /\ UNCHANGED <<cur, cs, teleop, raced, files>>

\* mutant of Loads: a calibration is loaded once
LoadsOnce(file) == IF loaded = "absent" THEN file ELSE loaded
Loads(file)     == IF file = "torn" THEN loaded ELSE file

Load(h) ==
    /\ call[h].pc = "load"
    /\ \E file \in Seen : loaded' = Loads(file)
    /\ Return(h)
    /\ UNCHANGED <<cur, cs, teleop, main, bak, raced, faults>>

-----------------------------------------------------------------------------
(* A teleop thread (_loop).                                                *)

\* mutant of Heeds: the stop event is not tested again under the lock
HeedsNot(s) == "test"
Heeds(s)    == IF cs[s].stop THEN "done" ELSE "test"

\* The stop event is tested without the lock...
LoopTest(t) ==
    /\ tel[t] = "test"
    /\ tel' = [tel EXCEPT ![t] = IF cs[drives[t]].stop THEN "done" ELSE "lock"]
    /\ UNCHANGED <<cur, cs, drives, call, raced, files>>

\* ... and again with it; the tick moves the arm.
Tick(t) ==
    /\ tel[t] = "lock" /\ Free(drives[t])
    /\ tel' = [tel EXCEPT ![t] = Heeds(drives[t])]
    /\ UNCHANGED <<cur, cs, drives, call, raced, files>>

\* The leader, the bus or the camera fails.
TickRaises(t) ==
    /\ tel[t] = "lock" /\ Free(drives[t]) /\ ~cs[drives[t]].stop
    /\ tel' = [tel EXCEPT ![t] = "raised"]
    /\ UNCHANGED <<cur, cs, drives, call, raced, files>>

\* Outside the lock, whatever has become of the session in between.
LoopError(t) ==
    /\ tel[t] = "raised"
    /\ cs' = [cs EXCEPT ![drives[t]].state = "error"]
    /\ tel' = [tel EXCEPT ![t] = "done"]
    /\ UNCHANGED <<cur, drives, call, raced, files>>

-----------------------------------------------------------------------------
(* The process dies and starts again: only the files are left.             *)

Crash ==
    /\ faults < MaxFaults /\ faults' = faults + 1
    /\ \E file \in Seen :
         /\ main' = IF file \in Sessions THEN "old" ELSE file
         /\ loaded' = IF main' = "torn" THEN "absent" ELSE main'
    /\ \E copied \in {bak} \cup (IF \E h \in Hud : call[h].pc = "copy" THEN {"torn"} ELSE {}) :
         bak' = IF copied \in Sessions THEN "old" ELSE copied
    /\ cur' = NoSession
    /\ cs' = [s \in Sessions |-> Fresh]
    /\ tel' = [t \in Sessions |-> "none"]
    /\ drives' = [t \in Sessions |-> NoSession]
    /\ call' = [h \in Hud |-> Idle]
    /\ raced' = FALSE

Teleop(t) == LoopTest(t) \/ Tick(t) \/ TickRaises(t) \/ LoopError(t)

\* What a HUD thread does once the operator has pressed a button.
Work(h) ==
    \/ StartFails(h) \/ Install(h) \/ Go(h)
    \/ Capture(h) \/ Undo(h) \/ DropWorst(h) \/ TouchTable(h) \/ Refused(h)
    \/ FinishRefused(h) \/ FinishBlocked(h) \/ FinishAccepted(h)
    \/ SaveCopy(h) \/ SaveWrite(h) \/ SaveFails(h)
    \/ Cancel(h) \/ End(h) \/ Load(h)

Next ==
    \/ \E h \in Hud : Start(h) \/ Trigger(h) \/ Work(h)
    \/ \E t \in Sessions : Teleop(t)
    \/ Crash

Spec == Init /\ [][Next]_vars

\* The threads run; the operator owes nothing.
FairSpec ==
    /\ Spec
    /\ \A h \in Hud : WF_vars(Work(h))
    /\ \A t \in Sessions : WF_vars(Teleop(t))

-----------------------------------------------------------------------------
(* Properties.                                                             *)

States   == {"none", "idle", "running", "fitted", "cancelled", "error"}
Heights  == {"none", "kept", "touch", "samples"}
Contents == Sessions \cup {"old", "absent", "torn"}
Pcs      == {"idle", "start", "launch", "call", "copy", "write", "end", "load"}
SessionType ==
    [state : States, stop : BOOLEAN, samples : Seq(Poses), z : Heights,
     sig : [n : Nat, z : Heights], shown : SUBSET (Poses \cup {"few"}),
     undone : BOOLEAN]
CallType == [pc : Pcs, op : Ops \cup {"none"}, s : Sessions \cup {NoSession}]

TypeOK ==
    /\ cur \in Sessions \cup {NoSession}
    /\ cs \in [Sessions -> SessionType]
    /\ tel \in [Sessions -> {"none", "test", "lock", "raised", "done"}]
    /\ drives \in [Sessions -> Sessions \cup {NoSession}]
    /\ \A t \in Sessions : tel[t] = "none" <=> drives[t] = NoSession
    /\ call \in [Hud -> CallType]
    /\ main \in Contents /\ bak \in Contents /\ loaded \in Contents
    /\ raced \in BOOLEAN
    /\ faults \in 0..MaxFaults

\* Whatever the other triggers do meanwhile, a session is saved only before it ends
\* and with a fit for the samples it has when the file is written (finish, undo,
\* drop_worst and capture of other HUD threads; a tick that raises does not stop it).
\* One that a Cancel ended before it was started runs all the same, and is saved.
SavesAFit ==
    \A h \in Hud : Saving(h) =>
        LET c == cs[call[h].s] IN
        c.state \in {"running", "error"} /\ (c.undone \/ ~c.stop) /\ Fit(c.samples)

\* "No straggler tick": the arm follows the leader only while a session runs that was
\* not ended, although the loop looks at the stop event before it has the lock; and
\* unless a session was replaced too early, only the controller's session drives it,
\* and not after an error.
NoStragglerTick ==
    [][\A t \in Sessions : (tel[t] = "lock" /\ tel'[t] = "test") =>
          LET s == drives[t] IN
          /\ cs[s].state \in {"running", "error"} /\ ~cs[s].stop
          /\ raced \/ (cs[s].state = "running" /\ cur = s)]_vars

\* An intact calibration is on the disk, in calib.json or in its .bak.
Good   == Sessions \cup {"old"}
Intact == main \in Good \/ bak \in Good

\* One failing save, or one crash in a save, never takes the last intact copy:
\* that needs a Finish on a calib.json that was torn before.
LastCopy == [][(Intact /\ ~raced /\ main # "torn") => Intact']_vars

\* When all requests have returned, the robot uses what the fitted session saved
\* (_end and on_done, which look at the controller's session of that moment).
SavedIsLoaded ==
    (/\ ~raced /\ cur # NoSession /\ cs[cur].state = "fitted"
     /\ \A h \in Hud : call[h].pc = "idle") => main = cur /\ loaded = cur

\* _finish_locked: "a second Finish with nothing changed is the operator's
\* override": what is saved without force has no problem the operator was not shown.
ToldBeforeSaved ==
    \A h \in Hud : (Saving(h) /\ call[h].op = "finish") =>
        Problems(cs[call[h].s].samples) \subseteq cs[call[h].s].shown

\* Finish and cancel end the teleop thread, one that a Start launches only after them
\* included.
TeleopEnds ==
    \A t \in Sessions : \A s \in Sessions :
        drives[t] = s /\ (cs[s].state \in {"fitted", "cancelled"} \/ cs[s].undone)
            ~> tel[t] \in {"done", "none"}

\* Every request returns: no trigger waits for a lock forever.
CallsReturn == \A h \in Hud : call[h].pc # "idle" ~> call[h].pc = "idle"

=============================================================================
