--------------------------- MODULE CalibSession_proofs ---------------------------
(***************************************************************************)
(* Theorems about CalibSession, for any number of HUD threads, sessions,   *)
(* poses, write errors and crashes.                                        *)
(***************************************************************************)
EXTENDS CalibSession, SequenceTheorems, TLAPS

-----------------------------------------------------------------------------
(* The inductive invariant.                                                *)

\* A call or a thread that has a session has one that was installed.
Shape ==
    /\ \A h \in Hud : call[h].pc \notin {"idle", "start"} =>
            call[h].s \in Sessions /\ cs[call[h].s].state # "none"
    /\ \A s \in Sessions : cs[s].state # "none" => cur # NoSession
    /\ cur # NoSession => cs[cur].state # "none"
    /\ \A t \in Sessions : cs[t].state = "none" => tel[t] = "none"
    /\ \A t \in Sessions : tel[t] # "none" => cs[drives[t]].state # "none"

\* A Start has one thread to launch, and nobody else launches it.
Launches ==
    /\ \A h \in Hud : call[h].pc = "launch" => tel[call[h].s] = "none"
    /\ \A h, g \in Hud :
          (call[h].pc = "launch" /\ call[g].pc = "launch" /\ call[h].s = call[g].s) => h = g

Live(t) == tel[t] \in {"test", "lock", "raised"}

\* One saver per session at a time.
Locks ==
    \A h, g \in Hud : (Saving(h) /\ Saving(g) /\ call[h].s = call[g].s) => h = g

\* Whoever ends a session under the lock sets its stop event, and start() leaves it set.
Stops ==
    /\ \A s \in Sessions :
         /\ cs[s].state \in {"none", "idle"} => ~cs[s].stop
         /\ cs[s].state = "running" => cs[s].undone \/ ~cs[s].stop
    /\ \A t \in Sessions :
         (Live(t) /\ ~cs[drives[t]].stop) => cs[drives[t]].state \in {"running", "error"}

\* Without a race, what runs or saves or is to be started is the controller's session,
\* and a thread belongs to the session it was created for.
Solo ==
    ~raced =>
        /\ \A s \in Sessions : cs[s].state = "running" => cur = s
        /\ \A h \in Hud : Saving(h) \/ call[h].pc = "launch" => call[h].s = cur
        /\ \A t \in Sessions : tel[t] # "none" => drives[t] = t
        /\ \A t \in Sessions : (Live(t) /\ ~cs[t].stop) => cs[t].state = "running"

\* calib.json is overwritten when its copy is complete.
Copied ==
    /\ \A h \in Hud : call[h].pc = "copy" => main # "absent"
    /\ main = "absent" => bak = "absent"
    /\ \A h \in Hud : (~raced /\ call[h].pc = "write" /\ main \in Good) => bak \in Good

\* A fitted session is loaded, or is about to be.
Announced ==
    (~raced /\ cur # NoSession /\ cs[cur].state = "fitted") =>
        /\ main = cur
        /\ loaded = cur \/ \E h \in Hud : call[h].pc \in {"end", "load"}

Inv == TypeOK /\ Shape /\ Launches /\ Locks /\ Stops /\ SavesAFit /\ Solo /\ Copied /\ Announced

-----------------------------------------------------------------------------
(* Lemmas about the operators.                                             *)

\* Undo and drop leave samples.
LEMMA Shortened ==
    ASSUME NEW smp \in Seq(Poses), NEW i \in DOMAIN smp
    PROVE  SubSeq(smp, 1, i - 1) \o SubSeq(smp, i + 1, Len(smp)) \in Seq(Poses)
<1>1. i \in 1..Len(smp) /\ Len(smp) \in Nat
  OBVIOUS
<1>2. SubSeq(smp, 1, i - 1) \in Seq(Poses)
  BY <1>1, SubSeqProperties
<1>3. SubSeq(smp, i + 1, Len(smp)) \in Seq(Poses)
  BY <1>1, SubSeqProperties
<1> QED
  BY <1>2, <1>3, ConcatProperties

LEMMA LastDropped ==
    ASSUME NEW smp \in Seq(Poses), smp # <<>>
    PROVE  SubSeq(smp, 1, Len(smp) - 1) \in Seq(Poses)
BY SubSeqProperties

LEMMA ProblemsType ==
    ASSUME NEW smp \in Seq(Poses)
    PROVE  Problems(smp) \subseteq Poses \cup {"few"}
BY DEF Problems, PosesOf, Usable

-----------------------------------------------------------------------------
(* Type correctness.                                                       *)

\* What the steps of a HUD thread leave in call.
LEMMA Calls ==
    ASSUME TypeOK, NEW h \in Hud,
           Return(h) \/ \E pc \in Pcs : Goto(h, pc)
    PROVE  call' \in [Hud -> CallType]
<1>1. CASE Return(h)
  BY <1>1 DEF Return, TypeOK, CallType, Pcs, Idle
<1>2. ASSUME NEW pc \in Pcs, Goto(h, pc) PROVE call' \in [Hud -> CallType]
  BY <1>2 DEF Goto, TypeOK, CallType
<1> QED
  BY <1>1, <1>2

\* A step that writes one session.
LEMMA OneSession ==
    ASSUME TypeOK, NEW s \in Sessions, NEW c \in SessionType,
           cs' = [cs EXCEPT ![s] = c]
    PROVE  cs' \in [Sessions -> SessionType]
BY DEF TypeOK

\* A session with some samples and some height.
LEMMA Edited ==
    ASSUME NEW c \in SessionType, NEW smp \in Seq(Poses), NEW z \in Heights
    PROVE  [c EXCEPT !.samples = smp, !.z = z] \in SessionType
BY DEF SessionType

LEMMA TypeInit == Init => TypeOK
<1> SUFFICES ASSUME Init PROVE TypeOK
  OBVIOUS
<1>1. Fresh \in SessionType /\ Fresh.state = "none"
  BY DEF Fresh, SessionType, NoSig, States, Heights
<1>2. Idle \in CallType
  BY DEF Idle, CallType, Pcs
<1>3. faults \in 0..MaxFaults
  BY SampleAssumption DEF Init
<1>4. main \in Contents /\ bak \in Contents /\ loaded \in Contents /\ cur \in Sessions \cup {NoSession}
  BY DEF Init, Contents
<1> QED
  BY <1>1, <1>2, <1>3, <1>4 DEF Init, TypeOK

LEMMA EditStep ==
    ASSUME TypeOK, NEW h \in Hud, call[h].s \in Sessions, cs[call[h].s].state # "none",
           NEW smp \in Seq(Poses), NEW z \in Heights, Edit(h, smp, z)
    PROVE  TypeOK'
<1> USE DEF teleop
<1> DEFINE s == call[h].s
           c == [cs[s] EXCEPT !.samples = smp, !.z = z]
<1>1. cs[s] \in SessionType
  BY DEF TypeOK
<1>2. c \in SessionType
  BY <1>1, Edited
<1>3. cs' = [cs EXCEPT ![s] = c]
  BY <1>1 DEF Edit, TypeOK, SessionType
<1>4. call' \in [Hud -> CallType]
  BY Calls DEF Edit
<1> HIDE DEF c
<1> QED
  BY <1>2, <1>3, <1>4, OneSession DEF Edit, files, TypeOK

LEMMA TypeStep ==
    ASSUME TypeOK, Shape, [Next]_vars
    PROVE  TypeOK'
<1> USE DEF teleop
<1>1. ASSUME NEW h \in Hud, Start(h) PROVE TypeOK'
  BY <1>1 DEF TypeOK, Start, files, Pcs, CallType
<1>2. ASSUME NEW h \in Hud, Trigger(h) PROVE TypeOK'
  BY <1>2 DEF TypeOK, Trigger, files, Pcs, CallType
<1>3. ASSUME NEW h \in Hud, StartFails(h) \/ Refused(h) \/ FinishRefused(h) PROVE TypeOK'
  <2>1. Return(h)
    BY <1>3 DEF StartFails, Refused, FinishRefused
  <2> QED
    BY <1>3, <2>1, Calls DEF TypeOK, StartFails, Refused, FinishRefused, files
<1>4. ASSUME NEW h \in Hud, Install(h) PROVE TypeOK'
  <2>0. PICK s \in Sessions, old \in Seen :
           /\ cs[s].state = "none" /\ cur' = s
           /\ cs' = [cs EXCEPT ![s].state = "idle",
                               ![s].z = IF old = "absent" THEN "none" ELSE "kept"]
           /\ call' = [call EXCEPT ![h].pc = "launch", ![h].s = s]
    BY <1>4 DEF Install
  <2> DEFINE z == IF old = "absent" THEN "none" ELSE "kept"
             c == [cs[s] EXCEPT !.state = "idle", !.z = z]
  <2>1. cs[s] \in SessionType
    BY DEF TypeOK
  <2>2. c \in SessionType
    BY <2>1 DEF SessionType, States, Heights
  <2>3. cs' = [cs EXCEPT ![s] = c]
    BY <2>0, <2>1 DEF TypeOK, SessionType
  <2>4. call' \in [Hud -> CallType]
    BY <2>0 DEF TypeOK, CallType, Pcs
  <2>5. raced' \in BOOLEAN /\ UNCHANGED <<tel, drives, main, bak, loaded, faults>>
    <3>1. UNCHANGED <<tel, drives, main, bak, loaded, faults>>
      BY <1>4 DEF Install, teleop, files
    <3>2. raced' \in BOOLEAN
      BY <1>4, Zenon DEF Install
    <3> QED
      BY <3>1, <3>2
  <2> HIDE DEF c
  <2> QED
    BY <2>0, <2>2, <2>3, <2>4, <2>5, OneSession DEF TypeOK
<1>g. ASSUME NEW h \in Hud, Go(h) PROVE TypeOK'
  <2> DEFINE t == call[h].s
             c == [cs[cur] EXCEPT !.state = "running", !.undone = @ \/ cs[cur].stop]
  <2>1. t \in Sessions /\ cur \in Sessions /\ cs[cur] \in SessionType
    BY <1>g, NameAssumption DEF Go, Shape, TypeOK
  <2>2. (cs[cur].undone \/ cs[cur].stop) \in BOOLEAN
    BY Zenon
  <2>3. c \in SessionType
    BY <2>1, <2>2 DEF SessionType, States
  <2>4. cs' = [cs EXCEPT ![cur] = c]
    BY <1>g, <2>1 DEF Go, TypeOK, SessionType
  <2>5. call' \in [Hud -> CallType]
    BY <1>g, Calls DEF Go
  <2>6. tel' = [tel EXCEPT ![t] = "test"] /\ drives' = [drives EXCEPT ![t] = cur]
        /\ UNCHANGED <<cur, raced, main, bak, loaded, faults>>
    BY <1>g DEF Go, Launch, files
  <2>7. cs' \in [Sessions -> SessionType]
    BY <2>1, <2>3, <2>4, OneSession
  <2>8. \A r \in Sessions : tel'[r] = "none" <=> drives'[r] = NoSession
    BY <2>1, <2>6, NameAssumption DEF TypeOK
  <2> QED
    BY <2>1, <2>5, <2>6, <2>7, <2>8 DEF TypeOK
<1>5. ASSUME NEW h \in Hud, call[h].pc = "call"
      PROVE  /\ call[h].s \in Sessions /\ cs[call[h].s].state # "none"
             /\ cs[call[h].s] \in SessionType
             /\ cs[call[h].s].samples \in Seq(Poses) /\ cs[call[h].s].z \in Heights
  BY <1>5 DEF Shape, TypeOK, SessionType
<1>6. ASSUME NEW h \in Hud, Capture(h) PROVE TypeOK'
  <2>1. PICK p \in Poses : Edit(h, Append(cs[call[h].s].samples, p), cs[call[h].s].z)
    BY <1>6 DEF Capture
  <2>2. call[h].pc = "call"
    BY <1>6 DEF Capture, Has
  <2>3. Append(cs[call[h].s].samples, p) \in Seq(Poses)
    BY <1>5, <2>2, AppendProperties
  <2> QED
    BY <1>5, <2>1, <2>2, <2>3, EditStep
<1>7. ASSUME NEW h \in Hud, Undo(h) PROVE TypeOK'
  BY <1>5, <1>7, EditStep, LastDropped DEF Undo, Has
<1>8. ASSUME NEW h \in Hud, DropWorst(h) PROVE TypeOK'
  BY <1>5, <1>8, EditStep, Shortened DEF DropWorst, Has
<1>9. ASSUME NEW h \in Hud, TouchTable(h) PROVE TypeOK'
  BY <1>5, <1>9, EditStep DEF TouchTable, Has, Heights
<1>10. ASSUME NEW h \in Hud, FinishBlocked(h) PROVE TypeOK'
  <2> DEFINE s == call[h].s
             c == [cs[s] EXCEPT !.sig = Signature(s), !.shown = Problems(cs[s].samples)]
  <2>1. s \in Sessions /\ cs[s] \in SessionType
    BY <1>5, <1>10 DEF FinishBlocked, Finishes, Has
  <2>2. Signature(s) \in [n : Nat, z : Heights] /\ Problems(cs[s].samples) \subseteq Poses \cup {"few"}
    BY <2>1, ProblemsType DEF SessionType, Signature
  <2>3. c \in SessionType
    BY <2>1, <2>2 DEF SessionType
  <2>4. cs' = [cs EXCEPT ![s] = c]
    BY <1>10, <2>1 DEF FinishBlocked, TypeOK
  <2>5. call' \in [Hud -> CallType]
    BY <1>10, Calls DEF FinishBlocked
  <2> HIDE DEF c
  <2> QED
    BY <1>10, <2>1, <2>3, <2>4, <2>5, OneSession DEF FinishBlocked, files, TypeOK
<1>11. ASSUME NEW h \in Hud, FinishAccepted(h) PROVE TypeOK'
  <2> DEFINE s == call[h].s
             c == [cs[s] EXCEPT !.z = Height(s)]
  <2>1. s \in Sessions /\ cs[s] \in SessionType
    BY <1>5, <1>11 DEF FinishAccepted, Finishes, Has
  <2>2. c \in SessionType
    BY <2>1 DEF SessionType, Height, Heights
  <2>3. cs' = [cs EXCEPT ![s] = c]
    BY <1>11, <2>1 DEF FinishAccepted, TypeOK
  <2>4. call' \in [Hud -> CallType]
    BY <1>11, Calls DEF FinishAccepted, FirstStep, Pcs
  <2> HIDE DEF c
  <2> QED
    BY <1>11, <2>1, <2>2, <2>3, <2>4, OneSession DEF FinishAccepted, files, TypeOK
<1>12. ASSUME NEW h \in Hud, SaveCopy(h) PROVE TypeOK'
  <2>1. call' \in [Hud -> CallType]
    BY <1>12, Calls DEF SaveCopy, Pcs
  <2> QED
    BY <1>12, <2>1 DEF SaveCopy, TypeOK
<1>13. ASSUME NEW h \in Hud, SaveWrite(h) PROVE TypeOK'
  <2> DEFINE s == call[h].s
             c == [cs[s] EXCEPT !.state = "fitted", !.stop = TRUE]
  <2>1. s \in Sessions /\ cs[s] \in SessionType /\ cs[s].state # "none"
    BY <1>13 DEF SaveWrite, Shape, TypeOK
  <2>2. c \in SessionType
    BY <2>1 DEF SessionType, States
  <2>3. cs' = [cs EXCEPT ![s] = c]
    BY <1>13, <2>1 DEF SaveWrite, TypeOK
  <2>4. call' \in [Hud -> CallType]
    BY <1>13, Calls DEF SaveWrite, Pcs
  <2> HIDE DEF c
  <2> QED
    BY <1>13, <2>1, <2>2, <2>3, <2>4, OneSession DEF SaveWrite, TypeOK, Contents
<1>14. ASSUME NEW h \in Hud, SaveFails(h) PROVE TypeOK'
  <2>1. call' \in [Hud -> CallType]
    BY <1>14, Calls DEF SaveFails
  <2> QED
    BY <1>14, <2>1, SampleAssumption DEF SaveFails, TypeOK, Contents
<1>15. ASSUME NEW h \in Hud, Cancel(h) PROVE TypeOK'
  <2> DEFINE s == call[h].s
             c == [cs[s] EXCEPT !.state = "cancelled", !.stop = TRUE]
  <2>1. s \in Sessions /\ cs[s] \in SessionType /\ cs[s].state # "none"
    BY <1>5, <1>15 DEF Cancel, Has
  <2>2. c \in SessionType
    BY <2>1 DEF SessionType, States
  <2>3. cs' = [cs EXCEPT ![s] = c]
    BY <1>15, <2>1 DEF Cancel, Cancelled, TypeOK
  <2>4. call' \in [Hud -> CallType]
    BY <1>15, Calls DEF Cancel, Pcs
  <2> HIDE DEF c
  <2> QED
    BY <1>15, <2>1, <2>2, <2>3, <2>4, OneSession DEF Cancel, files, TypeOK
<1>16. ASSUME NEW h \in Hud, End(h) PROVE TypeOK'
  <2>1. call' \in [Hud -> CallType]
    BY <1>16, Calls DEF End, Pcs
  <2> QED
    BY <1>16, <2>1 DEF End, TypeOK, files
<1>17. ASSUME NEW h \in Hud, Load(h) PROVE TypeOK'
  <2>1. call' \in [Hud -> CallType]
    BY <1>17, Calls DEF Load
  <2> QED
    BY <1>17, <2>1 DEF Load, Loads, Seen, TypeOK, Contents
<1>18. ASSUME NEW t \in Sessions, LoopTest(t) \/ Tick(t) \/ TickRaises(t) PROVE TypeOK'
  <2>1. PICK pc \in {"test", "lock", "raised", "done"} : tel' = [tel EXCEPT ![t] = pc]
    BY <1>18 DEF LoopTest, Tick, TickRaises, Heeds
  <2>2. tel[t] # "none" /\ UNCHANGED <<cur, cs, drives, call, raced, main, bak, loaded, faults>>
    BY <1>18 DEF LoopTest, Tick, TickRaises, files
  <2> QED
    BY <2>1, <2>2 DEF TypeOK
<1>19. ASSUME NEW t \in Sessions, LoopError(t) PROVE TypeOK'
  <2> DEFINE s == drives[t]
             c == [cs[s] EXCEPT !.state = "error"]
  <2>1. s \in Sessions /\ cs[s] \in SessionType /\ tel[t] # "none"
    BY <1>19 DEF LoopError, TypeOK
  <2>2. c \in SessionType
    BY <2>1 DEF SessionType, States
  <2>3. cs' = [cs EXCEPT ![s] = c] /\ tel' = [tel EXCEPT ![t] = "done"]
    BY <1>19, <2>1 DEF LoopError, TypeOK
  <2>4. cs' \in [Sessions -> SessionType]
    BY <2>1, <2>2, <2>3, OneSession
  <2> HIDE DEF c
  <2> QED
    BY <1>19, <2>1, <2>3, <2>4 DEF LoopError, files, TypeOK
<1>20. CASE Crash
  <2>1. Fresh \in SessionType /\ Fresh.state = "none"
    BY DEF Fresh, SessionType, NoSig, States, Heights
  <2>2. Idle \in CallType
    BY DEF Idle, CallType, Pcs
  <2>3. main' \in Contents /\ bak' \in Contents /\ loaded' \in Contents
    BY <1>20 DEF Crash, Seen, Contents, TypeOK
  <2>4. faults' \in 0..MaxFaults
    BY <1>20, SampleAssumption DEF Crash, TypeOK
  <2> QED
    BY <1>20, <2>1, <2>2, <2>3, <2>4 DEF Crash, TypeOK
<1>21. CASE UNCHANGED vars
  BY <1>21 DEF vars, TypeOK
<1> QED
  BY <1>1, <1>2, <1>3, <1>4, <1>g, <1>6, <1>7, <1>8, <1>9, <1>10, <1>11, <1>12, <1>13, <1>14, <1>15,
     <1>16, <1>17, <1>18, <1>19, <1>20, <1>21 DEF Next, Work, Teleop

-----------------------------------------------------------------------------
(* The steps that end, save and load nothing.                              *)

\* What they leave alone: who is in the middle of a save, the samples of a
\* session that is being saved, the files, and what every session has become.
Gentle(h) ==
    /\ UNCHANGED <<cur, tel, drives, raced, main, bak, loaded, faults>>
    /\ \A s \in Sessions :
         /\ cs'[s].state = cs[s].state /\ cs'[s].stop = cs[s].stop
         /\ cs'[s].undone = cs[s].undone
         /\ ~Free(s) => cs'[s].samples = cs[s].samples
    /\ \A g \in Hud : g # h => call'[g] = call[g]
    /\ call[h].pc \in {"idle", "start", "call"}
    /\ call'[h].pc \in {"idle", "start"} \/ (call'[h].pc = "call" /\ call'[h].s = cur /\ cur # NoSession)

Steps(h) ==
    \/ Start(h) \/ Trigger(h) \/ StartFails(h) \/ Refused(h) \/ FinishRefused(h)
    \/ Capture(h) \/ Undo(h) \/ DropWorst(h) \/ TouchTable(h) \/ FinishBlocked(h)
    \/ (FinishAccepted(h) /\ ~Fit(cs[call[h].s].samples))

LEMMA GentleSteps ==
    ASSUME TypeOK, Shape, NEW h \in Hud, Steps(h)
    PROVE  Gentle(h)
<1> USE DEF teleop
<1>1. CASE Start(h)
  BY <1>1 DEF Start, Gentle, files, TypeOK, CallType
<1>2. CASE Trigger(h)
  BY <1>2 DEF Trigger, Gentle, files, TypeOK, CallType
<1>3. CASE StartFails(h) \/ Refused(h) \/ FinishRefused(h)
  BY <1>3 DEF StartFails, Refused, FinishRefused, Finishes, Has, Return, Idle, Gentle, files, TypeOK, CallType
<1>4. ASSUME Return(h) PROVE call'[h].pc = "idle" /\ \A g \in Hud : g # h => call'[g] = call[g]
  BY <1>4 DEF Return, Idle, TypeOK
<1>5. ASSUME call[h].pc = "call" PROVE call[h].s \in Sessions
  BY <1>5 DEF Shape
<1>6. ASSUME NEW smp, NEW z, Edit(h, smp, z), call[h].pc = "call", Free(call[h].s) PROVE Gentle(h)
  <2>1. /\ UNCHANGED <<cur, tel, drives, raced, main, bak, loaded, faults>> /\ Return(h)
        /\ cs' = [cs EXCEPT ![call[h].s].samples = smp, ![call[h].s].z = z]
    BY <1>6 DEF Edit, files
  <2>2. \A s \in Sessions :
         /\ cs'[s].state = cs[s].state /\ cs'[s].stop = cs[s].stop
         /\ cs'[s].undone = cs[s].undone
         /\ ~Free(s) => cs'[s].samples = cs[s].samples
    BY <1>5, <1>6, <2>1 DEF TypeOK, SessionType
  <2> QED
    BY <1>4, <1>6, <2>1, <2>2 DEF Gentle
<1>7. CASE Capture(h) \/ Undo(h) \/ DropWorst(h) \/ TouchTable(h)
  BY <1>6, <1>7 DEF Capture, Undo, DropWorst, TouchTable, Has
<1>8. CASE FinishBlocked(h)
  <2>1. /\ UNCHANGED <<cur, tel, drives, raced, main, bak, loaded, faults>> /\ Return(h)
        /\ call[h].pc = "call"
    BY <1>8 DEF FinishBlocked, Finishes, Has, files
  <2>2. \A s \in Sessions :
         /\ cs'[s].state = cs[s].state /\ cs'[s].stop = cs[s].stop
         /\ cs'[s].undone = cs[s].undone /\ cs'[s].samples = cs[s].samples
    BY <1>5, <1>8, <2>1 DEF FinishBlocked, TypeOK, SessionType
  <2> QED
    BY <1>4, <2>1, <2>2 DEF Gentle
<1>9. CASE FinishAccepted(h) /\ ~Fit(cs[call[h].s].samples)
  <2>1. /\ UNCHANGED <<cur, tel, drives, raced, main, bak, loaded, faults>> /\ Return(h)
        /\ call[h].pc = "call"
    BY <1>9 DEF FinishAccepted, Finishes, Has, files
  <2>2. \A s \in Sessions :
         /\ cs'[s].state = cs[s].state /\ cs'[s].stop = cs[s].stop
         /\ cs'[s].undone = cs[s].undone /\ cs'[s].samples = cs[s].samples
    BY <1>5, <1>9, <2>1 DEF FinishAccepted, TypeOK, SessionType
  <2> QED
    BY <1>4, <2>1, <2>2 DEF Gentle
<1> QED
  BY <1>1, <1>2, <1>3, <1>7, <1>8, <1>9 DEF Steps

-----------------------------------------------------------------------------
(* What the other steps do, in the same terms.                             *)

\* Only h moves, to pc, on the session it had.
Moves(h, pc) ==
    /\ call'[h].pc = pc /\ (pc \notin {"idle", "start"} => call'[h].s = call[h].s)
    /\ \A g \in Hud : g # h => call'[g] = call[g]

LEMMA MovesTo ==
    ASSUME TypeOK, NEW h \in Hud
    PROVE  /\ Return(h) => Moves(h, "idle")
           /\ \A pc \in Pcs : Goto(h, pc) => Moves(h, pc)
BY DEF Return, Goto, Moves, Idle, TypeOK, CallType

\* Only s changes, and of what matters here only its state, its stop event and that
\* start() undid its end.
Becomes(s, state, stop) ==
    /\ cs'[s].state = state /\ cs'[s].stop = stop /\ (cs[s].undone => cs'[s].undone)
    /\ cs'[s].samples = cs[s].samples
    /\ \A r \in Sessions : r # s => cs'[r] = cs[r]

LEMMA InstallEffect ==
    ASSUME TypeOK, NEW h \in Hud, Install(h)
    PROVE  /\ call[h].pc = "start" /\ \A g \in Hud : g # h => call'[g] = call[g]
           /\ \E s \in Sessions :
                /\ cs[s].state = "none" /\ cur' = s
                /\ Becomes(s, "idle", cs[s].stop)
                /\ call'[h].pc = "launch" /\ call'[h].s = s
           /\ ~raced' => /\ ~raced /\ ~active /\ (cur # NoSession => Free(cur))
                         /\ \A g \in Hud : call[g].pc # "launch"
           /\ UNCHANGED <<tel, drives, main, bak, loaded, faults>>
<1>1. PICK s \in Sessions, old \in Seen :
           /\ cs[s].state = "none" /\ cur' = s
           /\ cs' = [cs EXCEPT ![s].state = "idle",
                               ![s].z = IF old = "absent" THEN "none" ELSE "kept"]
           /\ call' = [call EXCEPT ![h].pc = "launch", ![h].s = s]
  BY DEF Install
<1>2. Becomes(s, "idle", cs[s].stop)
  BY <1>1 DEF Becomes, TypeOK, SessionType
<1>3. /\ call'[h].pc = "launch" /\ call'[h].s = s
      /\ \A g \in Hud : g # h => call'[g] = call[g]
  BY <1>1 DEF TypeOK, CallType
<1>4. ~raced' => /\ ~raced /\ ~active /\ (cur # NoSession => Free(cur))
                 /\ \A g \in Hud : call[g].pc # "launch"
  BY Zenon DEF Install
<1> QED
  BY <1>1, <1>2, <1>3, <1>4 DEF Install, teleop, files

LEMMA GoEffect ==
    ASSUME TypeOK, Shape, NEW h \in Hud, Go(h)
    PROVE  /\ call[h].pc = "launch" /\ call[h].s \in Sessions /\ cur \in Sessions
           /\ Moves(h, "idle")
           /\ Becomes(cur, "running", cs[cur].stop)
           /\ cs[cur].stop => cs'[cur].undone
           /\ tel' = [tel EXCEPT ![call[h].s] = "test"]
           /\ drives' = [drives EXCEPT ![call[h].s] = cur]
           /\ UNCHANGED <<cur, raced, main, bak, loaded, faults>>
<1>1. call[h].pc = "launch" /\ call[h].s \in Sessions /\ cur \in Sessions
  BY DEF Go, Shape, TypeOK
<1>2. /\ cs'[cur].state = "running" /\ cs'[cur].stop = cs[cur].stop
      /\ cs'[cur].samples = cs[cur].samples
      /\ cs'[cur].undone = (cs[cur].undone \/ cs[cur].stop)
      /\ \A r \in Sessions : r # cur => cs'[r] = cs[r]
  BY <1>1 DEF Go, TypeOK, SessionType
<1>3. (cs[cur].stop => cs'[cur].undone) /\ (cs[cur].undone => cs'[cur].undone)
  BY <1>2, Zenon
<1> QED
  BY <1>1, <1>2, <1>3, MovesTo DEF Go, Launch, Becomes, files

LEMMA AcceptEffect ==
    ASSUME TypeOK, Shape, NEW h \in Hud, FinishAccepted(h), Fit(cs[call[h].s].samples)
    PROVE  /\ call[h].pc = "call" /\ Free(call[h].s)
           /\ Moves(h, FirstStep)
           /\ cs[call[h].s].state = "running" /\ Becomes(call[h].s, "running", cs[call[h].s].stop)
           /\ UNCHANGED <<cur, tel, drives, raced, main, bak, loaded, faults>>
<1>1. call[h].pc = "call" /\ Free(call[h].s) /\ call[h].s \in Sessions
  BY DEF FinishAccepted, Finishes, Has, Shape
<1>2. Becomes(call[h].s, "running", cs[call[h].s].stop)
  BY <1>1 DEF FinishAccepted, Ready, Becomes, TypeOK, SessionType
<1>3. FirstStep \in Pcs
  BY DEF FirstStep, Pcs
<1> QED
  BY <1>1, <1>2, <1>3, MovesTo DEF FinishAccepted, Ready, teleop, files

LEMMA WriteEffect ==
    ASSUME TypeOK, Shape, NEW h \in Hud, SaveWrite(h)
    PROVE  /\ call[h].pc = "write" /\ call[h].s \in Sessions /\ Moves(h, "end")
           /\ main' = call[h].s /\ Becomes(call[h].s, "fitted", TRUE)
           /\ UNCHANGED <<cur, tel, drives, bak, loaded, raced, faults>>
<1>1. call[h].s \in Sessions
  BY DEF SaveWrite, Shape
<1>2. Becomes(call[h].s, "fitted", TRUE)
  BY <1>1 DEF SaveWrite, Becomes, TypeOK, SessionType
<1> QED
  BY <1>1, <1>2, MovesTo DEF SaveWrite, teleop, Pcs

LEMMA CancelEffect ==
    ASSUME TypeOK, Shape, NEW h \in Hud, Cancel(h)
    PROVE  /\ call[h].pc = "call" /\ call[h].s \in Sessions /\ Free(call[h].s)
           /\ Moves(h, "end") /\ Becomes(call[h].s, "cancelled", TRUE)
           /\ UNCHANGED <<cur, tel, drives, raced, main, bak, loaded, faults>>
<1>1. call[h].pc = "call" /\ call[h].s \in Sessions /\ Free(call[h].s)
  BY DEF Cancel, Has, Shape
<1>2. Becomes(call[h].s, "cancelled", TRUE)
  BY <1>1 DEF Cancel, Cancelled, Becomes, TypeOK, SessionType
<1> QED
  BY <1>1, <1>2, MovesTo DEF Cancel, Pcs, teleop, files

LEMMA ErrorEffect ==
    ASSUME TypeOK, NEW t \in Sessions, LoopError(t)
    PROVE  /\ tel[t] = "raised" /\ tel' = [tel EXCEPT ![t] = "done"]
           /\ drives[t] \in Sessions /\ Becomes(drives[t], "error", cs[drives[t]].stop)
           /\ UNCHANGED <<cur, drives, call, raced, main, bak, loaded, faults>>
<1>1. drives[t] \in Sessions
  BY DEF LoopError, TypeOK
<1> QED
  BY <1>1 DEF LoopError, Becomes, TypeOK, SessionType, files

\* The steps of the teleop thread that only move it.
LEMMA TickEffect ==
    ASSUME TypeOK, NEW t \in Sessions, LoopTest(t) \/ Tick(t) \/ TickRaises(t)
    PROVE  /\ tel[t] \in {"test", "lock"} /\ \E pc \in {"test", "lock", "raised", "done"} : tel' = [tel EXCEPT ![t] = pc]
           /\ UNCHANGED <<cur, cs, drives, call, raced, main, bak, loaded, faults>>
BY DEF LoopTest, Tick, TickRaises, Heeds, files

\* The steps of a HUD thread that touch no session.
LEMMA FileEffect ==
    ASSUME TypeOK, NEW h \in Hud, SaveCopy(h) \/ SaveFails(h) \/ End(h) \/ Load(h)
    PROVE  /\ UNCHANGED <<cur, cs, tel, drives, raced>>
           /\ call[h].pc \in {"copy", "write", "end", "load"}
           /\ \/ Moves(h, "idle")
              \/ call[h].pc = "copy" /\ Moves(h, "write")
              \/ call[h].pc = "end" /\ Moves(h, "load")
<1>1. CASE SaveCopy(h)
  BY <1>1, MovesTo DEF SaveCopy, teleop, Pcs
<1>2. CASE SaveFails(h)
  BY <1>2, MovesTo DEF SaveFails, Saving, teleop, Pcs
<1>3. CASE End(h)
  BY <1>3, MovesTo DEF End, Pcs, teleop, files
<1>4. CASE Load(h)
  BY <1>4, MovesTo DEF Load, teleop, Pcs
<1> QED
  BY <1>1, <1>2, <1>3, <1>4

LEMMA CrashEffect ==
    ASSUME Crash
    PROVE  /\ cur' = NoSession /\ ~raced'
           /\ \A s \in Sessions : cs'[s].state = "none" /\ ~cs'[s].stop /\ tel'[s] = "none"
           /\ \A h \in Hud : call'[h].pc = "idle"
BY DEF Crash, Fresh, Idle

\* Every step is one of these.
LEMMA StepCases ==
    ASSUME TypeOK, [Next]_vars
    PROVE  \/ \E h \in Hud : Steps(h)
           \/ \E h \in Hud : Install(h)
           \/ \E h \in Hud : Go(h)
           \/ \E h \in Hud : FinishAccepted(h) /\ Fit(cs[call[h].s].samples)
           \/ \E h \in Hud : SaveCopy(h) \/ SaveFails(h) \/ End(h) \/ Load(h)
           \/ \E h \in Hud : SaveWrite(h)
           \/ \E h \in Hud : Cancel(h)
           \/ \E t \in Sessions : LoopTest(t) \/ Tick(t) \/ TickRaises(t)
           \/ \E t \in Sessions : LoopError(t)
           \/ Crash
           \/ UNCHANGED vars
BY DEF Next, Work, Teleop, Steps

-----------------------------------------------------------------------------
(* The inductive invariant is one.                                         *)

LEMMA InvInit == Init => Inv
<1> SUFFICES ASSUME Init PROVE Inv
  OBVIOUS
<1>1. TypeOK
  BY TypeInit
<1>2. Shape /\ Launches /\ Locks /\ Stops /\ SavesAFit /\ Solo
  BY DEF Init, Fresh, Idle, Shape, Launches, Locks, Stops, Live, SavesAFit, Solo, Saving
<1>3. Copied /\ Announced
  BY DEF Init, Idle, Copied, Announced
<1> QED
  BY <1>1, <1>2, <1>3 DEF Inv

LEMMA ShapeKept ==
    ASSUME Shape, TypeOK, cur' = cur,
           \A s \in Sessions : (cs'[s].state = "none") <=> (cs[s].state = "none"),
           \A t \in Sessions : (tel'[t] = "none") <=> (tel[t] = "none"),
           drives' = drives,
           \A h \in Hud : call'[h].pc \notin {"idle", "start"} =>
                call'[h].s \in Sessions /\ cs[call'[h].s].state # "none"
    PROVE  Shape'
BY DEF Shape, TypeOK

LEMMA ShapeStep ==
    ASSUME TypeOK, Shape, [Next]_vars
    PROVE  Shape'
<1>1. ASSUME NEW h \in Hud, Steps(h) PROVE Shape'
  <2> USE <1>1, GentleSteps DEF Gentle
  <2>1. UNCHANGED <<cur, tel, drives>> /\ \A s \in Sessions : cs'[s].state = cs[s].state
    OBVIOUS
  <2>2. ASSUME NEW g \in Hud, call'[g].pc \notin {"idle", "start"}
        PROVE  call'[g].s \in Sessions /\ cs[call'[g].s].state # "none"
    <3>1. CASE g = h
      <4>1. call'[g].s = cur /\ cur \in Sessions /\ cur # NoSession
        BY <2>2, <3>1 DEF TypeOK
      <4> QED
        BY <4>1 DEF Shape
    <3>2. CASE g # h
      BY <2>2, <3>2 DEF Shape
    <3> QED
      BY <3>1, <3>2
  <2> QED
    BY <2>1, <2>2, ShapeKept
<1>2. ASSUME NEW h \in Hud, Install(h) PROVE Shape'
  <2>1. PICK s \in Sessions : /\ cs[s].state = "none" /\ cur' = s
                              /\ Becomes(s, "idle", cs[s].stop) /\ call'[h].s = s
    BY <1>2, InstallEffect
  <2>2. \A r \in Sessions : cs'[r].state = "none" => cs[r].state = "none"
    BY <2>1 DEF Becomes
  <2>3. UNCHANGED <<tel, drives>> /\ \A g \in Hud : g # h => call'[g] = call[g]
    BY <1>2, InstallEffect
  <2>4. \A g \in Hud : call'[g].pc \notin {"idle", "start"} =>
            call'[g].s \in Sessions /\ cs'[call'[g].s].state # "none"
    BY <2>1, <2>2, <2>3 DEF Shape, Becomes
  <2>5. \A t \in Sessions : tel[t] # "none" => drives[t] \in Sessions
    BY DEF TypeOK
  <2> QED
    BY <2>1, <2>2, <2>3, <2>4, <2>5, NameAssumption DEF Shape, Becomes
<1>g. ASSUME NEW h \in Hud, Go(h) PROVE Shape'
  <2> DEFINE t == call[h].s
  <2>1. t \in Sessions /\ cs[t].state # "none" /\ cur \in Sessions /\ cur' = cur
    BY <1>g, GoEffect DEF Shape
  <2>2. \A r \in Sessions : cs'[r].state = "none" => cs[r].state = "none"
    BY <1>g, <2>1, GoEffect DEF Becomes
  <2>3. \A g \in Hud : call'[g].pc \notin {"idle", "start"} =>
            call'[g].s \in Sessions /\ cs'[call'[g].s].state # "none"
    BY <1>g, <2>2, GoEffect DEF Moves, Shape
  <2>4. tel' = [tel EXCEPT ![t] = "test"] /\ drives' = [drives EXCEPT ![t] = cur]
    BY <1>g, GoEffect
  <2>5. cs'[cur].state # "none"
    BY <1>g, GoEffect DEF Becomes
  <2>6. \A r \in Sessions : cs'[r].state = "none" => tel'[r] = "none"
    BY <2>1, <2>2, <2>4 DEF Shape, TypeOK
  <2>7. \A r \in Sessions : tel[r] # "none" => drives[r] \in Sessions
    BY DEF TypeOK
  <2>8. \A r \in Sessions : tel'[r] # "none" => cs'[drives'[r]].state # "none"
    <3> SUFFICES ASSUME NEW r \in Sessions, tel'[r] # "none"
                 PROVE  cs'[drives'[r]].state # "none"
      OBVIOUS
    <3>1. CASE r = t
      BY <2>1, <2>4, <2>5, <3>1 DEF TypeOK
    <3>2. CASE r # t
      <4>1. tel[r] # "none" /\ drives'[r] = drives[r]
        BY <2>4, <3>2 DEF TypeOK
      <4> QED
        BY <2>2, <2>7, <4>1 DEF Shape
    <3> QED
      BY <3>1, <3>2
  <2> QED
    BY <2>1, <2>3, <2>5, <2>6, <2>8, NameAssumption DEF Shape
<1>3. ASSUME NEW h \in Hud, FinishAccepted(h), Fit(cs[call[h].s].samples) PROVE Shape'
  <2>1. Moves(h, FirstStep) /\ call[h].pc = "call" /\ UNCHANGED <<cur, tel, drives>>
    BY <1>3, AcceptEffect
  <2>2. call[h].s \in Sessions /\ cs[call[h].s].state # "none"
    BY <2>1 DEF Shape
  <2>3. \A s \in Sessions : (cs'[s].state = "none") <=> (cs[s].state = "none")
    BY <1>3, <2>2, AcceptEffect DEF Becomes
  <2>4. \A g \in Hud : call'[g].pc \notin {"idle", "start"} =>
             call'[g].s \in Sessions /\ cs[call'[g].s].state # "none"
    BY <2>1, <2>2 DEF Moves, Shape, FirstStep
  <2> QED
    BY <2>1, <2>3, <2>4, ShapeKept
<1>4. ASSUME NEW h \in Hud, SaveCopy(h) \/ SaveFails(h) \/ End(h) \/ Load(h) PROVE Shape'
  BY <1>4, FileEffect DEF Shape, Moves
<1>5. ASSUME NEW h \in Hud, SaveWrite(h) PROVE Shape'
  <2>1. Moves(h, "end") /\ call[h].pc \in {"call", "write"} /\ UNCHANGED <<cur, tel, drives>>
    BY <1>5, WriteEffect
  <2>2. call[h].s \in Sessions /\ cs[call[h].s].state # "none"
    BY <2>1 DEF Shape
  <2>3. \A s \in Sessions : (cs'[s].state = "none") <=> (cs[s].state = "none")
    BY <1>5, <2>2, WriteEffect DEF Becomes
  <2>4. \A g \in Hud : call'[g].pc \notin {"idle", "start"} =>
             call'[g].s \in Sessions /\ cs[call'[g].s].state # "none"
    BY <2>1, <2>2 DEF Moves, Shape
  <2> QED
    BY <2>1, <2>3, <2>4, ShapeKept
<1>6. ASSUME NEW h \in Hud, Cancel(h) PROVE Shape'
  <2>1. Moves(h, "end") /\ call[h].pc \in {"call", "write"} /\ UNCHANGED <<cur, tel, drives>>
    BY <1>6, CancelEffect
  <2>2. call[h].s \in Sessions /\ cs[call[h].s].state # "none"
    BY <2>1 DEF Shape
  <2>3. \A s \in Sessions : (cs'[s].state = "none") <=> (cs[s].state = "none")
    BY <1>6, <2>2, CancelEffect DEF Becomes
  <2>4. \A g \in Hud : call'[g].pc \notin {"idle", "start"} =>
             call'[g].s \in Sessions /\ cs[call'[g].s].state # "none"
    BY <2>1, <2>2 DEF Moves, Shape
  <2> QED
    BY <2>1, <2>3, <2>4, ShapeKept
<1>7. ASSUME NEW t \in Sessions, LoopTest(t) \/ Tick(t) \/ TickRaises(t) PROVE Shape'
  <2>1. \A r \in Sessions : (tel'[r] = "none") <=> (tel[r] = "none")
    BY <1>7, TickEffect DEF TypeOK
  <2>2. UNCHANGED <<cur, cs, drives, call>>
    BY <1>7, TickEffect
  <2> QED
    BY <2>1, <2>2 DEF Shape
<1>8. ASSUME NEW t \in Sessions, LoopError(t) PROVE Shape'
  <2>1. cs[drives[t]].state # "none" /\ UNCHANGED <<cur, drives, call>>
    BY <1>8, ErrorEffect DEF Shape
  <2>2. \A r \in Sessions : (cs'[r].state = "none") <=> (cs[r].state = "none")
    BY <1>8, <2>1, ErrorEffect DEF Becomes
  <2>3. \A r \in Sessions : (tel'[r] = "none") <=> (tel[r] = "none")
    BY <1>8, ErrorEffect DEF TypeOK
  <2> QED
    BY <2>1, <2>2, <2>3, ShapeKept DEF Shape
<1>9. CASE Crash
  BY <1>9, CrashEffect DEF Shape
<1>10. CASE UNCHANGED vars
  BY <1>10 DEF vars, Shape
<1> QED
  BY <1>1, <1>2, <1>g, <1>3, <1>4, <1>5, <1>6, <1>7, <1>8, <1>9, <1>10, StepCases

\* The threads that are still to be launched.
LEMMA LaunchesStep ==
    ASSUME TypeOK, Shape, Launches, [Next]_vars
    PROVE  Launches'
<1>a. ASSUME \A g \in Hud : call'[g].pc = "launch" => call'[g] = call[g],
             \A t \in Sessions : tel[t] = "none" => tel'[t] = "none"
      PROVE  Launches'
  <2>1. \A g \in Hud : call'[g].pc = "launch" => call[g].pc = "launch" /\ call[g].s \in Sessions
    BY <1>a DEF Shape
  <2> QED
    BY <1>a, <2>1 DEF Launches
<1>1. ASSUME NEW h \in Hud, Steps(h) PROVE Launches'
  BY <1>1, <1>a, GentleSteps DEF Gentle
<1>2. ASSUME NEW h \in Hud, Install(h) PROVE Launches'
  <2>1. PICK s \in Sessions : cs[s].state = "none" /\ call'[h].s = s
    BY <1>2, InstallEffect
  <2>2. tel' = tel /\ \A g \in Hud : g # h => call'[g] = call[g]
    BY <1>2, InstallEffect
  <2>3. tel[s] = "none" /\ \A g \in Hud : call[g].pc = "launch" => call[g].s # s
    BY <2>1 DEF Shape
  <2> QED
    BY <2>1, <2>2, <2>3 DEF Launches
<1>g. ASSUME NEW h \in Hud, Go(h) PROVE Launches'
  <2>1. /\ call[h].pc = "launch" /\ call'[h].pc = "idle"
        /\ \A g \in Hud : g # h => call'[g] = call[g]
        /\ tel' = [tel EXCEPT ![call[h].s] = "test"]
    BY <1>g, GoEffect DEF Moves
  <2>2. \A g \in Hud : call'[g].pc = "launch" =>
            g # h /\ call[g].pc = "launch" /\ call[g].s \in Sessions /\ call[g].s # call[h].s
    BY <2>1 DEF Launches, Shape
  <2> QED
    BY <2>1, <2>2 DEF Launches, TypeOK
<1>3. ASSUME NEW h \in Hud, FinishAccepted(h), Fit(cs[call[h].s].samples) PROVE Launches'
  BY <1>3, <1>a, AcceptEffect DEF Moves, FirstStep
<1>4. ASSUME NEW h \in Hud, SaveCopy(h) \/ SaveFails(h) \/ End(h) \/ Load(h) PROVE Launches'
  BY <1>4, <1>a, FileEffect DEF Moves
<1>5. ASSUME NEW h \in Hud, SaveWrite(h) PROVE Launches'
  BY <1>5, <1>a, WriteEffect DEF Moves
<1>6. ASSUME NEW h \in Hud, Cancel(h) PROVE Launches'
  BY <1>6, <1>a, CancelEffect DEF Moves
<1>7. ASSUME NEW t \in Sessions, LoopTest(t) \/ Tick(t) \/ TickRaises(t) PROVE Launches'
  <2>1. call' = call /\ \A r \in Sessions : tel[r] = "none" => tel'[r] = "none"
    BY <1>7, TickEffect DEF TypeOK
  <2> QED
    BY <1>a, <2>1
<1>8. ASSUME NEW t \in Sessions, LoopError(t) PROVE Launches'
  <2>1. call' = call /\ \A r \in Sessions : tel[r] = "none" => tel'[r] = "none"
    BY <1>8, ErrorEffect DEF TypeOK
  <2> QED
    BY <1>a, <2>1
<1>9. CASE Crash
  BY <1>9, CrashEffect DEF Launches
<1>10. CASE UNCHANGED vars
  BY <1>10 DEF vars, Launches
<1> QED
  BY <1>1, <1>2, <1>g, <1>3, <1>4, <1>5, <1>6, <1>7, <1>8, <1>9, <1>10, StepCases

LEMMA LocksStep ==
    ASSUME TypeOK, Shape, Locks, [Next]_vars
    PROVE  Locks'
<1>1. ASSUME NEW h \in Hud, Steps(h) PROVE Locks'
  BY <1>1, GentleSteps DEF Gentle, Locks, Saving
<1>2. ASSUME NEW h \in Hud, Install(h) PROVE Locks'
  BY <1>2, InstallEffect DEF Locks, Saving
<1>g. ASSUME NEW h \in Hud, Go(h) PROVE Locks'
  BY <1>g, GoEffect DEF Locks, Saving, Moves
<1>3. ASSUME NEW h \in Hud, FinishAccepted(h), Fit(cs[call[h].s].samples) PROVE Locks'
  BY <1>3, AcceptEffect DEF Locks, Saving, Free, FirstStep, Moves
<1>4. ASSUME NEW h \in Hud, SaveCopy(h) \/ SaveFails(h) \/ End(h) \/ Load(h) PROVE Locks'
  BY <1>4, FileEffect DEF Locks, Saving, Moves
<1>5. ASSUME NEW h \in Hud, SaveWrite(h) PROVE Locks'
  BY <1>5, WriteEffect DEF Locks, Saving, Moves
<1>6. ASSUME NEW h \in Hud, Cancel(h) PROVE Locks'
  BY <1>6, CancelEffect DEF Locks, Saving, Moves
<1>7. ASSUME NEW t \in Sessions, LoopTest(t) \/ Tick(t) \/ TickRaises(t) PROVE Locks'
  BY <1>7, TickEffect DEF Locks, Saving
<1>8. ASSUME NEW t \in Sessions, LoopError(t) PROVE Locks'
  BY <1>8, ErrorEffect DEF Locks, Saving
<1>9. CASE Crash
  BY <1>9, CrashEffect DEF Locks, Saving
<1>10. CASE UNCHANGED vars
  BY <1>10 DEF vars, Locks, Saving
<1> QED
  BY <1>1, <1>2, <1>g, <1>3, <1>4, <1>5, <1>6, <1>7, <1>8, <1>9, <1>10, StepCases

LEMMA StopsStep ==
    ASSUME TypeOK, Shape, Stops, [Next]_vars
    PROVE  Stops'
<1>d. \A t \in Sessions : Live(t) => drives[t] \in Sessions
  BY DEF Live, TypeOK
<1>a. ASSUME NEW s \in Sessions, NEW st, NEW ev, Becomes(s, st, ev), UNCHANGED <<tel, drives>>,
             st \in {"none", "idle"} => ~ev, st = "running" => cs[s].undone \/ ~ev,
             ~ev => st \in {"running", "error"} \/ cs[s].state = "none"
      PROVE  Stops'
  <2>1. \A r \in Sessions : /\ cs'[r].state \in {"none", "idle"} => ~cs'[r].stop
                            /\ cs'[r].state = "running" => cs'[r].undone \/ ~cs'[r].stop
    BY <1>a DEF Stops, Becomes
  <2>2. ASSUME NEW t \in Sessions, Live(t), ~cs'[drives[t]].stop
        PROVE  cs'[drives[t]].state \in {"running", "error"}
    <3>1. drives[t] \in Sessions /\ cs[drives[t]].state # "none"
      BY <1>d, <2>2 DEF Shape, Live
    <3> QED
      BY <1>a, <2>2, <3>1 DEF Stops, Becomes
  <2> QED
    BY <1>a, <2>1, <2>2 DEF Stops, Live
<1>1. ASSUME NEW h \in Hud, Steps(h) PROVE Stops'
  BY <1>1, <1>d, GentleSteps DEF Gentle, Stops, Live
<1>2. ASSUME NEW h \in Hud, Install(h) PROVE Stops'
  <2>1. PICK s \in Sessions : cs[s].state = "none" /\ Becomes(s, "idle", cs[s].stop)
    BY <1>2, InstallEffect
  <2>2. ~cs[s].stop /\ UNCHANGED <<tel, drives>>
    BY <1>2, <2>1, InstallEffect DEF Stops
  <2> QED
    BY <1>a, <2>1, <2>2
<1>g. ASSUME NEW h \in Hud, Go(h) PROVE Stops'
  <2>1. /\ cur \in Sessions /\ call[h].s \in Sessions /\ Becomes(cur, "running", cs[cur].stop)
        /\ cs[cur].stop => cs'[cur].undone
        /\ tel' = [tel EXCEPT ![call[h].s] = "test"]
        /\ drives' = [drives EXCEPT ![call[h].s] = cur]
    BY <1>g, GoEffect
  <2>2. \A r \in Sessions : /\ cs'[r].state \in {"none", "idle"} => ~cs'[r].stop
                            /\ cs'[r].state = "running" => cs'[r].undone \/ ~cs'[r].stop
    BY <2>1 DEF Stops, Becomes
  <2>3. ASSUME NEW t \in Sessions, Live(t)', ~cs'[drives'[t]].stop
        PROVE  cs'[drives'[t]].state \in {"running", "error"}
    <3>1. CASE t = call[h].s
      <4>1. drives'[t] = cur
        BY <2>1, <3>1 DEF TypeOK
      <4> QED
        BY <2>1, <4>1 DEF Becomes
    <3>2. CASE t # call[h].s
      <4>1. drives'[t] = drives[t] /\ Live(t)
        BY <2>1, <2>3, <3>2 DEF TypeOK, Live
      <4> QED
        BY <1>d, <2>1, <2>3, <4>1 DEF Stops, Becomes
    <3> QED
      BY <3>1, <3>2
  <2> QED
    BY <2>2, <2>3 DEF Stops
<1>3. ASSUME NEW h \in Hud, FinishAccepted(h), Fit(cs[call[h].s].samples) PROVE Stops'
  <2>1. call[h].s \in Sessions /\ cs[call[h].s].state = "running"
    BY <1>3, AcceptEffect DEF Shape
  <2> QED
    BY <1>3, <1>a, <2>1, AcceptEffect DEF Stops
<1>4. ASSUME NEW h \in Hud, SaveCopy(h) \/ SaveFails(h) \/ End(h) \/ Load(h) PROVE Stops'
  BY <1>4, FileEffect DEF Stops, Live
<1>5. ASSUME NEW h \in Hud, SaveWrite(h) PROVE Stops'
  BY <1>5, <1>a, WriteEffect
<1>6. ASSUME NEW h \in Hud, Cancel(h) PROVE Stops'
  BY <1>6, <1>a, CancelEffect
<1>7. ASSUME NEW t \in Sessions, LoopTest(t) \/ Tick(t) \/ TickRaises(t) PROVE Stops'
  <2>1. UNCHANGED <<cs, drives>> /\ \A r \in Sessions : Live(r)' => Live(r)
    BY <1>7, TickEffect DEF TypeOK, Live
  <2> QED
    BY <2>1 DEF Stops
<1>8. ASSUME NEW t \in Sessions, LoopError(t) PROVE Stops'
  <2>1. drives[t] \in Sessions /\ drives' = drives /\ \A r \in Sessions : Live(r)' => Live(r)
    BY <1>8, ErrorEffect DEF TypeOK, Live
  <2> QED
    BY <1>8, <1>d, <2>1, ErrorEffect DEF Stops, Becomes
<1>9. CASE Crash
  BY <1>9, CrashEffect DEF Stops, Live
<1>10. CASE UNCHANGED vars
  BY <1>10 DEF vars, Stops, Live
<1> QED
  BY <1>1, <1>2, <1>g, <1>3, <1>4, <1>5, <1>6, <1>7, <1>8, <1>9, <1>10, StepCases


\* The state of a saver's session.
LEMMA SavesStep ==
    ASSUME TypeOK, Shape, Locks, Stops, SavesAFit, [Next]_vars
    PROVE  SavesAFit'
<1> DEFINE Ok(c) == c.state \in {"running", "error"} /\ (c.undone \/ ~c.stop) /\ Fit(c.samples)
<1>0. SavesAFit <=> \A h \in Hud : Saving(h) => Ok(cs[call[h].s])
  BY DEF SavesAFit
<1>00. SavesAFit' <=> \A h \in Hud : Saving(h)' => Ok(cs'[call'[h].s])
  BY DEF SavesAFit
<1>a. \A h \in Hud : Saving(h) => call[h].s \in Sessions /\ ~Free(call[h].s)
  BY DEF Saving, Free, Shape
<1>1. ASSUME NEW h \in Hud, Steps(h) PROVE SavesAFit'
  <2>1. \A g \in Hud : Saving(g)' => Saving(g) /\ call'[g] = call[g]
    BY <1>1, GentleSteps DEF Gentle, Saving
  <2>2. \A s \in Sessions : (~Free(s) /\ Ok(cs[s])) => Ok(cs'[s])
    BY <1>1, GentleSteps DEF Gentle
  <2> QED
    BY <1>0, <1>00, <1>a, <2>1, <2>2
<1>2. ASSUME NEW h \in Hud, Install(h) PROVE SavesAFit'
  <2>1. \A g \in Hud : Saving(g)' => Saving(g) /\ call'[g] = call[g]
    BY <1>2, InstallEffect DEF Saving
  <2>2. \A s \in Sessions : Ok(cs[s]) => Ok(cs'[s])
    BY <1>2, InstallEffect DEF Becomes
  <2> QED
    BY <1>0, <1>00, <1>a, <2>1, <2>2
<1>g. ASSUME NEW h \in Hud, Go(h) PROVE SavesAFit'
  <2>1. \A g \in Hud : Saving(g)' => Saving(g) /\ call'[g] = call[g]
    BY <1>g, GoEffect DEF Moves, Saving
  <2>2. \A s \in Sessions : Ok(cs[s]) => Ok(cs'[s])
    BY <1>g, GoEffect DEF Becomes
  <2> QED
    BY <1>0, <1>00, <1>a, <2>1, <2>2
<1>3. ASSUME NEW h \in Hud, FinishAccepted(h), Fit(cs[call[h].s].samples) PROVE SavesAFit'
  <2>1. \A g \in Hud : g # h /\ Saving(g)' => Saving(g) /\ call'[g] = call[g]
    BY <1>3, AcceptEffect DEF Moves, Saving
  <2>2. call[h].s \in Sessions /\ call'[h].s = call[h].s
    BY <1>3, AcceptEffect DEF Shape, Moves, FirstStep
  <2>3. Ok(cs'[call[h].s])
    BY <1>3, <2>2, AcceptEffect DEF Becomes, Stops
  <2>4. \A s \in Sessions : Ok(cs[s]) => Ok(cs'[s])
    BY <1>3, <2>2, <2>3, AcceptEffect DEF Becomes
  <2> QED
    BY <1>0, <1>00, <1>a, <2>1, <2>2, <2>3, <2>4
<1>4. ASSUME NEW h \in Hud, SaveCopy(h) \/ SaveFails(h) \/ End(h) \/ Load(h) PROVE SavesAFit'
  <2>1. \A g \in Hud : Saving(g)' => Saving(g) /\ call'[g].s = call[g].s
    BY <1>4, FileEffect DEF Moves, Saving
  <2> QED
    BY <1>0, <1>00, <1>4, <2>1, FileEffect
<1>5. ASSUME NEW h \in Hud, SaveWrite(h) PROVE SavesAFit'
  <2>1. \A g \in Hud : Saving(g)' => g # h /\ Saving(g) /\ call'[g] = call[g] /\ call[g].s # call[h].s
    BY <1>5, WriteEffect DEF Moves, Saving, Locks
  <2>2. \A s \in Sessions : s # call[h].s => cs'[s] = cs[s]
    BY <1>5, WriteEffect DEF Becomes
  <2> QED
    BY <1>0, <1>00, <1>a, <2>1, <2>2
<1>6. ASSUME NEW h \in Hud, Cancel(h) PROVE SavesAFit'
  <2>1. \A g \in Hud : Saving(g)' => Saving(g) /\ call'[g] = call[g] /\ call[g].s # call[h].s
    BY <1>6, CancelEffect DEF Moves, Saving, Free
  <2>2. \A s \in Sessions : s # call[h].s => cs'[s] = cs[s]
    BY <1>6, CancelEffect DEF Becomes
  <2> QED
    BY <1>0, <1>00, <1>a, <2>1, <2>2
<1>7. ASSUME NEW t \in Sessions, LoopTest(t) \/ Tick(t) \/ TickRaises(t) PROVE SavesAFit'
  BY <1>0, <1>00, <1>7, TickEffect DEF Saving
<1>8. ASSUME NEW t \in Sessions, LoopError(t) PROVE SavesAFit'
  <2>1. call' = call /\ \A r \in Sessions : Ok(cs[r]) => Ok(cs'[r])
    BY <1>8, ErrorEffect DEF Becomes
  <2>2. \A g \in Hud : Saving(g)' => Saving(g)
    BY <2>1 DEF Saving
  <2> QED
    BY <1>0, <1>00, <1>a, <2>1, <2>2
<1>9. CASE Crash
  BY <1>9, CrashEffect DEF SavesAFit, Saving
<1>10. CASE UNCHANGED vars
  BY <1>10 DEF vars, SavesAFit, Saving
<1> QED
  BY <1>1, <1>2, <1>g, <1>3, <1>4, <1>5, <1>6, <1>7, <1>8, <1>9, <1>10, StepCases


\* Which session runs, saves or is to be started.
Bound(h) == Saving(h) \/ call[h].pc = "launch"

LEMMA SoloStep ==
    ASSUME TypeOK, Shape, Launches, Solo, [Next]_vars
    PROVE  Solo'
<1>a. ASSUME UNCHANGED <<cur, tel, drives, raced>>,
             \A g \in Hud : Bound(g)' => Bound(g) /\ call'[g].s = call[g].s,
             \A s \in Sessions : cs'[s].state = "running" => cs[s].state = "running",
             \A s \in Sessions : ~cs'[s].stop =>
                 ~cs[s].stop /\ (cs[s].state = "running" => cs'[s].state = "running")
      PROVE  Solo'
  BY <1>a DEF Solo, Live, Bound
<1>1. ASSUME NEW h \in Hud, Steps(h) PROVE Solo'
  <2>1. \A g \in Hud : Bound(g)' => Bound(g) /\ call'[g] = call[g]
    BY <1>1, GentleSteps DEF Gentle, Bound, Saving
  <2> QED
    BY <1>1, <1>a, <2>1, GentleSteps DEF Gentle
<1>2. ASSUME NEW h \in Hud, Install(h), ~raced' PROVE Solo'
  <2>1. PICK s \in Sessions : /\ cs[s].state = "none" /\ cur' = s /\ call'[h].s = s
                              /\ call'[h].pc = "launch" /\ Becomes(s, "idle", cs[s].stop)
    BY <1>2, InstallEffect
  <2>2. /\ ~raced /\ ~active /\ (cur # NoSession => Free(cur))
        /\ \A g \in Hud : call[g].pc # "launch"
        /\ UNCHANGED <<tel, drives>> /\ \A g \in Hud : g # h => call'[g] = call[g]
    BY <1>2, InstallEffect
  <2>3. \A g \in Hud : ~Saving(g)
    BY <2>2, NameAssumption DEF Solo, Free, Shape, Saving
  <2>4. \A g \in Hud : Bound(g)' => g = h
    BY <2>2, <2>3 DEF Bound, Saving
  <2>5. \A r \in Sessions : cs[r].state # "running"
    BY <2>2, NameAssumption DEF Solo, active
  <2>6. \A r \in Sessions : cs'[r].state # "running"
    BY <2>1, <2>5 DEF Becomes
  <2>7. \A t \in Sessions : ~(Live(t) /\ ~cs'[t].stop)
    BY <2>1, <2>2, <2>5 DEF Solo, Becomes
  <2> QED
    BY <2>1, <2>2, <2>4, <2>6, <2>7 DEF Solo, Bound, Live
<1>g. ASSUME NEW h \in Hud, Go(h), ~raced' PROVE Solo'
  <2>1. /\ ~raced /\ cur \in Sessions /\ call[h].s = cur /\ Becomes(cur, "running", cs[cur].stop)
        /\ tel' = [tel EXCEPT ![cur] = "test"] /\ drives' = [drives EXCEPT ![cur] = cur]
        /\ Moves(h, "idle") /\ cur' = cur
    BY <1>g, GoEffect DEF Solo
  <2>2. \A g \in Hud : Bound(g)' => Bound(g) /\ call'[g] = call[g]
    BY <2>1 DEF Moves, Bound, Saving
  <2>3. \A s \in Sessions : cs'[s].state = "running" => cur = s
    BY <2>1 DEF Solo, Becomes
  <2>4. \A t \in Sessions : tel'[t] # "none" => drives'[t] = t
    BY <2>1 DEF Solo, TypeOK
  <2>5. ASSUME NEW t \in Sessions, Live(t)', ~cs'[t].stop PROVE cs'[t].state = "running"
    <3>1. CASE t = cur
      BY <2>1, <3>1 DEF Becomes
    <3>2. CASE t # cur
      BY <2>1, <2>5, <3>2 DEF Becomes, Live, Solo, TypeOK
    <3> QED
      BY <3>1, <3>2
  <2> QED
    BY <2>1, <2>2, <2>3, <2>4, <2>5 DEF Solo, Bound
<1>3. ASSUME NEW h \in Hud, FinishAccepted(h), Fit(cs[call[h].s].samples), ~raced' PROVE Solo'
  <2>1. \A g \in Hud : g # h /\ Bound(g)' => Bound(g) /\ call'[g] = call[g]
    BY <1>3, AcceptEffect DEF Moves, Bound, Saving
  <2>2. call[h].s \in Sessions /\ call'[h].s = call[h].s /\ cs[call[h].s].state = "running"
    BY <1>3, AcceptEffect DEF Shape, Moves, FirstStep
  <2>3. \A s \in Sessions : cs'[s].state = cs[s].state /\ cs'[s].stop = cs[s].stop
    BY <1>3, <2>2, AcceptEffect DEF Becomes
  <2>4. UNCHANGED <<cur, tel, drives, raced>>
    BY <1>3, AcceptEffect
  <2> QED
    BY <1>3, <2>1, <2>2, <2>3, <2>4 DEF Solo, Bound, Live
<1>4. ASSUME NEW h \in Hud, SaveCopy(h) \/ SaveFails(h) \/ End(h) \/ Load(h) PROVE Solo'
  <2>1. \A g \in Hud : Bound(g)' => Bound(g) /\ call'[g].s = call[g].s
    BY <1>4, FileEffect DEF Moves, Bound, Saving
  <2> QED
    BY <1>4, <1>a, <2>1, FileEffect
<1>5. ASSUME NEW h \in Hud, SaveWrite(h) PROVE Solo'
  <2>1. \A g \in Hud : Bound(g)' => Bound(g) /\ call'[g] = call[g]
    BY <1>5, WriteEffect DEF Moves, Bound, Saving
  <2> QED
    BY <1>5, <1>a, <2>1, WriteEffect DEF Becomes
<1>6. ASSUME NEW h \in Hud, Cancel(h) PROVE Solo'
  <2>1. \A g \in Hud : Bound(g)' => Bound(g) /\ call'[g] = call[g]
    BY <1>6, CancelEffect DEF Moves, Bound, Saving
  <2> QED
    BY <1>6, <1>a, <2>1, CancelEffect DEF Becomes
<1>7. ASSUME NEW t \in Sessions, LoopTest(t) \/ Tick(t) \/ TickRaises(t) PROVE Solo'
  <2>1. /\ UNCHANGED <<cur, cs, drives, call, raced>>
        /\ \A r \in Sessions : (Live(r)' => Live(r)) /\ (tel'[r] # "none" => tel[r] # "none")
    BY <1>7, TickEffect DEF TypeOK, Live
  <2> QED
    BY <2>1 DEF Solo, Saving
<1>8. ASSUME NEW t \in Sessions, LoopError(t), ~raced PROVE Solo'
  <2>1. /\ drives[t] = t /\ Becomes(t, "error", cs[t].stop) /\ UNCHANGED <<cur, drives, call, raced>>
        /\ tel' = [tel EXCEPT ![t] = "done"]
    BY <1>8, ErrorEffect DEF Solo
  <2>2. \A r \in Sessions : (Live(r)' => Live(r) /\ r # t) /\ (tel'[r] # "none" => tel[r] # "none" \/ r = t)
    BY <2>1 DEF TypeOK, Live
  <2>3. tel[t] # "none"
    BY <1>8, ErrorEffect
  <2> QED
    BY <2>1, <2>2, <2>3 DEF Solo, Saving, Becomes
<1>9. CASE Crash
  BY <1>9, CrashEffect DEF Solo, Saving, Live
<1>10. CASE UNCHANGED vars
  BY <1>10 DEF vars, Solo, Saving, Live
<1>11. CASE raced'
  BY <1>11 DEF Solo
<1>12. ASSUME NEW t \in Sessions, LoopError(t) PROVE raced' = raced
  BY <1>12, ErrorEffect
<1> QED
  BY <1>1, <1>2, <1>g, <1>3, <1>4, <1>5, <1>6, <1>7, <1>8, <1>9, <1>10, <1>11, <1>12, StepCases

\* Unless raced, there is one saver.
LEMMA OneSaver ==
    ASSUME Locks, Solo, ~raced, NEW h \in Hud, NEW g \in Hud, Saving(h), Saving(g)
    PROVE  h = g
BY DEF Locks, Solo

\* The two files.
LEMMA CopiedStep ==
    ASSUME TypeOK, Shape, Locks, Solo, Copied, [Next]_vars
    PROVE  Copied'
<1>0. NoSession \notin Sessions /\ "absent" \notin Sessions /\ "torn" \notin Sessions /\ "old" \notin Sessions
  BY NameAssumption
<1>1. ASSUME NEW h \in Hud, Steps(h) PROVE Copied'
  <2>1. \A g \in Hud : Saving(g)' => Saving(g) /\ call'[g] = call[g]
    BY <1>1, GentleSteps DEF Gentle, Saving
  <2> QED
    BY <1>1, <2>1, GentleSteps DEF Gentle, Copied, Saving
<1>2. ASSUME NEW h \in Hud, Install(h) PROVE Copied'
  <2>1. \A g \in Hud : Saving(g)' => Saving(g) /\ call'[g] = call[g]
    BY <1>2, InstallEffect DEF Saving
  <2>2. (~raced') => ~raced
    BY <1>2, InstallEffect
  <2> QED
    BY <1>2, <2>1, <2>2, InstallEffect DEF Copied, Saving
<1>g. ASSUME NEW h \in Hud, Go(h) PROVE Copied'
  <2>1. \A g \in Hud : Saving(g)' => Saving(g) /\ call'[g] = call[g]
    BY <1>g, GoEffect DEF Moves, Saving
  <2> QED
    BY <1>g, <2>1, GoEffect DEF Copied, Saving
<1>3. ASSUME NEW h \in Hud, FinishAccepted(h), Fit(cs[call[h].s].samples) PROVE Copied'
  <2>1. Moves(h, FirstStep) /\ UNCHANGED <<main, bak, raced>>
    BY <1>3, AcceptEffect
  <2>2. call'[h].pc = FirstStep /\ \A g \in Hud : g # h => call'[g] = call[g]
    BY <2>1 DEF Moves
  <2>3. (main = "absent" => FirstStep = "write") /\ (main # "absent" => FirstStep = "copy")
    BY DEF FirstStep
  <2>4. "absent" \notin Good
    BY <1>0 DEF Good
  <2> QED
    BY <2>1, <2>2, <2>3, <2>4 DEF Copied, Good
<1>4. ASSUME NEW h \in Hud, SaveCopy(h) PROVE Copied'
  <2>1. Moves(h, "write") /\ bak' = main /\ main' = main /\ main # "absent" /\ raced' = raced
    BY <1>4, MovesTo DEF SaveCopy, Copied, Pcs
  <2> QED
    BY <2>1 DEF Moves, Copied
<1>5. ASSUME NEW h \in Hud, SaveFails(h) PROVE Copied'
  <2>1. Moves(h, "idle") /\ raced' = raced /\ Saving(h)
    BY <1>5, MovesTo DEF SaveFails
  <2>2. CASE call[h].pc = "copy"
    <3>1. main' = main /\ main # "absent"
      BY <1>5, <2>2 DEF SaveFails, Copied
    <3>2. ~raced => \A g \in Hud : call'[g].pc # "write"
      BY <2>1, OneSaver DEF Moves, Saving
    <3> QED
      BY <2>1, <3>1, <3>2 DEF Moves, Copied
  <2>3. CASE call[h].pc # "copy"
    <3>1. main' = "torn" /\ bak' = bak
      BY <1>5, <2>3 DEF SaveFails
    <3> QED
      BY <1>0, <2>1, <3>1 DEF Moves, Copied, Good
  <2> QED
    BY <2>2, <2>3
<1>6. ASSUME NEW h \in Hud, End(h) \/ Load(h) PROVE Copied'
  <2>1. \A g \in Hud : Saving(g)' => Saving(g) /\ call'[g] = call[g]
    BY <1>6, FileEffect DEF Moves, Saving, End, Load
  <2>2. main' = main /\ bak' = bak /\ raced' = raced
    BY <1>6 DEF End, Load, files
  <2> QED
    BY <2>1, <2>2 DEF Copied, Saving
<1>7. ASSUME NEW h \in Hud, SaveWrite(h) PROVE Copied'
  <2>1. Moves(h, "end") /\ main' \in Sessions /\ bak' = bak /\ raced' = raced /\ Saving(h)
    BY <1>7, WriteEffect DEF Saving
  <2>2. ~raced => \A g \in Hud : call'[g].pc # "write"
    BY <2>1, OneSaver DEF Moves, Saving
  <2> QED
    BY <1>0, <2>1, <2>2 DEF Moves, Copied
<1>8. ASSUME NEW h \in Hud, Cancel(h) PROVE Copied'
  <2>1. \A g \in Hud : Saving(g)' => Saving(g) /\ call'[g] = call[g]
    BY <1>8, CancelEffect DEF Moves, Saving
  <2>2. main' = main /\ bak' = bak /\ raced' = raced
    BY <1>8, CancelEffect
  <2> QED
    BY <2>1, <2>2 DEF Copied, Saving
<1>9. ASSUME NEW t \in Sessions, LoopTest(t) \/ Tick(t) \/ TickRaises(t) PROVE Copied'
  BY <1>9, TickEffect DEF Copied
<1>10. ASSUME NEW t \in Sessions, LoopError(t) PROVE Copied'
  BY <1>10, ErrorEffect DEF Copied
<1>11. CASE Crash
  <2>1. main' = "absent" => main = "absent"
    BY <1>11 DEF Crash, Seen
  <2>2. main = "absent" => bak' = "absent"
    BY <1>0, <1>11 DEF Crash, Copied
  <2> QED
    BY <1>11, <2>1, <2>2, CrashEffect DEF Copied
<1>12. CASE UNCHANGED vars
  BY <1>12 DEF vars, Copied
<1> QED
  BY <1>1, <1>2, <1>g, <1>3, <1>4, <1>5, <1>6, <1>7, <1>8, <1>9, <1>10, <1>11, <1>12, StepCases


\* Who has still to load a fitted session.
LEMMA AnnouncedStep ==
    ASSUME TypeOK, Shape, Locks, SavesAFit, Solo, Announced, [Next]_vars
    PROVE  Announced'
<1>0. NoSession \notin Sessions /\ "torn" \notin Sessions
  BY NameAssumption
<1> DEFINE Due == \E h \in Hud : call[h].pc \in {"end", "load"}
           Fitted == ~raced /\ cur # NoSession /\ cs[cur].state = "fitted"
<1>a. Announced <=> (Fitted => main = cur /\ (loaded = cur \/ Due))
  BY DEF Announced
<1>b. Announced' <=> (Fitted' => main' = cur' /\ (loaded' = cur' \/ Due'))
  BY DEF Announced
<1>c. Fitted => \A h \in Hud : ~Saving(h)
  BY <1>0 DEF Solo, SavesAFit
<1>1. ASSUME NEW h \in Hud, Steps(h) PROVE Announced'
  <2>1. Due => Due'
    BY <1>1, GentleSteps DEF Gentle
  <2>2. UNCHANGED <<main, loaded, cur>> /\ (Fitted' => Fitted)
    BY <1>1, GentleSteps DEF Gentle, TypeOK
  <2> QED
    BY <1>a, <1>b, <2>1, <2>2
<1>2. ASSUME NEW h \in Hud, Install(h) PROVE Announced'
  <2>1. PICK s \in Sessions : cur' = s /\ Becomes(s, "idle", cs[s].stop)
    BY <1>2, InstallEffect
  <2> QED
    BY <1>b, <2>1 DEF Becomes
<1>g. ASSUME NEW h \in Hud, Go(h) PROVE Announced'
  <2>1. cur' = cur /\ Becomes(cur, "running", cs[cur].stop)
    BY <1>g, GoEffect
  <2> QED
    BY <1>b, <2>1 DEF Becomes
<1>3. ASSUME NEW h \in Hud, FinishAccepted(h), Fit(cs[call[h].s].samples) PROVE Announced'
  <2>1. Due => Due'
    BY <1>3, AcceptEffect DEF Moves
  <2>2. UNCHANGED <<main, loaded, cur>> /\ (Fitted' => Fitted)
    BY <1>3, AcceptEffect DEF Becomes, TypeOK
  <2> QED
    BY <1>a, <1>b, <2>1, <2>2
<1>4. ASSUME NEW h \in Hud, SaveCopy(h) \/ SaveFails(h) PROVE Announced'
  <2>1. Saving(h) /\ (Fitted' => Fitted)
    BY <1>4, FileEffect DEF SaveCopy, SaveFails, Saving
  <2> QED
    BY <1>b, <1>c, <2>1
<1>5. ASSUME NEW h \in Hud, SaveWrite(h) PROVE Announced'
  <2>1. Saving(h) /\ UNCHANGED <<raced, cur>> /\ main' = call[h].s
    BY <1>5, WriteEffect DEF Saving
  <2>2. ~raced => call[h].s = cur
    BY <2>1 DEF Solo
  <2>3. Due'
    BY <1>5, WriteEffect DEF Moves
  <2> QED
    BY <1>b, <2>1, <2>2, <2>3
<1>6. ASSUME NEW h \in Hud, Cancel(h) PROVE Announced'
  <2>1. Due'
    BY <1>6, CancelEffect DEF Moves
  <2>3. UNCHANGED <<main, loaded, cur, raced>>
    BY <1>6, CancelEffect
  <2>4. \A s \in Sessions : cs'[s].state = "fitted" => cs[s].state = "fitted"
    BY <1>6, CancelEffect DEF Becomes
  <2>2. Fitted' => Fitted
    BY <2>3, <2>4 DEF TypeOK
  <2> QED
    BY <1>a, <1>b, <2>1, <2>2, <2>3
<1>7. ASSUME NEW h \in Hud, End(h) PROVE Announced'
  <2>1. UNCHANGED <<main, loaded, cur>> /\ (Fitted' <=> Fitted)
    BY <1>7 DEF End, files
  <2>2. Fitted => Due'
    BY <1>7, MovesTo DEF End, Moves, Pcs
  <2> QED
    BY <1>a, <1>b, <2>1, <2>2
<1>8. ASSUME NEW h \in Hud, Load(h) PROVE Announced'
  <2>1. UNCHANGED <<main, cur>> /\ (Fitted' <=> Fitted)
    BY <1>8 DEF Load
  <2>2. Fitted => Seen = {main}
    BY <1>c DEF Seen, Saving
  <2>3. Fitted => main = cur /\ main # "torn"
    BY <1>0, <1>a DEF TypeOK
  <2>4. Fitted => loaded' = main
    BY <1>8, <2>2, <2>3 DEF Load, Loads
  <2> QED
    BY <1>b, <2>1, <2>3, <2>4
<1>9. ASSUME NEW t \in Sessions, LoopTest(t) \/ Tick(t) \/ TickRaises(t) PROVE Announced'
  BY <1>9, TickEffect DEF Announced
<1>10. ASSUME NEW t \in Sessions, LoopError(t) PROVE Announced'
  <2>1. UNCHANGED <<main, loaded, cur, call>> /\ (Fitted' => Fitted)
    BY <1>10, ErrorEffect DEF Becomes, TypeOK
  <2> QED
    BY <1>a, <1>b, <2>1
<1>11. CASE Crash
  BY <1>11, CrashEffect DEF Announced
<1>12. CASE UNCHANGED vars
  BY <1>12 DEF vars, Announced
<1> QED
  BY <1>1, <1>2, <1>g, <1>3, <1>4, <1>5, <1>6, <1>7, <1>8, <1>9, <1>10, <1>11, <1>12, StepCases

LEMMA InvStep == Inv /\ [Next]_vars => Inv'
BY TypeStep, ShapeStep, LaunchesStep, LocksStep, StopsStep, SavesStep, SoloStep, CopiedStep, AnnouncedStep DEF Inv

-----------------------------------------------------------------------------
(* The theorems.                                                           *)

\* What every behaviour keeps: sessions, calls and files are well formed.
THEOREM TypeCorrect == Spec => []TypeOK
<1>1. Inv => TypeOK
  BY DEF Inv
<1> QED
  BY <1>1, InvInit, InvStep, PTL DEF Spec

\* finish() saves only a session that has not ended, or whose end start() undid, with a
\* fit of its samples.
THEOREM SavesAFitHolds == Spec => []SavesAFit
<1>1. Inv => SavesAFit
  BY DEF Inv
<1> QED
  BY <1>1, InvInit, InvStep, PTL DEF Spec

\* After the last request, the robot uses the calibration that was saved (_end).
THEOREM SavedIsLoadedHolds == Spec => []SavedIsLoaded
<1>1. Inv => SavedIsLoaded
  BY DEF Inv, Announced, SavedIsLoaded
<1> QED
  BY <1>1, InvInit, InvStep, PTL DEF Spec

\* _loop moves the arm only for a session that was not ended, and without a race only
\* for the controller's, while it runs.
THEOREM NoStragglerTickHolds == Spec => NoStragglerTick
<1> DEFINE A == \A t \in Sessions : (tel[t] = "lock" /\ tel'[t] = "test") =>
                   LET s == drives[t] IN
                   /\ cs[s].state \in {"running", "error"} /\ ~cs[s].stop
                   /\ raced \/ (cs[s].state = "running" /\ cur = s)
<1>1. ASSUME Inv, [Next]_vars PROVE A
  <2> SUFFICES ASSUME NEW t \in Sessions, tel[t] = "lock", tel'[t] = "test"
               PROVE  /\ cs[drives[t]].state \in {"running", "error"} /\ ~cs[drives[t]].stop
                      /\ raced \/ (cs[drives[t]].state = "running" /\ cur = drives[t])
    OBVIOUS
  <2> USE DEF Inv
  <2>1. ~cs[drives[t]].stop
    <3>1. ASSUME NEW h \in Hud, Install(h) PROVE FALSE
      BY <1>1, <3>1, InstallEffect
    <3>g. ASSUME NEW h \in Hud, Go(h) PROVE FALSE
      <4>1. tel[call[h].s] = "none" /\ tel' = [tel EXCEPT ![call[h].s] = "test"]
        BY <1>1, <3>g, GoEffect DEF Launches
      <4> QED
        BY <1>1, <4>1 DEF TypeOK
    <3>2. ASSUME NEW h \in Hud, Steps(h) PROVE FALSE
      BY <1>1, <3>2, GentleSteps DEF Gentle
    <3>3. ASSUME NEW h \in Hud, FinishAccepted(h), Fit(cs[call[h].s].samples) PROVE FALSE
      BY <1>1, <3>3, AcceptEffect
    <3>4. ASSUME NEW h \in Hud, SaveCopy(h) \/ SaveFails(h) \/ End(h) \/ Load(h) PROVE FALSE
      BY <1>1, <3>4, FileEffect
    <3>5. ASSUME NEW h \in Hud, SaveWrite(h) \/ Cancel(h) PROVE FALSE
      BY <1>1, <3>5, WriteEffect, CancelEffect
    <3>6. ASSUME NEW r \in Sessions, LoopTest(r) \/ Tick(r) \/ TickRaises(r) PROVE ~cs[drives[t]].stop
      BY <1>1, <3>6 DEF LoopTest, Tick, TickRaises, Heeds, TypeOK
    <3>7. ASSUME NEW r \in Sessions, LoopError(r) PROVE FALSE
      BY <1>1, <3>7, ErrorEffect DEF TypeOK
    <3>8. ~Crash /\ ~UNCHANGED vars
      BY CrashEffect DEF vars
    <3> QED
      BY <1>1, <3>1, <3>g, <3>2, <3>3, <3>4, <3>5, <3>6, <3>7, <3>8, StepCases
  <2>2. cs[drives[t]].state \in {"running", "error"}
    BY <1>1, <2>1 DEF Stops, Live
  <2>3. ~raced => cs[drives[t]].state = "running" /\ cur = drives[t]
    BY <1>1, <2>1 DEF Solo, Live
  <2> QED
    BY <2>1, <2>2, <2>3
<1>2. Inv /\ [Next]_vars => [A]_vars
  BY <1>1
<1> QED
  BY <1>2, InvInit, InvStep, PTL DEF Spec, NoStragglerTick

\* The last intact calibration survives a save that fails and a crash in a save.
THEOREM LastCopyHolds == Spec => LastCopy
<1> DEFINE A == (Intact /\ ~raced /\ main # "torn") => Intact'
<1>0. "absent" \notin Good /\ "old" \in Good /\ Sessions \subseteq Good
  BY NameAssumption DEF Good
<1>1. ASSUME Inv, [Next]_vars, Intact, ~raced, main # "torn" PROVE Intact'
  <2> USE DEF Inv
  <2>1. main \in Good
    BY <1>0, <1>1 DEF Intact, Copied, Good, TypeOK, Contents
  <2>2. ASSUME UNCHANGED main PROVE Intact'
    BY <2>1, <2>2 DEF Intact
  <2>3. ASSUME NEW h \in Hud, SaveFails(h) PROVE Intact'
    <3>1. CASE call[h].pc = "copy"
      BY <2>2, <2>3, <3>1 DEF SaveFails
    <3>2. CASE call[h].pc # "copy"
      <4>1. bak \in Good /\ bak' = bak
        BY <1>1, <2>1, <2>3, <3>2 DEF SaveFails, Saving, Copied
      <4> QED
        BY <4>1 DEF Intact
    <3> QED
      BY <3>1, <3>2
  <2>4. ASSUME NEW h \in Hud, SaveWrite(h) PROVE Intact'
    BY <1>0, <1>1, <2>4, WriteEffect DEF Intact
  <2>5. CASE Crash
    <3>1. PICK file \in Seen : main' = IF file \in Sessions THEN "old" ELSE file
      BY <2>5 DEF Crash
    <3>2. CASE file = main
      BY <1>0, <2>1, <3>1, <3>2 DEF Intact
    <3>3. CASE file # main
      <4>1. PICK h \in Hud : call[h].pc = "write"
        BY <3>3 DEF Seen
      <4>2. bak \in Good /\ \A g \in Hud : call[g].pc # "copy"
        BY <1>1, <2>1, <4>1, OneSaver DEF Copied, Saving
      <4>3. bak' \in {"old", bak}
        BY <2>5, <4>2 DEF Crash
      <4> QED
        BY <1>0, <4>2, <4>3 DEF Intact
    <3> QED
      BY <3>2, <3>3
  <2>6. ASSUME NEW h \in Hud, Steps(h) \/ Install(h) \/ Go(h) \/ Cancel(h) \/ SaveCopy(h) \/ End(h) \/ Load(h)
               \/ (FinishAccepted(h) /\ Fit(cs[call[h].s].samples))
        PROVE  UNCHANGED main
    BY <1>1, <2>6, GentleSteps, InstallEffect, GoEffect, CancelEffect, AcceptEffect
    DEF Gentle, SaveCopy, End, Load, files
  <2>7. ASSUME NEW t \in Sessions, LoopTest(t) \/ Tick(t) \/ TickRaises(t) \/ LoopError(t)
        PROVE  UNCHANGED main
    BY <1>1, <2>7, TickEffect, ErrorEffect
  <2>8. CASE UNCHANGED vars
    BY <2>2, <2>8 DEF vars
  <2> QED
    BY <1>1, <2>2, <2>3, <2>4, <2>5, <2>6, <2>7, <2>8, StepCases
<1>2. Inv /\ [Next]_vars => [A]_vars
  BY <1>1
<1> QED
  BY <1>2, InvInit, InvStep, PTL DEF Spec, LastCopy

=============================================================================
