------------------------------- MODULE Chat_proofs -------------------------------
(***************************************************************************)
(* Theorems about Chat, for any pushers, texts and bounds: it is           *)
(* type-correct, it treats a run as RunPort says, and with the stream a    *)
(* stop is served before its sentence is queued, by a stop event that is   *)
(* there until the run ends (StreamStops).                                 *)
(*                                                                         *)
(* StreamStops is not inductive.  The strengthening, Stage, says what is   *)
(* known of the line in the microphone: it has been served, or the         *)
(* transcript that will serve it is to come and fires, because what fired  *)
(* before was something else.  Between two lines nothing has fired, unless *)
(* a line was cut off.  Evented says what being served is worth: the stop  *)
(* event is set as long as the run goes on in which the line was said.     *)
(***************************************************************************)
EXTENDS Chat, SequenceTheorems, TLAPS

\* A stop in the microphone is served, or is going to be.
Promised ==
    (/\ mic.line # 0
     /\ said[mic.line].by = Mic /\ IsStop(said[mic.line].text) /\ ~said[mic.line].cut) =>
        \/ said[mic.line].served
        \/ mic.coming \in {<<"stop">>, <<"pause", "stop">>} /\ mic.fired # "stop"

\* The line in the microphone, and the memory of what fired.
Stage ==
    /\ mic.line = 0 => mic.coming = <<>>
    /\ mic.line = 0 /\ ~cut => mic.fired = "none"
    /\ Promised

\* A line that was served has set the stop event of its run.
Evented ==
    /\ alive => run # 0
    /\ \A n \in DOMAIN said :
         /\ said[n].run <= run
         /\ (said[n].served /\ alive /\ run = said[n].run) => stopEv

\* What holds of a line that waits, and that it holds of all of them.
Settled(n) == (said[n].by = Mic /\ IsStop(said[n].text) /\ ~said[n].cut) => said[n].served

WaitersSettled == \A n \in Waiting : Settled(n)

Inv == TypeOK /\ Stage /\ Evented /\ WaitersSettled

\* A step keeps the lines; what was served stays served.
Kept ==
    /\ said' \in Seq(LineType)
    /\ Len(said') \in Len(said)..MaxSaid
    /\ \A n \in DOMAIN said :
         /\ said'[n].text = said[n].text /\ said'[n].by = said[n].by
         /\ said'[n].cut = said[n].cut /\ said'[n].run = said[n].run
         /\ said[n].served => said'[n].served

-----------------------------------------------------------------------------
(* Lemmas about sequences and lines.                                       *)

LEMMA Wider ==
    ASSUME NEW m \in Nat, NEW n \in Nat, m <= n, NEW s \in Seq(1..m)
    PROVE  s \in Seq(1..n)
OBVIOUS

\* Lines changed one by one are still lines.
LEMMA Lines ==
    ASSUME TypeOK, NEW s, s = [n \in DOMAIN said |-> s[n]],
           \A n \in DOMAIN said :
             /\ s[n] \in LineType
             /\ s[n].text = said[n].text /\ s[n].by = said[n].by /\ s[n].cut = said[n].cut
             /\ s[n].run = said[n].run
             /\ said[n].served => s[n].served,
           said' = s
    PROVE  Kept /\ Len(said') = Len(said)
<1>1. said \in Seq(LineType) /\ DOMAIN said = 1..Len(said) /\ Len(said) \in Nat /\ Len(said) <= MaxSaid
  BY DEF TypeOK
<1>2. s \in Seq(LineType) /\ Len(s) = Len(said)
  BY <1>1, SeqDef
<1> QED
  BY <1>1, <1>2, BoundAssumption DEF Kept

LEMMA LineHasType ==
    ASSUME TypeOK, NEW text \in Typed \cup Spoken, NEW p \in Pushers, NEW twin \in Nat
    PROVE  Line(text, p, twin) \in LineType
<1> DEFINE r == IF alive THEN run ELSE 0
           k == p = Mic /\ cut
<1>1. r \in 0..MaxRuns
  BY BoundAssumption DEF TypeOK
<1>2. k \in BOOLEAN
  BY DEF TypeOK
<1>3. Line(text, p, twin) =
        [text |-> text, by |-> p, run |-> r, cut |-> k,
         served |-> FALSE, behind |-> FALSE, lost |-> FALSE, twin |-> twin]
  BY DEF Line
<1> HIDE DEF r, k
<1> QED
  BY <1>1, <1>2, <1>3 DEF LineType

\* A line of which the history is written.
LEMMA Marked ==
    ASSUME NEW c \in LineType, NEW n \in Nat,
           NEW d, \/ d = c \/ d = [c EXCEPT !.served = TRUE] \/ d = [c EXCEPT !.behind = TRUE]
                  \/ d = [c EXCEPT !.lost = TRUE] \/ d = [c EXCEPT !.twin = n]
    PROVE  /\ d \in LineType
           /\ d.text = c.text /\ d.by = c.by /\ d.cut = c.cut /\ d.run = c.run
           /\ c.served => d.served
BY DEF LineType

LEMMA NewLine ==
    ASSUME TypeOK, NEW c \in LineType, Len(said) < MaxSaid, said' = Append(said, c)
    PROVE  Kept /\ Len(said') = Len(said) + 1 /\ said'[Len(said) + 1] = c
<1>1. said \in Seq(LineType) /\ Len(said) \in Nat
  BY DEF TypeOK
<1>2. /\ said' \in Seq(LineType) /\ Len(said') = Len(said) + 1
      /\ said'[Len(said) + 1] = c
      /\ \A n \in DOMAIN said : said'[n] = said[n]
  BY <1>1, AppendProperties
<1> QED
  BY <1>1, <1>2, BoundAssumption DEF Kept

LEMMA SameLines ==
    ASSUME TypeOK, said' = said
    PROVE  Kept
BY BoundAssumption DEF TypeOK, Kept

-----------------------------------------------------------------------------
(* What each step does to the lines.                                       *)

LEMMA KeptStep ==
    ASSUME TypeOK, [Next]_vars
    PROVE  Kept
<1>0. said \in Seq(LineType) /\ DOMAIN said = 1..Len(said) /\ Len(said) \in Nat
  BY DEF TypeOK
<1>z. last \in Nat /\ \A n \in DOMAIN said : said[n] \in LineType
  BY <1>0 DEF TypeOK
<1>1. ASSUME NEW t \in Typists, Type(t) PROVE Kept
  <2>1. PICK text \in Typed, twin \in Nat : Len(said) < MaxSaid /\ said' = Append(said, Line(text, t, twin))
    BY <1>1 DEF Type, TypeOK
  <2> QED
    BY <2>1, LineHasType, NewLine DEF Pushers
<1>2. CASE Hear
  <2>1. PICK text \in Spoken : Len(said) < MaxSaid /\ said' = Append(said, Line(text, Mic, 0))
    BY <1>2 DEF Hear
  <2> QED
    BY <2>1, LineHasType, NewLine DEF Pushers
<1>3. CASE OnPartial
  <2>1. CASE said' = said
    BY <2>1, SameLines
  <2>2. CASE said' = [said EXCEPT ![mic.line].served = TRUE]
    <3>0. \A n \in DOMAIN said : said'[n] = said[n] \/ said'[n] = [said[n] EXCEPT !.served = TRUE]
      BY <1>0, <2>2
    <3>1. \A n \in DOMAIN said : said'[n] \in LineType /\ said'[n].text = said[n].text
              /\ said'[n].by = said[n].by /\ said'[n].cut = said[n].cut /\ said'[n].run = said[n].run
              /\ (said[n].served => said'[n].served)
      BY <1>z, <3>0, Marked
    <3> QED
      BY <2>2, <3>1, Lines
  <2> QED
    BY <1>3, <2>1, <2>2 DEF OnPartial
<1>4. CASE OnFinal
  <2>1. CASE said' = said
    BY <2>1, SameLines
  <2>2. CASE said' = [said EXCEPT ![mic.line].twin = last]
    <3>0. \A n \in DOMAIN said : said'[n] = said[n] \/ said'[n] = [said[n] EXCEPT !.twin = last]
      BY <1>0, <2>2
    <3>1. \A n \in DOMAIN said : said'[n] \in LineType /\ said'[n].text = said[n].text
              /\ said'[n].by = said[n].by /\ said'[n].cut = said[n].cut /\ said'[n].run = said[n].run
              /\ (said[n].served => said'[n].served)
      BY <1>z, <3>0 DEF LineType
    <3> QED
      BY <2>2, <3>1, Lines
  <2> QED
    BY <1>4, <2>1, <2>2 DEF OnFinal
<1>5. CASE MicOff
  <2>1. CASE said' = said
    BY <2>1, SameLines
  <2>2. CASE said' = [said EXCEPT ![mic.line].lost = TRUE]
    <3>0. \A n \in DOMAIN said : said'[n] = said[n] \/ said'[n] = [said[n] EXCEPT !.lost = TRUE]
      BY <1>0, <2>2
    <3>1. \A n \in DOMAIN said : said'[n] \in LineType /\ said'[n].text = said[n].text
              /\ said'[n].by = said[n].by /\ said'[n].cut = said[n].cut /\ said'[n].run = said[n].run
              /\ (said[n].served => said'[n].served)
      BY <1>z, <3>0, Marked
    <3> QED
      BY <2>2, <3>1, Lines
  <2> QED
    BY <1>5, <2>1, <2>2 DEF MicOff
<1>6. CASE Drain
  <2>1. said' = [n \in DOMAIN said |->
                  IF In(n, Tail(q)) /\ said[n].text = "stop"
                    THEN [said[n] EXCEPT !.behind = TRUE] ELSE said[n]]
    BY <1>6 DEF Drain
  <2>2. \A n \in DOMAIN said : said'[n] \in LineType /\ said'[n].text = said[n].text
            /\ said'[n].by = said[n].by /\ said'[n].cut = said[n].cut /\ said'[n].run = said[n].run
              /\ (said[n].served => said'[n].served)
    BY <1>0, <1>z, <2>1, Marked
  <2> QED
    BY <2>1, <2>2, Lines
<1>7. CASE Do
  <2>1. CASE said' = said
    BY <2>1, SameLines
  <2>2. CASE said' = [n \in DOMAIN said |->
                        IF In(n, turn) /\ IsStop(said[n].text)
                          THEN [said[n] EXCEPT !.served = TRUE] ELSE said[n]]
    <3>1. \A n \in DOMAIN said : said'[n] \in LineType /\ said'[n].text = said[n].text
              /\ said'[n].by = said[n].by /\ said'[n].cut = said[n].cut /\ said'[n].run = said[n].run
              /\ (said[n].served => said'[n].served)
      BY <1>0, <1>z, <2>2, Marked
    <3> QED
      BY <2>2, <3>1, Lines
  <2> QED
    BY <1>7, <2>1, <2>2 DEF Do
<1>8. ASSUME \/ \E p \in Pushers : Put(p)
             \/ WindowEnds \/ MicOn \/ PartialPut \/ Answer \/ ModelFails \/ Done
             \/ Start \/ Gate \/ DrainInputs \/ RunEnds \/ UNCHANGED vars
      PROVE  Kept
  <2>1. said' = said
    BY <1>8 DEF Put, WindowEnds, MicOn, PartialPut, Answer, ModelFails, Done, Start, Gate, DrainInputs, RunEnds, vars
  <2> QED
    BY <2>1, SameLines
<1> QED
  BY <1>1, <1>2, <1>3, <1>4, <1>5, <1>6, <1>7, <1>8 DEF Next, Stream, Worker

-----------------------------------------------------------------------------
(* Type correctness.                                                       *)

LEMMA TypeInit == Init => TypeOK
<1> SUFFICES ASSUME Init PROVE TypeOK
  OBVIOUS
<1>1. said = <<>> /\ Len(said) = 0 /\ said \in Seq(LineType)
  BY DEF Init
<1>2. 0 \in 0..Len(said) /\ 0 \in 0..MaxOffs /\ 0 \in 0..MaxRuns /\ Len(said) <= MaxSaid
  BY <1>1, BoundAssumption
<1>3. q \in Seq(1..Len(said)) /\ turn \in Seq(1..Len(said)) /\ todo \in Seq({"events", "stop", "told"})
  BY DEF Init
<1> QED
  BY <1>1, <1>2, <1>3 DEF Init, TypeOK

\* What the step leaves of the rest is typed as before, for there are as many lines
\* or more.
LEMMA Numbers ==
    ASSUME TypeOK, Kept
    PROVE  /\ Len(said) \in Nat /\ Len(said') \in Nat /\ Len(said) <= Len(said')
           /\ 0..Len(said) \subseteq 0..Len(said')
           /\ \A s \in Seq(1..Len(said)) : s \in Seq(1..Len(said'))
           /\ last \in 0..Len(said') /\ push \in [Pushers -> 0..Len(said')]
           /\ mic.line \in 0..Len(said')
<1>1. Len(said) \in Nat /\ Len(said') \in Nat /\ Len(said) <= Len(said')
  BY DEF TypeOK, Kept
<1>2. 0..Len(said) \subseteq 0..Len(said')
  BY <1>1
<1>3. \A s \in Seq(1..Len(said)) : s \in Seq(1..Len(said'))
  BY <1>1, Wider
<1> QED
  BY <1>1, <1>2, <1>3 DEF TypeOK

LEMMA TypeStep ==
    ASSUME TypeOK, [Next]_vars
    PROVE  TypeOK'
<1>k. said' \in Seq(LineType) /\ Len(said') \in Nat /\ Len(said') <= MaxSaid /\ Kept
  BY KeptStep, BoundAssumption DEF TypeOK, Kept
<1>n. /\ Len(said) \in Nat /\ Len(said) <= Len(said')
      /\ 0..Len(said) \subseteq 0..Len(said')
      /\ \A s \in Seq(1..Len(said)) : s \in Seq(1..Len(said'))
      /\ last \in 0..Len(said') /\ push \in [Pushers -> 0..Len(said')]
      /\ mic.line \in 0..Len(said')
  BY <1>k, Numbers
<1>m. mic \in [on : BOOLEAN, line : 0..Len(said'), fired : {"none", "pause", "stop"},
               coming : {<<>>, <<"pause">>, <<"stop">>, <<"pause", "stop">>}, puts : BOOLEAN]
  BY <1>n DEF TypeOK
<1>0. 0 \in 0..Len(said') /\ \A S : <<>> \in Seq(S)
  BY <1>k
<1>w. \A s \in {<<>>, <<"told">>, Urgent} : s \in Seq({"events", "stop", "told"})
  <2>1. <<>> \in Seq({"events", "stop", "told"}) /\ <<"told">> \in Seq({"events", "stop", "told"})
        /\ <<"events", "stop">> \in Seq({"events", "stop", "told"})
    OBVIOUS
  <2> QED
    BY <2>1 DEF Urgent
<1>1. ASSUME NEW t \in Typists, Type(t) PROVE TypeOK'
  <2>1. push' \in [Pushers -> 0..Len(said')]
    <3>1. PICK text \in Typed, twin \in Nat : Len(said) < MaxSaid /\ said' = Append(said, Line(text, t, twin))
      BY <1>1 DEF Type, TypeOK
    <3>2. Len(said') = Len(said) + 1
      BY <1>n, <3>1, LineHasType, NewLine DEF Pushers
    <3> QED
      BY <1>1, <1>n, <3>2 DEF Type
  <2> QED
    BY <1>1, <1>k, <1>n, <1>m, <2>1 DEF Type, TypeOK, workVars, runVars
<1>2. ASSUME NEW p \in Pushers, Put(p) PROVE TypeOK'
  <2>1. push[p] \in 1..Len(said)
    BY <1>2 DEF Put, TypeOK
  <2>2. Append(q, push[p]) \in Seq(1..Len(said))
    BY <2>1 DEF TypeOK
  <2> QED
    BY <1>2, <1>k, <1>n, <1>m, <2>1, <2>2 DEF Put, TypeOK, workVars, runVars
<1>3. CASE WindowEnds
  BY <1>3, <1>k, <1>n, <1>m DEF WindowEnds, TypeOK, workVars, runVars
<1>4. CASE MicOn
  BY <1>4, <1>k, <1>n, <1>m DEF MicOn, TypeOK, pushVars, workVars, runVars
<1>5. CASE Hear
  <2>1. PICK text \in Spoken :
            /\ Len(said) < MaxSaid /\ said' = Append(said, Line(text, Mic, 0))
            /\ mic' = [mic EXCEPT !.line = Len(said) + 1, !.coming = Partials(text)]
    BY <1>5 DEF Hear
  <2>2. Len(said') = Len(said) + 1
    BY <1>n, <2>1, LineHasType, NewLine DEF Pushers
  <2>3. Partials(text) \in {<<>>, <<"pause">>, <<"stop">>, <<"pause", "stop">>}
    BY DEF Partials
  <2>4. Len(said) + 1 \in 0..Len(said')
    BY <1>n, <2>2
  <2>5. mic' \in [on : BOOLEAN, line : 0..Len(said'), fired : {"none", "pause", "stop"},
               coming : {<<>>, <<"pause">>, <<"stop">>, <<"pause", "stop">>}, puts : BOOLEAN]
    BY <1>m, <2>1, <2>3, <2>4
  <2> QED
    BY <1>5, <1>k, <1>n, <2>5 DEF Hear, TypeOK, pushVars, workVars, runVars
<1>6. CASE OnPartial
  <2>1. Tail(mic.coming) \in {<<>>, <<"stop">>} /\ Head(mic.coming) \in {"pause", "stop"}
    <3>1. mic.coming \in {<<"pause">>, <<"stop">>, <<"pause", "stop">>}
      BY <1>6, <1>m DEF OnPartial
    <3>2. CASE mic.coming = <<"pause">>
      BY <3>2
    <3>3. CASE mic.coming = <<"stop">>
      BY <3>3
    <3>4. CASE mic.coming = <<"pause", "stop">>
      BY <3>4
    <3> QED
      BY <3>1, <3>2, <3>3, <3>4
  <2>2. mic' \in [on : BOOLEAN, line : 0..Len(said'), fired : {"none", "pause", "stop"},
               coming : {<<>>, <<"pause">>, <<"stop">>, <<"pause", "stop">>}, puts : BOOLEAN]
    BY <1>6, <1>m, <2>1 DEF OnPartial
  <2> QED
    BY <1>6, <1>k, <1>n, <2>2 DEF OnPartial, SetStop, TypeOK, pushVars, workVars
<1>7. CASE PartialPut
  BY <1>7, <1>k, <1>n, <1>m DEF PartialPut, TypeOK, pushVars, workVars, runVars
<1>8. CASE OnFinal
  <2>1. mic' \in [on : BOOLEAN, line : 0..Len(said'), fired : {"none", "pause", "stop"},
               coming : {<<>>, <<"pause">>, <<"stop">>, <<"pause", "stop">>}, puts : BOOLEAN]
    BY <1>8, <1>m, <1>0 DEF OnFinal, Heard
  <2>2. push' \in [Pushers -> 0..Len(said')]
    BY <1>8, <1>n DEF OnFinal
  <2> QED
    BY <1>8, <1>k, <1>n, <2>1, <2>2 DEF OnFinal, TypeOK, workVars, runVars
<1>9. CASE MicOff
  <2>1. mic' \in [on : BOOLEAN, line : 0..Len(said'), fired : {"none", "pause", "stop"},
               coming : {<<>>, <<"pause">>, <<"stop">>, <<"pause", "stop">>}, puts : BOOLEAN]
    BY <1>9, <1>m, <1>0 DEF MicOff
  <2>3. offs' \in 0..MaxOffs
    BY <1>9, BoundAssumption DEF MicOff, TypeOK
  <2>4. cut' \in BOOLEAN
    BY <1>9 DEF MicOff, TypeOK
  <2>2. offs' \in 0..MaxOffs /\ cut' \in BOOLEAN
    BY <2>3, <2>4
  <2> QED
    BY <1>9, <1>k, <1>n, <2>1, <2>2 DEF MicOff, TypeOK, pushVars, workVars, runVars
<1>10. CASE Drain
  <2>1. todo' \in Seq({"events", "stop", "told"}) /\ wpc' \in {"idle", "model", "do"}
    BY <1>10, <1>w DEF Drain
  <2> QED
    BY <1>10, <1>0, <1>k, <1>n, <1>m, <2>1 DEF Drain, TypeOK, pushVars, runVars
<1>11. CASE Answer
  <2>1. todo' \in Seq({"events", "stop", "told"})
    <3>1. PICK command, more \in {<<>>, <<"told">>}, urgent \in {<<>>, Urgent} :
              todo' = command \o urgent \o more
      BY <1>11 DEF Answer
    <3>2. \A s, u \in Seq({"events", "stop", "told"}) : s \o u \in Seq({"events", "stop", "told"})
      OBVIOUS
    <3> QED
      BY <1>w, <3>1, <3>2
  <2> QED
    BY <1>11, <1>k, <1>n, <1>m, <2>1 DEF Answer, TypeOK, pushVars, runVars
<1>12. CASE ModelFails \/ Done
  BY <1>12, <1>0, <1>k, <1>n, <1>m DEF ModelFails, Done, AfterError, TypeOK, pushVars, runVars
<1>13. CASE Do
  <2>1. /\ Tail(todo) \in Seq({"events", "stop", "told"})
        /\ Head(todo) \in {"events", "stop", "told"}
    BY <1>13, HeadTailProperties DEF Do, TypeOK
  <2> QED
    BY <1>13, <1>k, <1>n, <1>m, <2>1 DEF Do, SetStop, TypeOK, pushVars
<1>14. CASE Start
  <2>1. run + 1 \in 0..MaxRuns
    BY <1>14, BoundAssumption DEF Start, TypeOK
  <2> QED
    BY <1>14, <1>k, <1>n, <1>m, <2>1 DEF Start, NewStopEv, TypeOK, pushVars, workVars
<1>15. CASE Gate \/ DrainInputs \/ RunEnds
  BY <1>15, <1>k, <1>n, <1>m DEF Gate, DrainInputs, RunEnds, TypeOK, pushVars, workVars
<1>16. CASE UNCHANGED vars
  BY <1>16, <1>k, <1>n, <1>m DEF TypeOK, vars, pushVars, workVars, runVars
<1> QED
  BY <1>1, <1>2, <1>3, <1>4, <1>5, <1>6, <1>7, <1>8, <1>9, <1>10, <1>11, <1>12, <1>13, <1>14, <1>15, <1>16
  DEF Next, Stream, Worker

\* Whatever is said, cut off, merged and answered, the state is well-typed.
THEOREM TypeCorrect == Spec => []TypeOK
<1>1. TypeOK /\ [Next]_vars => TypeOK'
  BY TypeStep
<1> QED
  BY <1>1, TypeInit, PTL DEF Spec

-----------------------------------------------------------------------------
(* The stage of the line in the microphone.                                *)

\* A line that is still being heard keeps its stage if the microphone does.
LEMMA StageKept ==
    ASSUME TypeOK, Kept, Stage, UNCHANGED <<mic, cut>>
    PROVE  Stage'
<1>1. mic.line # 0 => mic.line \in DOMAIN said
  BY DEF TypeOK
<1>2. (mic.line # 0 /\ said[mic.line].served) => said'[mic.line].served
  BY <1>1 DEF Kept
<1>3. mic.line # 0 => /\ said'[mic.line].text = said[mic.line].text /\ said'[mic.line].by = said[mic.line].by
                      /\ said'[mic.line].cut = said[mic.line].cut
  BY <1>1 DEF Kept
<1> QED
  BY <1>2, <1>3 DEF Stage, Promised

LEMMA StageStep ==
    ASSUME TypeOK, Stage, [Next]_vars
    PROVE  Stage'
<1>k. Kept
  BY KeptStep
<1>m. /\ mic \in [on : BOOLEAN, line : 0..Len(said), fired : {"none", "pause", "stop"},
                  coming : {<<>>, <<"pause">>, <<"stop">>, <<"pause", "stop">>}, puts : BOOLEAN]
      /\ DOMAIN said = 1..Len(said) /\ Len(said) \in Nat
  BY DEF TypeOK
<1>z. \A n \in DOMAIN said : said[n] \in LineType
  BY <1>m DEF TypeOK
<1>1. CASE MicOn
  <2>1. /\ mic'.line = mic.line /\ mic'.coming = mic.coming /\ mic'.fired = mic.fired
        /\ said' = said /\ cut' = cut
    BY <1>1, <1>m DEF MicOn
  <2> QED
    BY <2>1 DEF Stage, Promised
<1>2. CASE Hear
  <2>1. PICK text \in Spoken :
            /\ Len(said) < MaxSaid /\ said' = Append(said, Line(text, Mic, 0))
            /\ mic' = [mic EXCEPT !.line = Len(said) + 1, !.coming = Partials(text)]
            /\ mic.line = 0
    BY <1>2 DEF Hear
  <2>2. /\ mic'.line = Len(said) + 1 /\ mic'.coming = Partials(text) /\ mic'.fired = mic.fired
    BY <1>m, <2>1
  <2>3. said'[mic'.line] = Line(text, Mic, 0)
    BY <2>1, <2>2, LineHasType, NewLine DEF Pushers
  <2>8. cut \in BOOLEAN
    BY DEF TypeOK
  <2>4. said'[mic'.line].text = text /\ said'[mic'.line].cut = cut
    BY <2>3, <2>8 DEF Line
  <2>7. ~cut => mic.fired # "stop"
    BY <2>1 DEF Stage
  <2>5. IsStop(text) => Partials(text) \in {<<"stop">>, <<"pause", "stop">>}
    BY DEF IsStop, Partials
  <2>6. mic'.line # 0
    BY <1>m, <2>2
  <2> QED
    BY <2>2, <2>4, <2>5, <2>6, <2>7, <2>8 DEF Stage, Promised
<1>3. CASE OnPartial
  <2>1. mic'.line = mic.line /\ mic'.coming = Tail(mic.coming)
    BY <1>3, <1>m DEF OnPartial
  <2>2. mic.line # 0 /\ mic.line \in DOMAIN said
    BY <1>3, <1>m DEF OnPartial, Stage
  <2>3. said[mic.line].served => said'[mic.line].served
    BY <1>k, <2>2 DEF Kept
  <2>4. /\ said'[mic.line].text = said[mic.line].text /\ said'[mic.line].by = said[mic.line].by
        /\ said'[mic.line].cut = said[mic.line].cut
    BY <1>k, <2>2 DEF Kept
  <2>5. CASE mic.coming = <<"stop">> /\ mic.fired # "stop"
    <3>1. said' = [said EXCEPT ![mic.line].served = TRUE]
      BY <1>3, <2>5 DEF OnPartial, Fires
    <3>2. said'[mic.line].served
      BY <2>2, <3>1, <1>z DEF LineType
    <3> QED
      BY <2>1, <2>2, <3>2 DEF Stage, Promised
  <2>6. CASE mic.coming = <<"pause", "stop">> /\ mic.fired # "stop"
    <3>1. mic'.coming = <<"stop">>
      BY <2>1, <2>6
    <3>2. mic'.fired # "stop"
      BY <1>3, <1>m, <2>6 DEF OnPartial
    <3> QED
      BY <2>1, <2>2, <3>1, <3>2 DEF Stage, Promised
  <2>7. CASE said[mic.line].served
    BY <2>1, <2>2, <2>3, <2>7 DEF Stage, Promised
  <2>8. CASE ~(said[mic.line].by = Mic /\ IsStop(said[mic.line].text) /\ ~said[mic.line].cut)
    BY <2>1, <2>2, <2>4, <2>8 DEF Stage, Promised
  <2> QED
    BY <2>2, <2>5, <2>6, <2>7, <2>8 DEF Stage, Promised
<1>4. CASE PartialPut
  <2>1. /\ mic'.line = mic.line /\ mic'.coming = mic.coming /\ mic'.fired = mic.fired
        /\ said' = said /\ cut' = cut
    BY <1>4, <1>m DEF PartialPut
  <2> QED
    BY <2>1 DEF Stage, Promised
<1>5. CASE OnFinal
  <2>1. mic'.line = 0 /\ mic'.fired = "none" /\ mic'.coming = <<>>
    BY <1>5, <1>m DEF OnFinal, Heard
  <2> QED
    BY <2>1 DEF Stage, Promised
<1>6. CASE MicOff
  <2>1. mic'.line = 0 /\ mic'.fired = mic.fired /\ mic'.coming = <<>>
    BY <1>6, <1>m DEF MicOff
  <2>2. (mic.line = 0 /\ cut' = cut) \/ cut'
    BY <1>6 DEF MicOff
  <2> QED
    BY <2>1, <2>2 DEF Stage, Promised
<1>7. ASSUME \/ \E t \in Typists : Type(t)
             \/ \E p \in Pushers : Put(p)
             \/ WindowEnds \/ Worker \/ Start \/ Gate \/ DrainInputs \/ RunEnds \/ UNCHANGED vars
      PROVE  Stage'
  <2>1. UNCHANGED <<mic, cut>>
    BY <1>7 DEF Type, Put, WindowEnds, Worker, Drain, Answer, ModelFails, Do, Done, Start, Gate,
                DrainInputs, RunEnds, vars
  <2> QED
    BY <1>k, <2>1, StageKept
<1> QED
  BY <1>1, <1>2, <1>3, <1>4, <1>5, <1>6, <1>7 DEF Next, Stream

-----------------------------------------------------------------------------
(* What being served is worth.                                             *)

\* Nobody clears the event of a run that is going, and no new line is of another run.
LEMMA EventedStep ==
    ASSUME TypeOK, Evented, [Next]_vars
    PROVE  Evented'
<1>k. Kept
  BY KeptStep
<1>s. /\ DOMAIN said = 1..Len(said) /\ Len(said) \in Nat /\ run \in Nat
      /\ \A n \in DOMAIN said : said[n] \in LineType
  BY BoundAssumption DEF TypeOK
\* Steps that set the event.
<1>1. ASSUME DOMAIN said' = DOMAIN said, run' = run, alive' = alive, SetStop
      PROVE  Evented'
  <2>1. alive' => stopEv' /\ run' # 0
    BY <1>1 DEF Evented, SetStop
  <2>2. \A n \in DOMAIN said' : said'[n].run <= run'
    BY <1>k, <1>1 DEF Kept, Evented
  <2> QED
    BY <2>1, <2>2 DEF Evented
\* Steps that serve no line and leave the event.
<1>2. ASSUME DOMAIN said' = DOMAIN said, \A n \in DOMAIN said : said'[n].served = said[n].served,
             run' = run, stopEv' = stopEv, alive' => alive
      PROVE  Evented'
  BY <1>k, <1>2 DEF Kept, Evented
\* Steps that add a line.
<1>3. ASSUME NEW text \in Typed \cup Spoken, NEW p \in Pushers, NEW twin \in Nat,
             Len(said) < MaxSaid, said' = Append(said, Line(text, p, twin)), UNCHANGED runVars
      PROVE  Evented'
  <2>1. /\ DOMAIN said' = DOMAIN said \cup {Len(said) + 1}
        /\ said'[Len(said) + 1] = Line(text, p, twin)
        /\ \A n \in DOMAIN said : said'[n] = said[n]
    BY <1>3, <1>s, LineHasType, NewLine, AppendProperties DEF TypeOK
  <2>2. ~Line(text, p, twin).served /\ Line(text, p, twin).run \in {0, run}
    BY DEF Line
  <2>3. run' = run /\ alive' = alive /\ stopEv' = stopEv
    BY <1>3 DEF runVars
  <2>4. ASSUME NEW n \in DOMAIN said'
        PROVE  said'[n].run <= run' /\ ((said'[n].served /\ alive' /\ run' = said'[n].run) => stopEv')
    <3>1. CASE n \in DOMAIN said
      BY <2>1, <2>3, <3>1 DEF Evented
    <3>2. CASE n = Len(said) + 1
      BY <1>s, <2>1, <2>2, <2>3, <3>2
    <3> QED
      BY <2>1, <2>4, <3>1, <3>2
  <2> QED
    BY <2>3, <2>4 DEF Evented
<1>4. ASSUME NEW t \in Typists, Type(t) PROVE Evented'
  <2>1. PICK text \in Typed, twin \in Nat : Len(said) < MaxSaid /\ said' = Append(said, Line(text, t, twin))
    BY <1>4 DEF Type, TypeOK
  <2>2. UNCHANGED runVars
    BY <1>4 DEF Type
  <2> QED
    BY <1>3, <2>1, <2>2 DEF Pushers
<1>5. CASE Hear
  <2>1. PICK text \in Spoken : Len(said) < MaxSaid /\ said' = Append(said, Line(text, Mic, 0))
    BY <1>5 DEF Hear
  <2>2. UNCHANGED runVars
    BY <1>5 DEF Hear
  <2> QED
    BY <1>3, <2>1, <2>2 DEF Pushers
<1>6. CASE OnPartial
  <2>1. run' = run /\ alive' = alive /\ DOMAIN said' = DOMAIN said
    BY <1>6 DEF OnPartial
  <2>2. CASE SetStop
    BY <1>1, <2>1, <2>2
  <2>3. CASE UNCHANGED <<stopEv, said>>
    BY <1>2, <2>1, <2>3
  <2> QED
    BY <1>6, <2>2, <2>3 DEF OnPartial
<1>7. CASE Do
  <2>1. run' = run /\ alive' = alive /\ DOMAIN said' = DOMAIN said
    BY <1>7 DEF Do
  <2>2. CASE SetStop
    BY <1>1, <2>1, <2>2
  <2>3. CASE UNCHANGED <<stopEv, said>>
    BY <1>2, <2>1, <2>3
  <2> QED
    BY <1>7, <2>2, <2>3 DEF Do
<1>8. CASE OnFinal \/ MicOff \/ Drain
  <2>1. run' = run /\ alive' = alive /\ stopEv' = stopEv
    BY <1>8 DEF OnFinal, MicOff, Drain, runVars
  <2>2. DOMAIN said' = DOMAIN said
    BY <1>8 DEF OnFinal, MicOff, Drain
  <2>3. ASSUME NEW n \in DOMAIN said PROVE said'[n].served = said[n].served
    <3>1. \/ said'[n] = said[n]
          \/ said'[n] = [said[n] EXCEPT !.twin = last]
          \/ said'[n] = [said[n] EXCEPT !.lost = TRUE]
          \/ said'[n] = [said[n] EXCEPT !.behind = TRUE]
      BY <1>8 DEF OnFinal, MicOff, Drain
    <3> QED
      BY <1>s, <3>1 DEF LineType
  <2> QED
    BY <1>2, <2>1, <2>2, <2>3
<1>9. CASE Start
  <2>1. /\ said' = said /\ run' = run + 1 /\ run + 1 # 0
        /\ \A n \in DOMAIN said : said[n].run <= run + 1 /\ said[n].run # run + 1
    <3>1. \A n \in DOMAIN said : said[n].run \in Nat
      BY <1>s, BoundAssumption DEF LineType
    <3> QED
      BY <1>9, <1>s, <3>1 DEF Start, Evented
  <2> QED
    BY <2>1 DEF Evented
<1>10. ASSUME \/ \E p \in Pushers : Put(p)
              \/ WindowEnds \/ MicOn \/ PartialPut \/ Answer \/ ModelFails \/ Done
              \/ Gate \/ DrainInputs \/ RunEnds \/ UNCHANGED vars
       PROVE  Evented'
  <2>1. said' = said /\ run' = run /\ stopEv' = stopEv /\ (alive' => alive)
    BY <1>10 DEF Put, WindowEnds, MicOn, PartialPut, Answer, ModelFails, Done, Gate, DrainInputs,
                 RunEnds, vars, runVars
  <2> QED
    BY <1>2, <2>1
<1> QED
  BY <1>4, <1>5, <1>6, <1>7, <1>8, <1>9, <1>10 DEF Next, Stream, Worker

-----------------------------------------------------------------------------
(* The lines that wait for an answer.                                      *)

Held(n) == In(n, q) \/ In(n, turn) \/ \E p \in Pushers : push[p] = n

LEMMA HeldIsSaid ==
    ASSUME TypeOK, NEW n \in Nat \ {0}, Held(n)
    PROVE  n \in DOMAIN said
<1>1. DOMAIN said = 1..Len(said) /\ Len(said) \in Nat
  BY DEF TypeOK
<1>2. \A s \in Seq(1..Len(said)) : In(n, s) => n \in 1..Len(said)
  BY DEF In
<1>3. \A p \in Pushers : push[p] = n => n \in 1..Len(said)
  BY DEF TypeOK
<1> QED
  BY <1>1, <1>2, <1>3 DEF Held, TypeOK

\* A line that waited is as settled as it was.
LEMMA SettledKept ==
    ASSUME Kept, NEW n \in DOMAIN said, Settled(n)
    PROVE  Settled(n)'
BY DEF Kept, Settled

\* A step keeps WaitersSettled if what waits after it waited before or is settled.
LEMMA WaitersStep ==
    ASSUME TypeOK, Kept, WaitersSettled,
           \A n \in DOMAIN said' : Held(n)' => Held(n) \/ Settled(n)'
    PROVE  WaitersSettled'
<1>1. SUFFICES ASSUME NEW n \in DOMAIN said', Held(n)' PROVE Settled(n)'
  BY DEF WaitersSettled, Waiting, Held
<1>2. CASE Held(n)
  <2>1. n \in Nat \ {0}
    BY DEF Kept
  <2>2. n \in DOMAIN said
    BY <1>2, <2>1, HeldIsSaid
  <2>3. Settled(n)
    BY <1>2, <2>2 DEF WaitersSettled, Waiting, Held
  <2> QED
    BY <2>2, <2>3, SettledKept
<1> QED
  BY <1>1, <1>2

LEMMA NothingIn == \A n : ~In(n, <<>>)
BY DEF In

LEMMA WaitersNext ==
    ASSUME TypeOK, Stage, WaitersSettled, [Next]_vars
    PROVE  WaitersSettled'
<1>k. Kept
  BY KeptStep
<1>s. DOMAIN said = 1..Len(said) /\ Len(said) \in Nat /\ said \in Seq(LineType)
  BY DEF TypeOK
<1>1. ASSUME NEW t \in Typists, Type(t) PROVE WaitersSettled'
  <2>1. PICK text \in Typed, twin \in Nat : Len(said) < MaxSaid /\ said' = Append(said, Line(text, t, twin))
    BY <1>1 DEF Type, TypeOK
  <2>n. PICK m \in Nat : m = Len(said) + 1
    BY <1>s
  <2>2. said'[m].by = t
    BY <2>1, <2>n, LineHasType, NewLine DEF Pushers, Line
  <2>3. Settled(m)'
    BY <2>2, MicAssumption DEF Settled
  <2>4. q' = q /\ turn' = turn /\ \A p \in Pushers : push'[p] = push[p] \/ push'[p] = m
    BY <1>1, <2>n DEF Type, workVars, TypeOK
  <2>5. \A n \in DOMAIN said' : Held(n)' => Held(n) \/ n = m
    BY <2>4 DEF Held, In
  <2> QED
    BY <1>k, <2>3, <2>5, WaitersStep
<1>2. ASSUME NEW p \in Pushers, Put(p) PROVE WaitersSettled'
  <2>1. /\ q' = Append(q, push[p]) /\ turn' = turn
        /\ \A r \in Pushers : push'[r] = push[r] \/ push'[r] = 0
    BY <1>2 DEF Put, workVars, TypeOK
  <2>2. q \in Seq(1..Len(said)) /\ push[p] \in 1..Len(said)
    BY <1>2 DEF Put, TypeOK
  <2>3. \A n : In(n, q') => In(n, q) \/ push[p] = n
    BY <2>1, <2>2 DEF In
  <2>4. \A n \in DOMAIN said' : n # 0
    BY <1>k DEF Kept
  <2>5. \A n \in DOMAIN said' : Held(n)' => Held(n)
    BY <2>1, <2>3, <2>4 DEF Held, In
  <2> QED
    BY <1>k, <2>5, WaitersStep
<1>3. CASE OnFinal
  <2>1. PICK m \in DOMAIN said : m = mic.line /\ mic.line # 0 /\ mic.coming = <<>>
    BY <1>3, <1>s DEF OnFinal, TypeOK
  <2>5. Settled(m)
    BY <2>1 DEF Stage, Promised, Settled
  <2>2. Settled(m)'
    BY <1>k, <2>5, SettledKept
  <2>3. q' = q /\ turn' = turn /\ \A p \in Pushers : push'[p] = push[p] \/ push'[p] = m
    BY <1>3, <2>1 DEF OnFinal, workVars, TypeOK
  <2>4. \A n \in DOMAIN said' : Held(n)' => Held(n) \/ n = m
    BY <2>3 DEF Held, In
  <2> QED
    BY <1>k, <2>2, <2>4, WaitersStep
<1>4. CASE Drain
  <2>1. turn' = q /\ q' = <<>> /\ push' = push
    BY <1>4 DEF Drain, pushVars
  <2>2. \A n \in DOMAIN said' : Held(n)' => Held(n)
    BY <2>1, NothingIn DEF Held, In
  <2> QED
    BY <1>k, <2>2, WaitersStep
<1>5. CASE ModelFails \/ Done
  <2>1. turn' = <<>> /\ q' = q /\ push' = push
    BY <1>5 DEF ModelFails, Done, pushVars
  <2>2. \A n \in DOMAIN said' : Held(n)' => Held(n)
    BY <2>1, NothingIn DEF Held, In
  <2> QED
    BY <1>k, <2>2, WaitersStep
<1>6. ASSUME \/ WindowEnds \/ MicOn \/ Hear \/ OnPartial \/ PartialPut \/ MicOff
             \/ Answer \/ Do \/ Start \/ Gate \/ DrainInputs \/ RunEnds \/ UNCHANGED vars
      PROVE  WaitersSettled'
  <2>1. turn' = turn /\ q' = q /\ push' = push
    BY <1>6 DEF WindowEnds, MicOn, Hear, OnPartial, PartialPut, MicOff, Answer, Do, Start, Gate,
                DrainInputs, RunEnds, vars, pushVars, workVars
  <2>2. \A n \in DOMAIN said' : Held(n)' => Held(n)
    BY <2>1 DEF Held, In
  <2> QED
    BY <1>k, <2>2, WaitersStep
<1> QED
  BY <1>1, <1>2, <1>3, <1>4, <1>5, <1>6 DEF Next, Stream, Worker

LEMMA InvInit == Init => Inv
<1> SUFFICES ASSUME Init PROVE Inv
  OBVIOUS
<1>1. Stage
  BY DEF Init, Stage, Promised
<1>2. WaitersSettled
  BY DEF Init, WaitersSettled, Waiting
<1>3. Evented
  BY DEF Init, Evented
<1> QED
  BY <1>1, <1>2, <1>3, TypeInit DEF Inv

\* However the sentence of a stop is delayed, merged, cut off by the next or dropped,
\* the stream has served it before: the stop event was set from an interim transcript
\* (_on_partial) and is still set if the run is still going, unless the line follows one that was never endpointed.
THEOREM StreamStopsHolds == Spec => []StreamStops
<1>1. Inv /\ [Next]_vars => Inv'
  BY TypeStep, StageStep, EventedStep, WaitersNext DEF Inv
<1>2. Inv => StreamStops
  <2> SUFFICES ASSUME Inv, NEW n \in Waiting, said[n].by = Mic, IsStop(said[n].text), ~said[n].cut
               PROVE  said[n].served /\ (Going(n) => stopEv)
    BY DEF StreamStops
  <2>1. n \in DOMAIN said /\ said[n].served
    BY DEF Inv, WaitersSettled, Waiting, Settled
  <2> QED
    BY <2>1 DEF Inv, Evented, Going
<1> QED
  BY <1>1, <1>2, InvInit, PTL DEF Spec

-----------------------------------------------------------------------------
(* The port to the run.                                                    *)

\* Before the first run there is no Control whose event could be set.
NoControl == run = 0 => ~stopEv

LEMMA QueuedValue ==
    /\ (StopQueued' <=> StopQueued) => StopQueued' = StopQueued
    /\ (StopQueued' => StopQueued' = TRUE) /\ (~StopQueued' => StopQueued' = FALSE)
    /\ (StopQueued => StopQueued = TRUE) /\ (~StopQueued => StopQueued = FALSE)
<1>1. StopQueued \in BOOLEAN /\ StopQueued' \in BOOLEAN
  BY SMT DEF StopQueued
<1>2. (StopQueued' => StopQueued' = TRUE) /\ (~StopQueued' => StopQueued' = FALSE)
  BY <1>1, Zenon
<1>3. (StopQueued => StopQueued = TRUE) /\ (~StopQueued => StopQueued = FALSE)
  BY <1>1, Zenon
<1> QED
  BY <1>2, <1>3

LEMMA SamePort ==
    ASSUME UNCHANGED runVars, StopQueued' <=> StopQueued
    PROVE  UNCHANGED Port!vars
BY QueuedValue DEF runVars, Port!vars

LEMMA PutPort ==
    ASSUME UNCHANGED runVars, NEW d, directives' = directives \cup {d}
    PROVE  Port!Next \/ UNCHANGED Port!vars
<1>1. CASE StopQueued' <=> StopQueued
  BY <1>1, SamePort
<1>2. CASE StopQueued'
  BY <1>2, QueuedValue DEF Port!Next, Port!PutStop, runVars
<1>3. StopQueued => StopQueued'
  BY DEF StopQueued
<1> QED
  BY <1>1, <1>2, <1>3

LEMMA SetStopPort ==
    ASSUME TypeOK, NoControl, SetStop, UNCHANGED <<run, alive, directives>>
    PROVE  Port!Next \/ UNCHANGED Port!vars
<1>1. CASE run # 0
  <2>1. stopEv' = TRUE
    BY <1>1 DEF SetStop
  <2>2. StopQueued' = StopQueued
    BY QueuedValue DEF StopQueued
  <2> QED
    BY <1>1, <2>1, <2>2 DEF Port!Next, Port!SetStop
<1>2. CASE run = 0
  <2>1. stopEv' = stopEv
    BY <1>2 DEF SetStop, NoControl, TypeOK
  <2>2. StopQueued' = StopQueued
    BY QueuedValue DEF StopQueued
  <2> QED
    BY <2>1, <2>2 DEF Port!vars
<1> QED
  BY <1>1, <1>2

LEMMA PortStep ==
    ASSUME TypeOK, NoControl, [Next]_vars
    PROVE  (Port!Next \/ UNCHANGED Port!vars) /\ NoControl'
<1>a. alive \in BOOLEAN /\ run \in Nat
  BY BoundAssumption DEF TypeOK
<1>1. ASSUME \/ \E t \in Typists : Type(t)
             \/ \E p \in Pushers : Put(p)
             \/ WindowEnds \/ MicOn \/ Hear \/ OnFinal \/ MicOff
             \/ Drain \/ Answer \/ ModelFails \/ Done \/ UNCHANGED vars
      PROVE  (Port!Next \/ UNCHANGED Port!vars) /\ NoControl'
  <2>1. UNCHANGED runVars /\ directives' = directives
    BY <1>1 DEF Type, Put, WindowEnds, MicOn, Hear, OnFinal, MicOff, Drain, Answer, ModelFails,
                Done, vars, runVars
  <2> QED
    BY <2>1, SamePort DEF NoControl, runVars, StopQueued
<1>2. CASE OnPartial
  <2>1. UNCHANGED <<run, alive, directives>> /\ (SetStop \/ UNCHANGED stopEv)
    BY <1>2 DEF OnPartial
  <2>2. CASE SetStop
    BY <2>1, <2>2, SetStopPort DEF SetStop, NoControl
  <2>3. CASE UNCHANGED stopEv
    BY <2>1, <2>3, SamePort DEF NoControl, runVars, StopQueued
  <2> QED
    BY <2>1, <2>2, <2>3
<1>3. CASE Do
  <2>1. UNCHANGED <<run, alive>>
    BY <1>3 DEF Do
  <2>2. CASE SetStop /\ UNCHANGED directives
    BY <2>1, <2>2, SetStopPort DEF SetStop, NoControl
  <2>3. CASE directives' = directives \cup {Head(todo)} /\ UNCHANGED stopEv
    BY <2>1, <2>3, PutPort DEF NoControl, runVars
  <2> QED
    BY <1>3, <2>2, <2>3 DEF Do
<1>4. CASE PartialPut
  BY <1>4, PutPort DEF PartialPut, NoControl, runVars
<1>5. CASE Start
  <2>1. ~alive /\ alive' = TRUE /\ stopEv' = FALSE /\ run' = run + 1 /\ directives' = directives
    BY <1>5 DEF Start, NewStopEv
  <2>2. StopQueued' = StopQueued
    BY <2>1, QueuedValue DEF StopQueued
  <2> QED
    BY <2>1, <2>2, <1>a DEF Port!Next, Port!Begin, NoControl
<1>6. CASE DrainInputs
  <2>1. alive /\ directives' = {} /\ UNCHANGED <<run, stopEv>> /\ alive' \in BOOLEAN
        /\ ("stop" \notin directives => alive' = alive)
    BY <1>6, <1>a DEF DrainInputs
  <2>2. CASE StopQueued
    <3>1. StopQueued = TRUE /\ StopQueued' = FALSE
      BY <2>1, <2>2, QueuedValue DEF StopQueued
    <3> QED
      BY <2>1, <3>1 DEF Port!Next, Port!TakeStop, NoControl
  <2>3. CASE ~StopQueued
    BY <2>1, <2>3, SamePort DEF runVars, NoControl, StopQueued
  <2> QED
    BY <2>2, <2>3
<1>7. CASE Gate \/ RunEnds
  <2>1. alive /\ alive' = FALSE /\ UNCHANGED <<run, stopEv, directives>>
    BY <1>7 DEF Gate, RunEnds
  <2>2. StopQueued' = StopQueued
    BY <2>1, QueuedValue DEF StopQueued
  <2> QED
    BY <2>1, <2>2 DEF Port!Next, Port!End, NoControl
<1> QED
  BY <1>1, <1>2, <1>3, <1>4, <1>5, <1>6, <1>7 DEF Next, Stream, Worker

\* What Chat knows of a run is RunPort, no more: whatever is said and however it travels,
\* the run begins, is stopped and ends as it does in SortSession, which implements the
\* same port.
THEOREM ChatKeepsPort == Spec => PortPromise
<1>1. Init => Port!Init /\ NoControl
  <2> SUFFICES ASSUME Init PROVE Port!Init /\ NoControl
    OBVIOUS
  <2>1. StopQueued = FALSE
    BY QueuedValue DEF Init, StopQueued
  <2> QED
    BY <2>1 DEF Init, Port!Init, NoControl
<1>2. TypeOK /\ NoControl /\ [Next]_vars => [Port!Next]_(Port!vars)
  BY PortStep
<1>3. TypeOK /\ NoControl /\ [Next]_vars => NoControl'
  BY PortStep
<1> QED
  BY <1>1, <1>2, <1>3, TypeCorrect, PTL DEF Spec, PortPromise, Port!Spec

=============================================================================
