---------------------------------- MODULE Chat ----------------------------------
(***************************************************************************)
(* What the human says, from the microphone and the text box to the run:   *)
(* VoiceIO's interim transcripts, push and q_heard, the ChatWorker's turns, *)
(* the directive queue, and as much of a run as a stop ends.               *)
(*                                                                         *)
(* A line is its number in `said`; what was said is one of five texts that *)
(* the patterns of voice.py tell apart.  The streaming microphone shows    *)
(* interim transcripts before the sentence; the other pushers bring whole  *)
(* lines.  What a pause and the other directives do to a run is in         *)
(* SortSession: here a rule, a hint, a command or an action is "told", and *)
(* of the directive queue only what is in it counts.                       *)
(***************************************************************************)
EXTENDS Naturals, Sequences, FiniteSets

CONSTANTS
    Typists,     \* threads that push whole lines: HUD requests, stdin, the chunk loop
    Mic,         \* the thread of the streaming microphone
    Typed,       \* what may be pushed as a whole
    Spoken,      \* what may be said to the stream
    MaxSaid,     \* bound on lines
    MaxRuns,     \* bound on runs
    MaxOffs      \* bound on how often the stream ends

ASSUME BoundAssumption == MaxSaid \in Nat /\ MaxRuns \in Nat /\ MaxOffs \in Nat
ASSUME MicAssumption == Mic \notin Typists
ASSUME TextAssumption ==
    Typed \cup Spoken \subseteq {"stop", "wait", "wait, stop now", "open", "talk"}

VARIABLES
    said,        \* history: the lines, with what became of them
    mic,         \* the stream: on, the line being heard, its interim transcripts
                 \* to come, _partial_urgent, a stop directive to be queued
    offs,        \* how often the stream has ended
    cut,         \* history: a line was cut off and no sentence has been heard since
    last,        \* _last_push: the line, 0 before the first
    fresh,       \* less than DEDUPE_S since then
    push,        \* the line each pusher has checked and not queued yet, or 0
    q,           \* q_heard
    wpc,         \* where the chat worker is
    turn,        \* the lines it answers
    todo,        \* what it has still to do about them
    directives,  \* q_directives: whether it holds a stop, whether anything else
    run, alive,  \* the run that the Session's ctl belongs to; whether it is going
    stopEv       \* its stop event

pushVars == <<last, fresh, push>>
workVars == <<wpc, turn, todo>>
runVars  == <<run, alive, stopEv>>
vars == <<said, mic, offs, cut, last, fresh, push, q, wpc, turn, todo, directives, run, alive, stopEv>>

Pushers == Typists \cup {Mic}

-----------------------------------------------------------------------------
(* What the patterns make of a line.                                       *)

IsStop(text) == text \in {"stop", "wait, stop now"}

\* The urgent kinds of the interim transcripts of a line, as it grows.
Partials(text) ==
    CASE text = "stop" -> <<"stop">>
      [] text = "wait" -> <<"pause">>
      [] text = "wait, stop now" -> <<"pause", "stop">>
      [] OTHER -> <<>>

\* The lines of a turn are joined.  One stop pattern finds its words anywhere, the
\* other looks at the beginning, and so does the one for a pause.
\* mutant of Stops: a turn of one line only
StopsAlone(ts) == Len(ts) = 1 /\ IsStop(ts[1])
Stops(ts)      == ts[1] = "stop" \/ \E i \in DOMAIN ts : ts[i] = "wait, stop now"
Pauses(ts)     == ~Stops(ts) /\ ts[1] = "wait"

\* A bare command: one or two words, the first of them decides.
Bare(ts) == ~Stops(ts) /\ ts[1] = "open"
            /\ (Len(ts) = 1 \/ (Len(ts) = 2 /\ ts[2] \in {"stop", "wait", "open"}))

TextsOf(ns) == [i \in DOMAIN ns |-> said[ns[i]].text]
In(n, ns)   == \E i \in DOMAIN ns : ns[i] = n

Init ==
    /\ said = <<>>
    /\ mic = [on |-> FALSE, line |-> 0, coming |-> <<>>, fired |-> "none", puts |-> FALSE]
    /\ offs = 0 /\ cut = FALSE
    /\ last = 0 /\ fresh = FALSE /\ push = [p \in Pushers |-> 0]
    /\ q = <<>>
    /\ wpc = "idle" /\ turn = <<>> /\ todo = <<>>
    /\ directives = {}
    /\ run = 0 /\ alive = FALSE /\ stopEv = FALSE

-----------------------------------------------------------------------------
(* VoiceIO.push: the test for an echo, later the line.                     *)

\* A line that has just been said, in the run that is going.
Line(text, by, twin) ==
    [text |-> text, by |-> by, run |-> IF alive THEN run ELSE 0, cut |-> by = Mic /\ cut,
     served |-> FALSE, behind |-> FALSE, lost |-> FALSE, twin |-> twin]

Echo(text) == last # 0 /\ fresh /\ said[last].text = text

Type(t) ==
    /\ push[t] = 0 /\ Len(said) < MaxSaid
    /\ \E text \in Typed :
         IF Echo(text)
           THEN said' = Append(said, Line(text, t, last)) /\ UNCHANGED push
           ELSE /\ said' = Append(said, Line(text, t, 0))
                /\ push' = [push EXCEPT ![t] = Len(said) + 1]
    /\ UNCHANGED <<mic, offs, cut, last, fresh, q, workVars, directives, runVars>>

Put(p) ==
    /\ push[p] # 0
    /\ last' = push[p] /\ fresh' = TRUE
    /\ q' = Append(q, push[p])
    /\ push' = [push EXCEPT ![p] = 0]
    /\ UNCHANGED <<said, mic, offs, cut, workVars, directives, runVars>>

\* DEDUPE_S passes.
WindowEnds ==
    /\ fresh /\ fresh' = FALSE
    /\ UNCHANGED <<said, mic, offs, cut, last, push, q, workVars, directives, runVars>>

-----------------------------------------------------------------------------
(* The streaming microphone.                                               *)

MicOn ==
    /\ ~mic.on /\ mic' = [mic EXCEPT !.on = TRUE]
    /\ UNCHANGED <<said, offs, cut, pushVars, q, workVars, directives, runVars>>

\* The human begins a sentence.
Hear ==
    /\ mic.on /\ mic.line = 0 /\ push[Mic] = 0 /\ Len(said) < MaxSaid
    /\ \E text \in Spoken :
         /\ said' = Append(said, Line(text, Mic, 0))
         /\ mic' = [mic EXCEPT !.line = Len(said) + 1, !.coming = Partials(text)]
    /\ UNCHANGED <<offs, cut, pushVars, q, workVars, directives, runVars>>

\* _chat_urgent: the events of the Control there is, whosever run it was.
SetStop == stopEv' = (run # 0)

\* mutant of Fires: an utterance fires once, whatever kind
FiresOnce(kind) == mic.fired = "none"
Fires(kind)     == kind # mic.fired

OnPartial ==
    LET kind == Head(mic.coming)
        stop == Fires(kind) /\ kind = "stop" IN
    /\ mic.coming # <<>> /\ ~mic.puts
    /\ mic' = [mic EXCEPT !.coming = Tail(@), !.puts = stop,
                          !.fired = IF Fires(kind) THEN kind ELSE @]
    /\ IF stop THEN SetStop /\ said' = [said EXCEPT ![mic.line].served = TRUE]
               ELSE UNCHANGED <<stopEv, said>>
    /\ UNCHANGED <<offs, cut, pushVars, q, workVars, directives, run, alive>>

\* The rest of the urgent path, on the microphone's thread.
PartialPut ==
    /\ mic.puts
    /\ directives' = directives \cup {"stop"}
    /\ mic' = [mic EXCEPT !.puts = FALSE]
    /\ UNCHANGED <<said, offs, cut, pushVars, q, workVars, runVars>>

\* _partial_urgent belongs to one utterance.
Heard == "none"

\* The sentence ends: it is pushed.
OnFinal ==
    LET n == mic.line IN
    /\ n # 0 /\ mic.coming = <<>> /\ ~mic.puts
    /\ mic' = [mic EXCEPT !.line = 0, !.fired = Heard]
    /\ cut' = FALSE
    /\ IF Echo(said[n].text)
         THEN said' = [said EXCEPT ![n].twin = last] /\ UNCHANGED push
         ELSE push' = [push EXCEPT ![Mic] = n] /\ UNCHANGED said
    /\ UNCHANGED <<offs, last, fresh, q, workVars, directives, runVars>>

\* mic_off, or the socket dies: what was being said is never endpointed.
MicOff ==
    /\ mic.on /\ ~mic.puts /\ push[Mic] = 0 /\ offs < MaxOffs
    /\ mic' = [mic EXCEPT !.on = FALSE, !.line = 0, !.coming = <<>>]
    /\ offs' = offs + 1
    /\ IF mic.line = 0
         THEN UNCHANGED <<said, cut>>
         ELSE cut' = TRUE /\ said' = [said EXCEPT ![mic.line].lost = TRUE]
    /\ UNCHANGED <<pushVars, q, workVars, directives, runVars>>

-----------------------------------------------------------------------------
(* The chat worker.                                                        *)

\* What the urgent path does, and what it queues.
Urgent == <<"events", "stop">>

\* No urgent kind and no bare command: the model's turn.  Without a model the line
\* is kept as a rule or as a hint.
Asks(ts) == ~Stops(ts) /\ ~Pauses(ts) /\ ~Bare(ts)

Drain ==
    LET ts == TextsOf(q) IN
    /\ wpc = "idle" /\ q # <<>>
    /\ turn' = q /\ q' = <<>>
    /\ said' = [n \in DOMAIN said |->
                  IF In(n, Tail(q)) /\ said[n].text = "stop"
                    THEN [said[n] EXCEPT !.behind = TRUE] ELSE said[n]]
    /\ \/ Stops(ts) /\ wpc' = "do" /\ todo' = Urgent
       \/ Pauses(ts) /\ wpc' = "do" /\ todo' = <<>>
       \/ Bare(ts) /\ wpc' = "do" /\ todo' = <<"told">>
       \/ Asks(ts) /\ wpc' = "do" /\ todo' = <<"told">>
       \/ Asks(ts) /\ wpc' = "model" /\ todo' = <<>>
    /\ UNCHANGED <<mic, offs, cut, pushVars, directives, runVars>>

\* The model answers: a command, an urgent kind the patterns missed, rules, hints.
Answer ==
    /\ wpc = "model" /\ wpc' = "do"
    /\ \E command, more \in {<<>>, <<"told">>}, urgent \in {<<>>, Urgent} :
         todo' = command \o urgent \o more
    /\ UNCHANGED <<said, mic, offs, cut, pushVars, q, turn, directives, runVars>>

\* mutant of AfterError: the exception ends the thread
AfterErrorDead == "dead"
AfterError     == "idle"

\* The call raises: the lines of the turn are gone.
ModelFails ==
    /\ wpc = "model" /\ wpc' = AfterError
    /\ turn' = <<>>
    /\ UNCHANGED <<said, mic, offs, cut, pushVars, q, todo, directives, runVars>>

Do ==
    /\ wpc = "do" /\ todo # <<>>
    /\ todo' = Tail(todo)
    /\ IF Head(todo) = "events"
         THEN /\ SetStop /\ UNCHANGED directives
              /\ said' = [n \in DOMAIN said |->
                            IF In(n, turn) /\ IsStop(said[n].text)
                              THEN [said[n] EXCEPT !.served = TRUE] ELSE said[n]]
         ELSE directives' = directives \cup {Head(todo)} /\ UNCHANGED <<stopEv, said>>
    /\ UNCHANGED <<mic, offs, cut, pushVars, q, wpc, turn, run, alive>>

Done ==
    /\ wpc = "do" /\ todo = <<>>
    /\ wpc' = "idle" /\ turn' = <<>>
    /\ UNCHANGED <<said, mic, offs, cut, pushVars, q, todo, directives, runVars>>

-----------------------------------------------------------------------------
(* As much of a run as is needed here.                                     *)

\* mutant of NewStopEv: the Control of the last run is kept
NewStopEvKept == stopEv
NewStopEv     == FALSE

Start ==
    /\ ~alive /\ run < MaxRuns
    /\ run' = run + 1 /\ alive' = TRUE /\ stopEv' = NewStopEv
    /\ UNCHANGED <<said, mic, offs, cut, pushVars, q, workVars, directives>>

\* The gate, at the end of each step.
Gate ==
    /\ alive /\ stopEv /\ alive' = FALSE
    /\ UNCHANGED <<said, mic, offs, cut, pushVars, q, workVars, directives, run, stopEv>>

\* A step drains twice; the second time, with the planner's answer in hand, it does not
\* look at a stop.
DrainInputs ==
    /\ alive /\ directives # {}
    /\ directives' = {}
    /\ alive' \in {alive, "stop" \notin directives}
    /\ UNCHANGED <<said, mic, offs, cut, pushVars, q, workVars, run, stopEv>>

\* Its steps are used up, the task is done, or the operator stops it.
RunEnds ==
    /\ alive /\ alive' = FALSE
    /\ UNCHANGED <<said, mic, offs, cut, pushVars, q, workVars, directives, run, stopEv>>

Stream == OnPartial \/ PartialPut \/ OnFinal
Worker == Drain \/ Answer \/ ModelFails \/ Do \/ Done

Next ==
    \/ \E t \in Typists : Type(t)
    \/ \E p \in Pushers : Put(p)
    \/ WindowEnds
    \/ MicOn \/ Hear \/ Stream \/ MicOff
    \/ Worker
    \/ Start \/ Gate \/ DrainInputs \/ RunEnds

Spec == Init /\ [][Next]_vars

\* The threads run, the transcription and the model answer or fail; the Loop comes
\* to its gate.  The human owes nothing.
FairSpec ==
    /\ Spec
    /\ WF_vars(Stream) /\ WF_vars(Worker) /\ WF_vars(Gate)
    /\ \A p \in Pushers : WF_vars(Put(p))

-----------------------------------------------------------------------------
(* Properties.                                                             *)

LineType ==
    [text : Typed \cup Spoken, by : Pushers, run : 0..MaxRuns, cut : BOOLEAN, served : BOOLEAN,
     behind : BOOLEAN, lost : BOOLEAN, twin : Nat]

TypeOK ==
    /\ said \in Seq(LineType) /\ Len(said) <= MaxSaid
    /\ mic \in [on : BOOLEAN, line : 0..Len(said), fired : {"none", "pause", "stop"},
               coming : {<<>>, <<"pause">>, <<"stop">>, <<"pause", "stop">>}, puts : BOOLEAN]
    /\ offs \in 0..MaxOffs /\ cut \in BOOLEAN
    /\ last \in 0..Len(said) /\ fresh \in BOOLEAN
    /\ push \in [Pushers -> 0..Len(said)]
    /\ q \in Seq(1..Len(said)) /\ turn \in Seq(1..Len(said))
    /\ wpc \in {"idle", "model", "do"}
    /\ todo \in Seq({"events", "stop", "told"})
    /\ directives \subseteq {"stop", "told"}
    /\ run \in 0..MaxRuns /\ alive \in BOOLEAN /\ stopEv \in BOOLEAN

\* What is taken for a run here is the RunPort that SortSession implements.
StopQueued == "stop" \in directives
Port == INSTANCE RunPort WITH going <- alive, stop <- stopEv, queued <- StopQueued
PortPromise == Port!Spec

\* The lines that wait for an answer.
Waiting == {n \in DOMAIN said : In(n, q) \/ In(n, turn) \/ \E p \in Pushers : push[p] = n}

\* The run a line was said in is still going.
Going(n) == n <= Len(said) /\ alive /\ run = said[n].run

\* With the stream, a stop has set the events of the run before its sentence is
\* even queued (_on_partial, _on_final), and as long as that run goes on its stop event
\* stays set: however its line is delayed, merged or dropped later, it is not needed.
\* Except after a line that was cut off.
StreamStops ==
    \A n \in Waiting :
        (said[n].by = Mic /\ IsStop(said[n].text) /\ ~said[n].cut) =>
            said[n].served /\ (Going(n) => stopEv)

\* ChatWorker: "A stop must never wait for a model": none is unserved while the
\* worker is in the call.
StopNeverWaits ==
    wpc = "model" => \A n \in Waiting : IsStop(said[n].text) => said[n].served

\* Swallowed: a line like it was said in an earlier run, or that one got nowhere.
Swallowed(n) ==
    said[n].twin # 0 /\ (said[said[n].twin].run # said[n].run \/ said[said[n].twin].behind)

\* A stop said in a run ends that run, past push, queue, worker and gate, whoever
\* said it; unless its line was merged behind another or taken for an echo
\* of another run's, or the stream ended in the middle of it.
StopEndsTheRun ==
    \A n \in 1..MaxSaid :
        (Going(n) /\ IsStop(said[n].text))
            ~> (~Going(n) \/ said[n].behind \/ said[n].lost \/ Swallowed(n))

\* Every line is answered or given up by the model, and the worker gets to the next
\* (the exception handler of ChatWorker._loop).
LinesAreAnswered == \A n \in 1..MaxSaid : In(n, q) ~> ~In(n, q) /\ ~In(n, turn)

=============================================================================
