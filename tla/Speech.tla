--------------------------------- MODULE Speech ---------------------------------
(***************************************************************************)
(* q_say of sortbot: VoiceIO.speak, which the Loop, the HUD's threads and  *)
(* the conversation call, and _speak_loop, the worker that plays what is   *)
(* queued, one line at a time.                                             *)
(*                                                                         *)
(* speak has no lock: it looks at the length of the queue, drops lines,    *)
(* puts its own, looks whether the worker is alive and starts one, and     *)
(* between any two of these another speaker or the worker may come.  A     *)
(* call is therefore a step per look and per change of queue.Queue or of   *)
(* _speak_thread.  A line is its number in the order of the calls.         *)
(***************************************************************************)
EXTENDS Naturals, Sequences, FiniteSets

CONSTANTS
    Speakers,   \* threads that call speak
    Replying,   \* those of the conversation, which call it with priority
    MaxLines    \* bound on the calls

ASSUME SpeakerAssumption == IsFiniteSet(Speakers) /\ Replying \subseteq Speakers
ASSUME LineAssumption    == MaxLines \in Nat

VARIABLES
    said,       \* calls of speak so far
    spc,        \* where each speaker is in speak
    mine,       \* the line of its last call
    stale,      \* history: what was queued when that call was made
    queue,      \* _speak_q
    worker,     \* _speak_thread, the number of a thread; 0: None
    threads,    \* threads created so far
    wpc,        \* where each of them is in _speak_loop
    stop,       \* _stop, set when the program shuts down
    raced       \* history: two speakers were starting a worker at once

callVars   == <<said, mine, stale>>
threadVars == <<worker, threads, wpc, raced>>
vars       == <<callVars, spc, queue, threadVars, stop>>

-----------------------------------------------------------------------------

Lines    == 1..MaxLines
Workers  == 1..MaxLines      \* a call creates at most one thread
InHand   == {"room", "drop", "put"}
Starting == {"create", "start"}

Queued     == {queue[i] : i \in DOMAIN queue}
Held(s)    == spc[s] \in InHand
IsAlive(w) == wpc[w] \in {"loop", "get", "play"}
Goto(s, pc)       == spc' = [spc EXCEPT ![s] = pc]
WorkerGoto(w, pc) == wpc' = [wpc EXCEPT ![w] = pc]

Init ==
    /\ said = 0 /\ queue = <<>> /\ worker = 0 /\ threads = 0
    /\ stop = FALSE /\ raced = FALSE
    /\ spc = [s \in Speakers |-> "idle"]
    /\ mine = [s \in Speakers |-> 0]
    /\ stale = [s \in Speakers |-> {}]
    /\ wpc = [w \in Workers |-> "new"]

-----------------------------------------------------------------------------
(* speak.                                                                  *)

Speak(s) ==
    /\ spc[s] = "idle" /\ said < MaxLines
    /\ said' = said + 1
    /\ mine' = [mine EXCEPT ![s] = said + 1]
    /\ stale' = [stale EXCEPT ![s] = Queued]
    /\ Goto(s, "room")
    /\ UNCHANGED <<queue, threadVars, stop>>

\* A reply wants the queue empty, any other line leaves one ahead of it.
\* Mutation of Limit: a reply is a line like any other.
LimitFlat(s) == 2
Limit(s)     == IF s \in Replying THEN 1 ELSE 2

\* Mutation of Full: off by one.
FullLate(s) == Len(queue) > Limit(s)
Full(s)     == Len(queue) >= Limit(s)

Room(s) ==
    /\ spc[s] = "room"
    /\ Goto(s, IF Full(s) THEN "drop" ELSE "put")
    /\ UNCHANGED <<callVars, queue, threadVars, stop>>

\* The oldest line is dropped; if the worker has taken the last one meanwhile the
\* dropping is over.
Drop(s) ==
    /\ spc[s] = "drop"
    /\ \/ queue # <<>> /\ queue' = Tail(queue) /\ Goto(s, "room")
       \/ queue = <<>> /\ UNCHANGED queue /\ Goto(s, "put")
    /\ UNCHANGED <<callVars, threadVars, stop>>

Put(s) ==
    /\ spc[s] = "put"
    /\ queue' = Append(queue, mine[s])
    /\ Goto(s, "alive")
    /\ UNCHANGED <<callVars, threadVars, stop>>

\* A thread that has been assigned and not yet started is not alive.
\* Mutation of NeedsWorker: a worker that is not playing does not count.
NeedsWorkerIdle == worker = 0 \/ wpc[worker] # "play"
NeedsWorker     == worker = 0 \/ ~IsAlive(worker)

Alive(s) ==
    /\ spc[s] = "alive"
    /\ Goto(s, IF NeedsWorker THEN "create" ELSE "idle")
    /\ raced' = (raced \/ (NeedsWorker /\ \E t \in Speakers : spc[t] \in Starting))
    /\ UNCHANGED <<callVars, queue, worker, threads, wpc, stop>>

Create(s) ==
    /\ spc[s] = "create" /\ threads < MaxLines
    /\ threads' = threads + 1 /\ worker' = threads + 1
    /\ Goto(s, "start")
    /\ UNCHANGED <<callVars, queue, wpc, raced, stop>>

\* start() is called on the thread that _speak_thread holds now; one that has been
\* started already raises, in the speaker.
Start(s) ==
    /\ spc[s] = "start"
    /\ IF wpc[worker] = "new" THEN WorkerGoto(worker, "loop") ELSE UNCHANGED wpc
    /\ Goto(s, "idle")
    /\ UNCHANGED <<callVars, queue, worker, threads, raced, stop>>

Speaker(s) ==
    \/ Room(s) \/ Drop(s) \/ Put(s)
    \/ Alive(s) \/ Create(s) \/ Start(s)

-----------------------------------------------------------------------------
(* _speak_loop.                                                            *)

Loop(w) ==
    /\ wpc[w] = "loop"
    /\ WorkerGoto(w, IF ~stop THEN "get" ELSE "ended")
    /\ UNCHANGED <<callVars, spc, queue, worker, threads, raced, stop>>

\* get(timeout=0.5): a line, or Empty after half a second without one.
Get(w) ==
    /\ wpc[w] = "get"
    /\ \/ queue # <<>> /\ queue' = Tail(queue) /\ WorkerGoto(w, "play")
       \/ queue = <<>> /\ UNCHANGED queue /\ WorkerGoto(w, "loop")
    /\ UNCHANGED <<callVars, spc, worker, threads, raced, stop>>

\* The line was synthesised and played, or one of the two failed, which is logged.
\* Mutation of AfterPlay: a failure ends the worker.
AfterPlayDead == "dead"
AfterPlay     == "loop"

Play(w) ==
    /\ wpc[w] = "play" /\ WorkerGoto(w, AfterPlay)
    /\ UNCHANGED <<callVars, spc, queue, worker, threads, raced, stop>>

Worker(w) == Loop(w) \/ Get(w) \/ Play(w)

Shutdown ==
    /\ ~stop /\ stop' = TRUE
    /\ UNCHANGED <<callVars, spc, queue, threadVars>>

Next ==
    \/ \E s \in Speakers : Speak(s) \/ Speaker(s)
    \/ \E w \in Workers : Worker(w)
    \/ Shutdown

Spec == Init /\ [][Next]_vars

\* Threads run: a call of speak goes on, and so does a worker; a line's playback ends
\* (_play has a time limit).
Fairness ==
    /\ \A s \in Speakers : WF_vars(Speaker(s))
    /\ \A w \in Workers : WF_vars(Worker(w))
FairSpec == Spec /\ Fairness

-----------------------------------------------------------------------------
(* Invariants.                                                             *)

Types ==
    /\ said \in 0..MaxLines /\ threads \in 0..MaxLines /\ worker \in 0..threads
    /\ spc \in [Speakers -> {"idle", "alive"} \cup InHand \cup Starting]
    /\ mine \in [Speakers -> 0..said] /\ \A s \in Speakers : mine[s] = 0 => spc[s] = "idle"
    /\ stale \in [Speakers -> SUBSET Lines]
    /\ queue \in Seq(Lines)
    /\ wpc \in [Workers -> {"new", "loop", "get", "play", "ended"}]
    /\ stop \in BOOLEAN /\ raced \in BOOLEAN

\* "Backlog is capped": the test of the length and the put are apart, so speakers that
\* have all seen room exceed the cap, but by no more than each its line.
Backlog == Len(queue) <= 1 + Cardinality(Speakers)

TypeOK == Types /\ Backlog

\* "ONE TTS worker, so the bot never talks over itself": two workers are never alive at
\* once, across restarts of the worker, unless two speakers were starting it at once.
OneVoice == ~raced => \A v, w \in Workers : IsAlive(v) /\ IsAlive(w) => v = w

\* "drops the ENTIRE stale backlog so it is spoken next": nothing that was waiting when
\* a reply was given to speak is still waiting once the reply is about to be queued, or
\* ever after, whatever others drop and put meanwhile.
FreshReply ==
    \A s \in Replying : spc[s] \notin {"room", "drop"} => stale[s] \cap Queued = {}

-----------------------------------------------------------------------------
(* Liveness, under Fairness.                                               *)

Waiting(l) == l \in Queued \/ \E s \in Speakers : Held(s) /\ mine[s] = l

\* No line waits for ever: it is played or dropped, however many workers the speakers
\* have started over each other, unless the program shuts down.
LinesEnd == \A l \in Lines : Waiting(l) ~> (~Waiting(l) \/ stop)

=============================================================================
