------------------------------ MODULE Speech_proofs ------------------------------
(***************************************************************************)
(* Theorems about Speech, for any speakers, replies and number of lines.   *)
(*                                                                         *)
(* The backlog: a speaker that has seen room counts as if its line were in *)
(* the queue already (Capped).                                             *)
(* A reply: a line in a speaker's hand has never been queued, so it is in  *)
(* no backlog a reply found and none that is dropped comes back (Hands).   *)
(* One voice: without a race one speaker at a time starts a worker, and    *)
(* from its test to its start() no worker is alive (Solo).                 *)
(***************************************************************************)
EXTENDS Speech, FiniteSetTheorems, SequenceTheorems, TLAPS

-----------------------------------------------------------------------------
(* Type correctness.                                                       *)

LEMMA TypeInit == Init => Types
<1> SUFFICES ASSUME Init PROVE Types
  OBVIOUS
<1>1. said \in 0..MaxLines /\ threads \in 0..MaxLines /\ worker \in 0..threads
  BY LineAssumption DEF Init
<1>2. mine \in [Speakers -> 0..said] /\ \A s \in Speakers : spc[s] = "idle"
  BY DEF Init
<1>3. spc \in [Speakers -> {"idle", "alive"} \cup InHand \cup Starting]
  BY DEF Init
<1>4. queue \in Seq(Lines)
  BY DEF Init
<1>5. /\ stale \in [Speakers -> SUBSET Lines] /\ stop \in BOOLEAN /\ raced \in BOOLEAN
      /\ wpc \in [Workers -> {"new", "loop", "get", "play", "ended"}]
  BY DEF Init
<1> QED
  BY <1>1, <1>2, <1>3, <1>4, <1>5 DEF Types

\* What taking a line from the queue and putting one there do to it.
LEMMA Taken ==
    ASSUME Types, queue # <<>>, queue' = Tail(queue)
    PROVE  queue' \in Seq(Lines) /\ Len(queue') = Len(queue) - 1 /\ Queued' \subseteq Queued
<1>1. /\ queue' \in Seq(Lines) /\ Len(queue') = Len(queue) - 1
      /\ \A i \in 1..Len(queue') : queue'[i] = queue[i + 1]
  BY HeadTailProperties DEF Types
<1>2. \A i \in DOMAIN queue' : i + 1 \in DOMAIN queue
  BY <1>1 DEF Types
<1>3. DOMAIN queue' = 1..Len(queue')
  BY <1>1
<1> QED
  BY <1>1, <1>2, <1>3 DEF Queued

LEMMA Added ==
    ASSUME Types, NEW l \in Lines, queue' = Append(queue, l)
    PROVE  queue' \in Seq(Lines) /\ Len(queue') = Len(queue) + 1 /\ Queued' = Queued \cup {l}
<1>1. /\ queue' \in Seq(Lines) /\ Len(queue') = Len(queue) + 1
      /\ \A i \in 1..Len(queue) : queue'[i] = queue[i]
      /\ queue'[Len(queue) + 1] = l
  BY AppendProperties DEF Types
<1>2. DOMAIN queue' = DOMAIN queue \cup {Len(queue) + 1} /\ DOMAIN queue = 1..Len(queue)
  BY <1>1 DEF Types
<1> QED
  BY <1>1, <1>2 DEF Queued

LEMMA SpeakerType ==
    ASSUME Types, NEW s \in Speakers, Speak(s) \/ Speaker(s)
    PROVE  Types'
<1> USE LineAssumption DEF Types
<1>1. CASE Speak(s)
  <2>1. said' \in 0..MaxLines /\ said + 1 \in 0..said'
    BY <1>1 DEF Speak
  <2>2. mine' \in [Speakers -> 0..said']
    BY <1>1, <2>1 DEF Speak
  <2>3. Queued \in SUBSET Lines
    BY DEF Queued
  <2> QED
    BY <1>1, <2>1, <2>2, <2>3 DEF Speak, Goto, InHand, threadVars
<1>2. CASE Room(s)
  BY <1>2 DEF Room, Goto, InHand, callVars, threadVars
<1>3. CASE Drop(s)
  <2>1. queue' \in Seq(Lines)
    BY <1>3, Taken DEF Drop
  <2> QED
    BY <1>3, <2>1 DEF Drop, Goto, InHand, callVars, threadVars
<1>4. CASE Put(s)
  <2>1. mine[s] \in Lines
    BY <1>4 DEF Put, Lines
  <2> QED
    BY <1>4, <2>1, Added DEF Put, Goto, InHand, callVars, threadVars
<1>5. CASE Alive(s)
  BY <1>5 DEF Alive, Goto, Starting, callVars
<1>6. CASE Create(s)
  BY <1>6 DEF Create, Goto, Starting, callVars
<1>7. CASE Start(s)
  BY <1>7 DEF Start, Goto, WorkerGoto, callVars
<1> QED
  BY <1>1, <1>2, <1>3, <1>4, <1>5, <1>6, <1>7 DEF Speaker

LEMMA WorkerType ==
    ASSUME Types, NEW w \in Workers, Worker(w)
    PROVE  Types'
<1>1. queue' \in Seq(Lines)
  BY Taken DEF Types, Worker, Loop, Get, Play
<1>2. /\ UNCHANGED <<callVars, spc, worker, threads, raced, stop>>
      /\ wpc' \in [Workers -> {"new", "loop", "get", "play", "ended"}]
  BY DEF Types, Worker, Loop, Get, Play, AfterPlay, WorkerGoto
<1> QED
  BY <1>1, <1>2 DEF Types, callVars

LEMMA TypeStep == Types /\ [Next]_vars => Types'
<1> SUFFICES ASSUME Types, [Next]_vars PROVE Types'
  OBVIOUS
<1>1. CASE Shutdown \/ UNCHANGED vars
  BY <1>1 DEF Shutdown, vars, callVars, threadVars, Types
<1> QED
  BY <1>1, SpeakerType, WorkerType DEF Next

-----------------------------------------------------------------------------
(* The backlog.                                                            *)

Putting == {s \in Speakers : spc[s] = "put"}
Capped  == Len(queue) + Cardinality(Putting) <= 1 + Cardinality(Speakers)

LEMMA Counts ==
    /\ Cardinality(Speakers) \in Nat
    /\ IsFiniteSet(Putting) /\ Cardinality(Putting) \in Nat
    /\ Cardinality(Putting) <= Cardinality(Speakers)
BY SpeakerAssumption, FS_CardinalityType, FS_Subset DEF Putting

LEMMA CountsNext ==
    Cardinality(Putting') \in Nat /\ Cardinality(Putting') <= Cardinality(Speakers)
BY SpeakerAssumption, FS_CardinalityType, FS_Subset DEF Putting

\* A step that lets no speaker through to its put and adds no line.
LEMMA CappedFewer ==
    ASSUME Types, Capped, Types', Len(queue') <= Len(queue), Putting' \subseteq Putting
    PROVE  Capped'
<1>1. Cardinality(Putting') <= Cardinality(Putting)
  BY Counts, FS_Subset
<1>2. Len(queue) \in Nat /\ Len(queue') \in Nat
  BY DEF Types
<1> QED
  BY <1>1, <1>2, Counts, CountsNext DEF Capped

\* A speaker that has seen room, which is at most one line ahead.
LEMMA CappedRoom ==
    ASSUME Types', Len(queue') <= 1
    PROVE  Capped'
<1>1. Len(queue') \in Nat
  BY DEF Types
<1> QED
  BY <1>1, Counts, CountsNext DEF Capped

LEMMA CappedPut ==
    ASSUME Types, Capped, NEW s \in Speakers, Put(s)
    PROVE  Capped'
<1>1. mine[s] \in Lines
  BY LineAssumption DEF Put, Lines, Types
<1>2. Len(queue') = Len(queue) + 1 /\ Len(queue) \in Nat
  BY <1>1, Added DEF Put, Types
<1>3. Putting' = Putting \ {s} /\ s \in Putting
  BY DEF Put, Putting, Goto, Types
<1>4. Cardinality(Putting') = Cardinality(Putting) - 1
  BY <1>3, Counts, FS_RemoveElement
<1> QED
  BY <1>2, <1>4, Counts DEF Capped

LEMMA CappedStep == Types /\ Capped /\ Types' /\ [Next]_vars => Capped'
<1> SUFFICES ASSUME Types, Capped, Types', [Next]_vars PROVE Capped'
  OBVIOUS
<1>0. Len(queue) \in Nat
  BY DEF Types
<1>1. ASSUME NEW s \in Speakers, Speak(s) \/ Alive(s) \/ Create(s) \/ Start(s)
      PROVE  Capped'
  <2>1. Putting' \subseteq Putting /\ queue' = queue
    BY <1>1 DEF Speak, Alive, Create, Start, Putting, Goto, Types
  <2> QED
    BY <2>1, <1>0, CappedFewer
<1>2. ASSUME NEW s \in Speakers, Room(s)
      PROVE  Capped'
  <2>1. CASE Full(s)
    <3>1. Putting' \subseteq Putting /\ queue' = queue
      BY <1>2, <2>1 DEF Room, Putting, Goto, Types
    <3> QED
      BY <3>1, <1>0, CappedFewer
  <2>2. CASE ~Full(s)
    BY <1>2, <2>2, <1>0, CappedRoom DEF Room, Full, Limit
  <2> QED
    BY <2>1, <2>2
<1>3. ASSUME NEW s \in Speakers, Drop(s)
      PROVE  Capped'
  <2>1. CASE queue = <<>>
    BY <1>3, <2>1, CappedRoom DEF Drop
  <2>2. CASE queue # <<>>
    <3>1. Putting' \subseteq Putting /\ queue' = Tail(queue)
      BY <1>3, <2>2 DEF Drop, Putting, Goto, Types
    <3> QED
      BY <2>2, <3>1, <1>0, Taken, CappedFewer
  <2> QED
    BY <2>1, <2>2
<1>4. ASSUME NEW w \in Workers, Worker(w)
      PROVE  Capped'
  <2>1. Putting' = Putting /\ Len(queue') <= Len(queue)
    BY <1>4, <1>0, Taken DEF Worker, Loop, Get, Play, Putting
  <2> QED
    BY <2>1, CappedFewer
<1>5. CASE Shutdown \/ UNCHANGED vars
  <2>1. Putting' = Putting /\ queue' = queue
    BY <1>5 DEF Shutdown, vars, callVars, Putting
  <2> QED
    BY <2>1, <1>0, CappedFewer
<1> QED
  BY <1>1, <1>2, <1>3, <1>4, <1>5, CappedPut DEF Next, Speaker

LEMMA CappedInit == Init => Capped
<1> SUFFICES ASSUME Init PROVE Capped
  OBVIOUS
<1>1. Len(queue) = 0
  BY DEF Init
<1> QED
  BY <1>1, Counts DEF Capped

\* Every variable of the speech keeps its type, and however many speakers have seen room
\* at once, q_say never holds more than one line and one for each of them.
THEOREM TypeCorrect == Spec => []TypeOK
<1>1. Types /\ Capped => TypeOK
  BY Counts DEF Types, Capped, Backlog, TypeOK
<1>2. Types /\ Capped /\ [Next]_vars => Types' /\ Capped'
  BY TypeStep, CappedStep
<1> QED
  BY <1>1, <1>2, TypeInit, CappedInit, PTL DEF Spec

-----------------------------------------------------------------------------
(* A reply comes before what was waiting.                                  *)

Hands ==
    /\ Queued \subseteq 1..said
    /\ \A s \in Speakers : stale[s] \subseteq 1..said
    /\ \A s \in Speakers : Held(s) =>
          /\ mine[s] \notin Queued
          /\ \A t \in Speakers : /\ mine[s] \notin stale[t]
                                  /\ (Held(t) /\ t # s => mine[t] # mine[s])

\* Who has nothing new in hand and finds nothing new in the queue changes nothing of it.
LEMMA HandsFewer ==
    ASSUME Hands, UNCHANGED callVars, Queued' \subseteq Queued,
           \A s \in Speakers : Held(s)' => Held(s)
    PROVE  Hands'
BY DEF Hands, callVars

LEMMA HandsSpeak ==
    ASSUME Types, Hands, NEW s \in Speakers, Speak(s)
    PROVE  Hands'
<1>1. /\ said' = said + 1 /\ said \in Nat /\ queue' = queue /\ Queued' = Queued
      /\ mine'[s] = said + 1 /\ stale'[s] = Queued
      /\ \A t \in Speakers \ {s} : /\ mine'[t] = mine[t] /\ stale'[t] = stale[t]
                                   /\ Held(t)' = Held(t)
  BY LineAssumption DEF Speak, Goto, Types, Held, Queued
<1>2. 1..said \subseteq 1..said' /\ said + 1 \notin 1..said
  BY <1>1
<1>3. \A t \in Speakers : mine[t] # said + 1
  BY <1>1 DEF Types
<1>4. Queued' \subseteq 1..said' /\ \A t \in Speakers : stale'[t] \subseteq 1..said'
  BY <1>1, <1>2 DEF Hands
<1>5. ASSUME NEW t \in Speakers, Held(t)', NEW u \in Speakers
      PROVE  /\ mine'[t] \notin Queued' /\ mine'[t] \notin stale'[u]
             /\ (Held(u)' /\ u # t => mine'[u] # mine'[t])
  <2>1. CASE t = s
    BY <1>1, <1>2, <1>3, <2>1 DEF Hands
  <2>2. CASE t # s
    <3>1. Held(t) /\ mine'[t] = mine[t] /\ mine[t] \notin Queued
      BY <1>1, <1>5, <2>2 DEF Hands
    <3>2. CASE u = s
      BY <1>1, <1>3, <3>1, <3>2
    <3>3. CASE u # s
      BY <1>1, <3>1, <3>3 DEF Hands
    <3> QED
      BY <3>2, <3>3
  <2> QED
    BY <2>1, <2>2
<1> QED
  BY <1>4, <1>5 DEF Hands

LEMMA HandsPut ==
    ASSUME Types, Hands, NEW s \in Speakers, Put(s)
    PROVE  Hands'
<1>1. mine[s] \in Lines /\ mine[s] \in 1..said /\ Held(s)
  BY LineAssumption DEF Put, Lines, Types, Held, InHand
<1>2. /\ Queued' = Queued \cup {mine[s]} /\ UNCHANGED callVars /\ ~Held(s)'
      /\ \A t \in Speakers : Held(t)' => Held(t) /\ t # s
  BY <1>1, Added DEF Put, Goto, Types, Held, InHand
<1> QED
  BY <1>1, <1>2 DEF Hands, callVars

LEMMA HandsStep == Types /\ Hands /\ [Next]_vars => Hands'
<1> SUFFICES ASSUME Types, Hands, [Next]_vars PROVE Hands'
  OBVIOUS
<1>1. ASSUME NEW s \in Speakers, Room(s) \/ Drop(s) \/ Alive(s) \/ Create(s) \/ Start(s)
      PROVE  Hands'
  <2>1. Queued' \subseteq Queued /\ UNCHANGED callVars
    BY <1>1, Taken DEF Room, Drop, Alive, Create, Start, Queued
  <2>2. \A t \in Speakers : Held(t)' => Held(t)
    BY <1>1 DEF Room, Drop, Alive, Create, Start, Goto, Held, InHand, Types
  <2> QED
    BY <2>1, <2>2, HandsFewer
<1>2. ASSUME NEW w \in Workers, Worker(w)
      PROVE  Hands'
  <2>1. Queued' \subseteq Queued /\ UNCHANGED <<callVars, spc>>
    BY <1>2, Taken DEF Worker, Loop, Get, Play, Queued
  <2> QED
    BY <2>1, HandsFewer DEF Held
<1>3. CASE Shutdown \/ UNCHANGED vars
  <2>1. Queued' = Queued /\ UNCHANGED <<callVars, spc>>
    BY <1>3 DEF Shutdown, vars, Queued
  <2> QED
    BY <2>1, HandsFewer DEF Held
<1> QED
  BY <1>1, <1>2, <1>3, HandsSpeak, HandsPut DEF Next, Speaker

LEMMA FreshStep == Types /\ Hands /\ FreshReply /\ [Next]_vars => FreshReply'
<1> SUFFICES ASSUME Types, Hands, FreshReply, [Next]_vars,
                    NEW r \in Replying, spc'[r] \notin {"room", "drop"}
             PROVE  stale'[r] \cap Queued' = {}
  BY DEF FreshReply
<1>r. r \in Speakers
  BY SpeakerAssumption
<1>1. ASSUME NEW s \in Speakers, Speak(s)
      PROVE  stale'[r] \cap Queued' = {}
  BY <1>1, <1>r DEF Speak, Goto, Types, FreshReply, Queued
<1>2. ASSUME NEW s \in Speakers, Room(s)
      PROVE  stale'[r] \cap Queued' = {}
  <2>1. UNCHANGED <<stale, queue>> /\ Queued' = Queued
    BY <1>2 DEF Room, callVars, Queued
  <2>2. CASE r = s
    <3>1. ~Full(s)
      BY <1>2, <2>2, <1>r DEF Room, Goto, Types
    <3>2. Len(queue) = 0
      BY <2>2, <3>1 DEF Full, Limit, Types
    <3>3. Queued = {}
      BY <3>2 DEF Queued, Types
    <3> QED
      BY <2>1, <3>3
  <2>3. CASE r # s
    BY <1>2, <2>1, <2>3, <1>r DEF Room, Goto, Types, FreshReply
  <2> QED
    BY <2>2, <2>3
<1>3. ASSUME NEW s \in Speakers, Drop(s)
      PROVE  stale'[r] \cap Queued' = {}
  <2>1. CASE queue = <<>>
    <3>1. Queued' = {}
      BY <1>3, <2>1 DEF Drop, Queued
    <3> QED
      BY <3>1
  <2>2. CASE queue # <<>>
    <3>1. Queued' \subseteq Queued /\ UNCHANGED stale /\ spc[r] \notin {"room", "drop"}
      BY <1>3, <2>2, <1>r, Taken DEF Drop, Goto, Types, callVars
    <3> QED
      BY <3>1 DEF FreshReply
  <2> QED
    BY <2>1, <2>2
<1>4. ASSUME NEW s \in Speakers, Put(s)
      PROVE  stale'[r] \cap Queued' = {}
  <2>1. mine[s] \in Lines /\ mine[s] \notin stale[r]
    BY <1>4, <1>r, LineAssumption DEF Put, Lines, Types, Held, InHand, Hands
  <2>2. /\ Queued' = Queued \cup {mine[s]} /\ UNCHANGED stale
        /\ spc[r] \notin {"room", "drop"}
    BY <1>4, <2>1, <1>r, Added DEF Put, Goto, Types, callVars
  <2> QED
    BY <2>1, <2>2 DEF FreshReply
<1>5. ASSUME NEW s \in Speakers, Alive(s) \/ Create(s) \/ Start(s)
      PROVE  stale'[r] \cap Queued' = {}
  <2>1. UNCHANGED <<stale, queue>> /\ spc[r] \notin {"room", "drop"}
    BY <1>5, <1>r DEF Alive, Create, Start, Goto, Types, callVars
  <2> QED
    BY <2>1 DEF FreshReply, Queued
<1>6. CASE (\E w \in Workers : Worker(w)) \/ Shutdown \/ UNCHANGED vars
  <2>1. Queued' \subseteq Queued /\ UNCHANGED <<stale, spc>>
    BY <1>6, Taken DEF Worker, Loop, Get, Play, Shutdown, vars, callVars, Queued
  <2> QED
    BY <2>1 DEF FreshReply
<1> QED
  BY <1>1, <1>2, <1>3, <1>4, <1>5, <1>6 DEF Next, Speaker

LEMMA FreshInit == Init => Hands /\ FreshReply
<1> SUFFICES ASSUME Init PROVE Hands /\ FreshReply
  OBVIOUS
<1>1. Queued = {} /\ \A s \in Speakers : stale[s] = {} /\ ~Held(s)
  BY DEF Init, Queued, Held, InHand
<1> QED
  BY <1>1, SpeakerAssumption DEF Hands, FreshReply

\* "a fresh conversational reply always wins over queued planner chatter": nothing that
\* was waiting when a reply was given to speak is played after it, whoever else drops and
\* puts lines meanwhile.
THEOREM FreshReplyHolds == Spec => []FreshReply
<1>1. Types /\ Hands /\ FreshReply /\ [Next]_vars => (Types /\ Hands /\ FreshReply)'
  BY TypeStep, HandsStep, FreshStep
<1> QED
  BY <1>1, TypeInit, FreshInit, PTL DEF Spec

-----------------------------------------------------------------------------
(* One voice.                                                              *)

NoneAlive == \A w \in Workers : ~IsAlive(w)

Solo ==
    /\ \A w \in Workers : w > threads => wpc[w] = "new"
    /\ \A s \in Speakers : spc[s] = "start" => worker # 0
    /\ ~raced =>
         /\ \A s, t \in Speakers : spc[s] \in Starting /\ spc[t] \in Starting => s = t
         /\ \A w \in Workers : IsAlive(w) => w = worker
         /\ \A s \in Speakers : spc[s] = "create" => NoneAlive
         /\ \A s \in Speakers : spc[s] = "start" => wpc[worker] = "new"

\* Nobody takes part in starting a worker who did not, and no worker comes alive.
LEMMA SoloFewer ==
    ASSUME Solo, UNCHANGED <<worker, threads, raced>>,
           \A s \in Speakers : spc'[s] \in Starting => spc'[s] = spc[s],
           \A w \in Workers : wpc[w] = "new" => wpc'[w] = "new",
           \A w \in Workers : IsAlive(w)' => IsAlive(w),
           Types
    PROVE  Solo'
<1>1. worker # 0 => worker \in Workers
  BY LineAssumption DEF Types, Workers
<1> QED
  BY <1>1 DEF Solo, NoneAlive, Starting

LEMMA SoloAlive ==
    ASSUME Types, Solo, NEW s \in Speakers, Alive(s)
    PROVE  Solo'
<1>1. /\ spc[s] = "alive" /\ UNCHANGED <<worker, threads, wpc>>
      /\ spc'[s] = IF NeedsWorker THEN "create" ELSE "idle"
      /\ \A t \in Speakers \ {s} : spc'[t] = spc[t]
      /\ raced' = (raced \/ (NeedsWorker /\ \E t \in Speakers : spc[t] \in Starting))
      /\ \A w \in Workers : IsAlive(w)' = IsAlive(w)
  BY DEF Alive, Goto, Types, IsAlive
<1>2. CASE ~NeedsWorker
  <2>1. \A t \in Speakers : spc'[t] \in Starting => spc'[t] = spc[t]
    BY <1>1, <1>2 DEF Starting
  <2>2. raced' = raced
    BY <1>1, <1>2 DEF Types
  <2> QED
    BY <1>1, <2>1, <2>2, SoloFewer
<1>3. CASE NeedsWorker /\ raced'
  BY <1>1, <1>3 DEF Solo
<1>4. CASE NeedsWorker /\ ~raced'
  <2>1. ~raced /\ \A t \in Speakers : spc[t] \notin Starting
    BY <1>1, <1>4
  <2>2. NoneAlive
    BY <1>4, <2>1, LineAssumption DEF Solo, NeedsWorker, NoneAlive, Workers
  <2>3. NoneAlive'
    BY <1>1, <2>2 DEF NoneAlive
  <2>4. \A t \in Speakers : spc'[t] \in Starting => t = s /\ spc'[t] = "create"
    BY <1>1, <1>4, <2>1
  <2> QED
    BY <1>1, <2>3, <2>4 DEF Solo, Starting, NoneAlive
<1> QED
  BY <1>2, <1>3, <1>4

LEMMA SoloCreate ==
    ASSUME Types, Solo, NEW s \in Speakers, Create(s)
    PROVE  Solo'
<1>1. /\ spc[s] = "create" /\ spc'[s] = "start"
      /\ \A t \in Speakers \ {s} : spc'[t] = spc[t]
      /\ threads' = threads + 1 /\ worker' = threads + 1 /\ UNCHANGED <<wpc, raced>>
      /\ worker' \in Workers /\ worker' # 0 /\ worker' > threads
      /\ \A w \in Workers : w > threads' => w > threads
  BY LineAssumption DEF Create, Goto, Types, Workers
<1>2. wpc'[worker'] = "new"
  BY <1>1 DEF Solo
<1>3. CASE raced
  BY <1>1, <1>3 DEF Solo
<1>4. CASE ~raced
  <2>1. NoneAlive /\ \A t \in Speakers : spc[t] \in Starting => t = s
    BY <1>1, <1>4 DEF Solo, Starting
  <2>2. NoneAlive'
    BY <1>1, <2>1 DEF NoneAlive, IsAlive
  <2>3. \A t \in Speakers : spc'[t] \in Starting => t = s
    BY <1>1, <2>1
  <2> QED
    BY <1>1, <1>2, <2>2, <2>3 DEF Solo, NoneAlive, Starting
<1> QED
  BY <1>3, <1>4

LEMMA SoloStart ==
    ASSUME Types, Solo, NEW s \in Speakers, Start(s)
    PROVE  Solo'
<1>1. /\ spc[s] = "start" /\ spc'[s] = "idle"
      /\ \A t \in Speakers \ {s} : spc'[t] = spc[t]
      /\ UNCHANGED <<worker, threads, raced>>
      /\ \A w \in Workers \ {worker} : wpc'[w] = wpc[w]
  BY DEF Start, Goto, WorkerGoto, Types
<1>2. worker \in Workers /\ ~(worker > threads)
  BY <1>1, LineAssumption DEF Solo, Types, Workers
<1>3. \A t \in Speakers : spc'[t] = "start" => spc[t] = "start"
  BY <1>1
<1>4. CASE raced
  BY <1>1, <1>2, <1>3, <1>4 DEF Solo
<1>5. CASE ~raced
  <2>1. \A t \in Speakers : spc'[t] \notin Starting
    BY <1>1, <1>5 DEF Solo, Starting
  <2>2. \A w \in Workers : IsAlive(w)' => w = worker'
    BY <1>1, <1>5 DEF Solo, IsAlive
  <2> QED
    BY <1>1, <1>2, <1>3, <2>1, <2>2 DEF Solo, Starting
<1> QED
  BY <1>4, <1>5

LEMMA SoloStep == Types /\ Solo /\ [Next]_vars => Solo'
<1> SUFFICES ASSUME Types, Solo, [Next]_vars PROVE Solo'
  OBVIOUS
<1>1. ASSUME NEW s \in Speakers, Speak(s) \/ Room(s) \/ Drop(s) \/ Put(s)
      PROVE  Solo'
  <2>1. UNCHANGED threadVars /\ \A t \in Speakers : spc'[t] \in Starting => spc'[t] = spc[t]
    BY <1>1 DEF Speak, Room, Drop, Put, Goto, Starting, Types
  <2> QED
    BY <2>1, SoloFewer DEF threadVars, IsAlive
<1>2. ASSUME NEW w \in Workers, Worker(w)
      PROVE  Solo'
  <2>1. UNCHANGED <<spc, worker, threads, raced>>
    BY <1>2 DEF Worker, Loop, Get, Play
  <2>2. /\ wpc[w] \in {"loop", "get", "play"}
        /\ \A v \in Workers \ {w} : wpc'[v] = wpc[v]
    BY <1>2 DEF Worker, Loop, Get, Play, WorkerGoto, Types
  <2> QED
    BY <2>1, <2>2, SoloFewer DEF IsAlive
<1>3. CASE Shutdown \/ UNCHANGED vars
  <2>1. UNCHANGED <<spc, threadVars>>
    BY <1>3 DEF Shutdown, vars
  <2> QED
    BY <2>1, SoloFewer DEF threadVars, IsAlive
<1> QED
  BY <1>1, <1>2, <1>3, SoloAlive, SoloCreate, SoloStart DEF Next, Speaker

LEMMA SoloInit == Init => Solo
BY DEF Init, Solo, Starting, IsAlive, NoneAlive

\* "ONE TTS worker, so the bot never talks over itself", for any number of speakers and
\* restarts of the worker, unless two speakers were starting it at once.
THEOREM OneVoiceHolds == Spec => []OneVoice
<1>1. Solo => OneVoice
  BY DEF Solo, OneVoice
<1>2. Types /\ Solo /\ [Next]_vars => (Types /\ Solo)'
  BY TypeStep, SoloStep
<1> QED
  BY <1>1, <1>2, TypeInit, SoloInit, PTL DEF Spec

=============================================================================
