------------------------------ MODULE Grasp_proofs ------------------------------
(***************************************************************************)
(* Theorems about Grasp, for any workspace, any number of looks, any       *)
(* clamp, whatever corrections the verifier asks for, and any commands of  *)
(* the human and the operator.                                             *)
(***************************************************************************)
EXTENDS Grasp, SequenceTheorems, TLAPS

-----------------------------------------------------------------------------
(* The inductive invariant.                                                *)

\* A call that has returned, or that is looking, has no motion left.
CallShape ==
    /\ (call \in {"none", "enable"} \cup Checks \/ ret # "none") =>
            prog = <<>> /\ legs = <<>> /\ ~moving
    /\ call \in {"none", "enable"} \cup Checks => ret = "none"
    /\ moving => legs # <<>>
    /\ legs # <<>> => prog # <<>>

\* The programs of the calls of a verified pick, and what is left of them.
ProgShape ==
    /\ call = "approach"  => prog \in {ApproachOps, <<"descend">>, <<>>}
    /\ call = "pickShift" => prog \in {<<"shift">>, <<>>}
    /\ call = "retreat"   => prog \in {<<"lift">>, <<>>}
    /\ call = "grasp"     => prog \in {PickOps, <<"descend", "close", "lift">>,
                                       <<"close", "lift">>, <<"lift">>, <<>>}

\* A motion cut short in silence leaves the torque off, and then no leg of the
\* next motion starts: whoever moves on, moves with the jaws really open, or after
\* a motion that stopped short with the torque on.
JawsKnown ==
    /\ call = "approach" /\ prog = <<"descend">> =>
            gripOpen /\ (jaws = "open" \/ short \/ (~torque /\ ~moving))
    /\ call = "approach" /\ ret = "ok" => gripOpen /\ (jaws = "open" \/ short)
    /\ call \in {"pickCheck", "pickShift", "retreat"} =>
            gripOpen /\ (jaws = "open" \/ short)

\* For the same reason the jaws move to close only at the accepted point.
GraspKnown ==
    /\ call \in {"approach", "pickCheck", "pickShift", "grasp"} => look.h = "grasp"
    /\ call = "grasp" => aim = look.x
    /\ call = "grasp" /\ legs # <<>> /\ Head(prog) = "descend" => legs[Len(legs)] = look
    /\ call = "grasp" /\ prog = <<"close", "lift">> =>
            Len(legs) <= 1 /\ (at = look \/ short \/ (~torque /\ ~moving))

\* A shift in progress is one clamped nudge, with a look left for it.
ShiftKnown ==
    /\ call = "approach" => try = 1 /\ look.x = goal
    /\ call \in Shifts =>
            try < Tries /\ aim - look.x <= MaxCorr /\ look.x - aim <= MaxCorr

Inv == TypeOK /\ CallShape /\ ProgShape /\ JawsKnown /\ GraspKnown /\ ShiftKnown
         /\ CorrectionBounded

\* A grasp that goes on after a motion was cut short has the torque off, and no
\* leg of what is left of it starts.
Cut == ~torque /\ ~moving

\* Unless it is cut or a motion stopped short, a grasp descends and closes with the
\* jaws open, and lifts with the object between them, if the object lay where they
\* closed.
TakenInv ==
    call = "grasp" =>
        /\ prog \in {<<"descend", "close", "lift">>, <<"close", "lift">>} =>
                jaws = "open" \/ Cut \/ short
        /\ prog = <<"lift">> => inJaws \/ objX # look.x \/ Cut \/ short
        /\ ret = "ok" => inJaws \/ objX # look.x \/ short

\* With the verification on, the calls that close the jaws come from a verdict.
AcceptedInv == call \in {"grasp", "close"} => accepted

-----------------------------------------------------------------------------
(* Lemmas about the operators.                                             *)

\* The clamp keeps a value between its bounds.
LEMMA ClampBounds ==
    ASSUME NEW v \in Int, NEW lo \in Int, NEW hi \in Int, lo <= hi
    PROVE  Clamp(v, lo, hi) \in lo..hi
BY DEF Clamp

\* A correction stays in the workspace and within one nudge.
LEMMA CorrectedBounds ==
    ASSUME NEW d \in Int, TypeOK
    PROVE  /\ Corrected(d) \in Xs
           /\ Corrected(d) - look.x <= MaxCorr
           /\ look.x - Corrected(d) <= MaxCorr
<1>1. look.x \in Int /\ 0 <= look.x /\ look.x <= MaxX
  BY SizeAssumption DEF TypeOK, Places, Xs
<1>2. MaxCorr \in Int /\ MaxCorr >= 0 /\ MaxX \in Int /\ MaxX >= 0
  BY SizeAssumption
<1> DEFINE c == Clamp(d, -MaxCorr, MaxCorr)
<1>3. c \in Int /\ -MaxCorr <= c /\ c <= MaxCorr
  BY <1>2 DEF Clamp
<1>4. Corrected(d) = Clamp(look.x + c, 0, MaxX)
  BY DEF Corrected
<1> HIDE DEF c
<1> QED
  BY <1>1, <1>2, <1>3, <1>4 DEF Clamp, Xs

\* A plan is a non-empty path in the workspace.
LEMMA PlanType ==
    ASSUME TypeOK, NEW op \in Ops
    PROVE  PlanOf(op) \in Seq(Places) /\ PlanOf(op) # <<>>
<1>1. ASSUME NEW x \in Xs, NEW h \in Heights
      PROVE  Over(x, h) \in Seq(Places) /\ Over(x, h) # <<>>
  <2>1. at.x \in Xs /\ at.h \in Heights
    BY DEF TypeOK, Places
  <2> DEFINE top == IF "home" \in {h, at.h} THEN "home" ELSE "travel"
  <2>2. top \in Heights
    BY DEF Heights
  <2>3. Over(x, h) = <<[x |-> at.x, h |-> top], [x |-> x, h |-> top], [x |-> x, h |-> h]>>
    BY DEF Over
  <2> HIDE DEF top
  <2> QED
    BY <1>1, <2>1, <2>2, <2>3 DEF Places
<1>2. aim \in Xs /\ at \in Places /\ look.h \in Heights /\ Home \in Places
  BY SizeAssumption DEF TypeOK, Xs, Places, Home, Heights
<1> DEFINE D == {"home", "descend", "lower", "lift", "shift"}
<1>3. DOMAIN TargetHeight = D
  BY DEF TargetHeight
<1>4. ASSUME NEW o \in D PROVE TargetHeight[o] \in Heights
  BY <1>2 DEF TargetHeight, Heights
<1>5. CASE op \in D
  BY <1>1, <1>2, <1>3, <1>4, <1>5 DEF PlanOf
<1>6. CASE op \notin D
  BY <1>2, <1>3, <1>6 DEF PlanOf
<1> QED
  BY <1>5, <1>6

\* The programs of all calls are made of operations.
LEMMA ProgType ==
    /\ PickOps \in Seq(Ops) /\ ApproachOps \in Seq(Ops)
    /\ <<"lower", "open", "lift">> \in Seq(Ops)
    /\ \A op \in Ops : <<op>> \in Seq(Ops)
    /\ <<>> \in Seq(Ops) /\ <<>> \in Seq(Places)
BY DEF PickOps, ApproachOps, Ops

\* What is left of a sequence that has more than one element.
LEMMA TailKnown ==
    ASSUME NEW S, NEW s \in Seq(S), s # <<>>, Len(s) # 1
    PROVE  /\ Tail(s) \in Seq(S) /\ Tail(s) # <<>>
           /\ Tail(s)[Len(Tail(s))] = s[Len(s)]
           /\ ~(Len(s) <= 1)
<1>1. Len(s) \in Nat \ {0}
  BY EmptySeq
<1>2. /\ Tail(s) \in Seq(S) /\ Len(Tail(s)) = Len(s) - 1
      /\ \A i \in 1..Len(Tail(s)) : Tail(s)[i] = s[i + 1]
  BY HeadTailProperties
<1>3. Len(Tail(s)) \in 1..Len(Tail(s)) /\ Len(Tail(s)) + 1 = Len(s)
  BY <1>1, <1>2
<1>4. Tail(s)[Len(Tail(s))] = s[Len(s)]
  BY <1>2, <1>3
<1>5. Tail(s) # <<>>
  <2>1. Len(<<>>) = 0
    BY EmptySeq
  <2>2. Len(Tail(s)) # 0
    BY <1>1, <1>2
  <2> QED
    BY <2>1, <2>2
<1> QED
  BY <1>1, <1>2, <1>4, <1>5

\* What is left of the programs of a pick after each operation.
LEMMA ProgTails ==
    /\ Tail(ApproachOps) = <<"descend">>
    /\ Tail(PickOps) = <<"descend", "close", "lift">>
    /\ Tail(<<"descend", "close", "lift">>) = <<"close", "lift">>
    /\ Tail(<<"close", "lift">>) = <<"lift">>
BY DEF ApproachOps, PickOps

\* What the motion steps leave alone: the shift in progress and its bound.
LEMMA ShiftUntouched ==
    ASSUME Inv, UNCHANGED <<call, aim, goal, look, try>>
    PROVE  ShiftKnown' /\ CorrectionBounded'
BY DEF Inv, ShiftKnown, CorrectionBounded

-----------------------------------------------------------------------------
(* The motions preserve the invariant.                                     *)

LEMMA InitInv == Init => Inv
<1> SUFFICES ASSUME Init PROVE Inv
  OBVIOUS
<1> USE DEF Init
<1>1. 0 \in Xs /\ Home \in Places /\ 1 \in 1..Tries
  BY SizeAssumption DEF Xs, Places, Home, Heights
<1>2. TypeOK
  BY <1>1, ProgType DEF TypeOK, Pcs, Calls
<1>3. CallShape /\ ProgShape /\ JawsKnown /\ GraspKnown /\ ShiftKnown /\ CorrectionBounded
  BY DEF CallShape, ProgShape, JawsKnown, GraspKnown, ShiftKnown,
     CorrectionBounded, Checks, Shifts
<1> QED
  BY <1>2, <1>3 DEF Inv

LEMMA OpStartInv == Inv /\ OpStart => Inv'
<1> SUFFICES ASSUME Inv, OpStart PROVE Inv'
  OBVIOUS
<1> USE DEF Inv, armVars, loopVars
<1>0. UNCHANGED <<torque, at, jaws, gripOpen, roll, objX, inJaws, call, aim,
                  pc, goal, look, try, accepted, short, pose, holding>>
      /\ prog # <<>> /\ ret = "none" /\ legs = <<>> /\ call \notin {"none", "enable"} \cup Checks
  BY DEF OpStart, CallShape
<1>1. ShiftKnown' /\ CorrectionBounded'
  BY <1>0, ShiftUntouched
<1>2. CASE legs' = PlanOf(Head(prog)) /\ UNCHANGED <<prog, moving, ret>>
  <2>1. Head(prog) \in Ops
    BY <1>0 DEF TypeOK
  <2>2. legs' \in Seq(Places) /\ legs' # <<>>
    BY <1>2, <2>1, PlanType
  <2>3. TypeOK' /\ CallShape' /\ ProgShape' /\ JawsKnown'
    BY <1>0, <1>2, <2>2 DEF TypeOK, CallShape, ProgShape, JawsKnown
  <2>4. call = "grasp" /\ Head(prog) = "descend" => legs'[Len(legs')] = look
    <3> SUFFICES ASSUME call = "grasp", Head(prog) = "descend"
                 PROVE  legs'[Len(legs')] = look
      OBVIOUS
    <3>1. aim = look.x /\ look.h = "grasp" /\ look \in Places
      BY DEF GraspKnown, TypeOK
    <3>2. look = [x |-> look.x, h |-> "grasp"]
      BY <3>1 DEF Places
    <3>3. legs' = Over(aim, "grasp")
      BY <1>2 DEF PlanOf, TargetHeight
    <3> QED
      BY <3>1, <3>2, <3>3 DEF Over
  <2>5. call = "grasp" /\ prog = <<"close", "lift">> => Len(legs') <= 1
    <3>1. prog = <<"close", "lift">> => legs' = <<at>>
      BY <1>2 DEF PlanOf, TargetHeight
    <3> QED
      BY <3>1
  <2> QED
    BY <1>0, <1>1, <1>2, <2>3, <2>4, <2>5 DEF GraspKnown
<1>3. CASE Return("failed")
  BY <1>0, <1>1, <1>3, ProgType
     DEF Return, TypeOK, CallShape, ProgShape, JawsKnown, GraspKnown
<1> QED
  BY <1>2, <1>3 DEF OpStart

LEMMA LegStartInv == Inv /\ LegStart => Inv'
<1> SUFFICES ASSUME Inv, LegStart PROVE Inv'
  OBVIOUS
<1> USE DEF Inv, armVars, loopVars
<1>0. UNCHANGED <<torque, at, jaws, gripOpen, roll, objX, inJaws, call, aim,
                  pc, goal, look, try, accepted, short, pose, holding>>
      /\ prog # <<>> /\ legs # <<>> /\ ret = "none" /\ call \notin {"none", "enable"} \cup Checks
  BY DEF LegStart, CallShape
<1>1. ShiftKnown' /\ CorrectionBounded'
  BY <1>0, ShiftUntouched
<1>2. CASE torque /\ moving' = TRUE /\ UNCHANGED <<prog, legs, ret>>
  BY <1>0, <1>1, <1>2 DEF TypeOK, CallShape, ProgShape, JawsKnown, GraspKnown
<1>3. CASE Return("failed")
  BY <1>0, <1>1, <1>3, ProgType
     DEF Return, TypeOK, CallShape, ProgShape, JawsKnown, GraspKnown
<1> QED
  BY <1>2, <1>3 DEF LegStart

\* What a leg that is under way may do to the world.
LEMMA LegWorld ==
    ASSUME Inv, moving,
           \/ at' = Head(legs) /\ Squeeze(Head(prog))
           \/ UNCHANGED <<at, jaws, inJaws, objX>>
    PROVE  /\ at' \in Places /\ jaws' \in {"open", "closed"}
           /\ inJaws' \in BOOLEAN /\ objX' \in Xs
           /\ Head(prog) \notin Gripper => jaws' = jaws
<1> USE DEF Inv
<1>1. legs # <<>> /\ prog # <<>>
  BY DEF CallShape
<1>2. Head(legs) \in Places /\ at.x \in Xs
  BY <1>1, HeadTailProperties DEF TypeOK, Places
<1>3. CASE at' = Head(legs) /\ Squeeze(Head(prog))
  <2>1. objX' \in Xs
    BY <1>2, <1>3 DEF Squeeze, TypeOK
  <2>2. inJaws' \in BOOLEAN
    BY <1>3, Zenon DEF Squeeze, TypeOK
  <2> QED
    BY <1>2, <1>3, <2>1, <2>2 DEF Squeeze, TypeOK, Gripper
<1>4. CASE UNCHANGED <<at, jaws, inJaws, objX>>
  BY <1>4 DEF TypeOK
<1> QED
  BY <1>3, <1>4

\* A leg that returns has arrived, or it stopped short: with the torque on, and then
\* this is known of the command from here on, or off.
LEMMA LegReturns ==
    ASSUME Inv, LegEnd
    PROVE  /\ short' \in BOOLEAN
           /\ short => short'
           /\ at' = Head(legs) \/ ~torque \/ short'
           /\ Head(prog) = "open" => jaws' = "open" \/ ~torque \/ short'
<1>1. short \in BOOLEAN /\ torque \in BOOLEAN
  BY DEF Inv, TypeOK
<1>2. CASE at' = Head(legs) /\ Squeeze(Head(prog)) /\ short' = short
  BY <1>1, <1>2 DEF Squeeze, Gripper
<1>3. CASE short' = (short \/ torque)
  BY <1>1, <1>3, Zenon
<1> QED
  BY <1>2, <1>3 DEF LegEnd

LEMMA LegEndInv == Inv /\ LegEnd => Inv'
<1> SUFFICES ASSUME Inv, LegEnd PROVE Inv'
  OBVIOUS
<1> USE DEF Inv
<1>0. /\ UNCHANGED <<torque, call, aim, pc, goal, look, try, accepted, pose, holding>>
      /\ short' \in BOOLEAN /\ (short => short')
      /\ moving /\ prog # <<>> /\ legs # <<>> /\ ret = "none"
      /\ call \notin {"none", "enable"} \cup Checks
  BY LegReturns DEF LegEnd, CallShape
<1>1. ShiftKnown' /\ CorrectionBounded'
  BY <1>0, ShiftUntouched
<1>2. /\ at' \in Places /\ jaws' \in {"open", "closed"}
      /\ inJaws' \in BOOLEAN /\ objX' \in Xs
      /\ at' = Head(legs) \/ ~torque \/ short'
      /\ Head(prog) \notin Gripper => jaws' = jaws
      /\ Head(prog) = "open" => jaws' = "open" \/ ~torque \/ short'
  BY LegWorld, LegReturns DEF LegEnd
<1>3. prog \in Seq(Ops) /\ legs \in Seq(Places)
  BY DEF TypeOK
<1>4. CASE Len(legs) # 1
  <2>1. legs' = Tail(legs) /\ moving' = FALSE /\ UNCHANGED <<prog, ret, gripOpen, roll>>
    BY <1>4 DEF LegEnd
  <2>2. legs' \in Seq(Places) /\ legs' # <<>> /\ legs'[Len(legs')] = legs[Len(legs)]
    BY <1>0, <1>3, <1>4, <2>1, TailKnown
  <2>a. ~(Len(legs) <= 1)
    BY <1>0, <1>3, <1>4, TailKnown
  <2>3. TypeOK' /\ CallShape' /\ ProgShape'
    BY <1>0, <1>2, <2>1, <2>2 DEF TypeOK, CallShape, ProgShape
  <2>4. JawsKnown'
    <3>1. call = "approach" /\ prog = <<"descend">> => jaws' = jaws
      BY <1>2 DEF Gripper
    <3>2. call \in {"pickShift", "retreat"} => jaws' = jaws
      BY <1>0, <1>2 DEF Gripper, ProgShape
    <3> QED
      BY <1>0, <2>1, <3>1, <3>2 DEF JawsKnown, Checks
  <2>5. GraspKnown'
    BY <1>0, <2>1, <2>2, <2>a DEF GraspKnown
  <2> QED
    BY <1>1, <2>3, <2>4, <2>5
<1>5. CASE Len(legs) = 1
  <2>1. legs' = <<>> /\ moving' = FALSE /\ Book(Head(prog))
    BY <1>5 DEF LegEnd, Return
  <2>2. /\ gripOpen' \in BOOLEAN /\ roll' \in {0, 1}
        /\ Head(prog) \notin Gripper => gripOpen' = gripOpen
        /\ Head(prog) = "open" => gripOpen'
    <3>1. gripOpen' \in BOOLEAN
      BY <2>1, Zenon DEF Book, TypeOK
    <3>2. roll' \in {0, 1}
      BY <2>1 DEF Book, TypeOK
    <3>3. Head(prog) \notin Gripper => gripOpen' = gripOpen
      BY <2>1, Zenon DEF Book
    <3>4. Head(prog) = "open" => gripOpen'
      BY <2>1, Zenon DEF Book, Gripper
    <3> QED
      BY <3>1, <3>2, <3>3, <3>4
  <2>3. CASE Len(prog) = 1
    <3>1. prog' = <<>> /\ ret' = "ok"
      BY <1>5, <2>3 DEF LegEnd, Return
    <3>2. TypeOK' /\ CallShape' /\ ProgShape'
      BY <1>0, <1>2, <2>1, <2>2, <3>1, ProgType DEF TypeOK, CallShape, ProgShape
    <3>3. JawsKnown'
      <4>1. call = "approach" => prog = <<"descend">>
        BY <1>0, <2>3 DEF ProgShape, ApproachOps
      <4>2. call = "approach" => gripOpen /\ (jaws = "open" \/ short)
        BY <1>0, <4>1 DEF JawsKnown
      <4>a. call = "approach" => jaws' = jaws /\ gripOpen' = gripOpen
        BY <1>2, <2>2, <4>1 DEF Gripper
      <4>3. call \in {"pickShift", "retreat"} => jaws' = jaws /\ gripOpen' = gripOpen
        BY <1>0, <1>2, <2>2 DEF Gripper, ProgShape
      <4> QED
        BY <1>0, <3>1, <4>2, <4>a, <4>3 DEF JawsKnown, Checks
    <3>4. GraspKnown'
      BY <1>0, <2>1, <3>1 DEF GraspKnown
    <3> QED
      BY <1>1, <3>2, <3>3, <3>4
  <2>4. CASE Len(prog) # 1
    <3>1. prog' = Tail(prog) /\ ret' = ret
      BY <1>5, <2>4 DEF LegEnd
    <3>2. prog' \in Seq(Ops) /\ prog' # <<>>
      BY <1>0, <1>3, <2>4, <3>1, TailKnown
    <3>3. TypeOK' /\ CallShape'
      BY <1>0, <1>2, <2>1, <2>2, <3>1, <3>2, ProgType DEF TypeOK, CallShape
    <3>4. /\ call \notin {"pickShift", "retreat"}
          /\ call = "approach" => prog = ApproachOps
          /\ call = "grasp" => prog \in {PickOps, <<"descend", "close", "lift">>, <<"close", "lift">>}
      BY <1>0, <2>4 DEF ProgShape
    <3>5. ProgShape'
      BY <1>0, <3>1, <3>4, ProgTails DEF ProgShape
    <3>6. JawsKnown'
      BY <1>0, <1>2, <2>1, <2>2, <3>1, <3>4 DEF JawsKnown, ApproachOps, Checks, Gripper
    <3>7. GraspKnown'
      <4>1. call = "grasp" /\ prog = <<"descend", "close", "lift">> =>
                at' = look \/ short' \/ (~torque' /\ ~moving')
        BY <1>0, <1>2, <1>5, <2>1 DEF GraspKnown
      <4>2. call = "grasp" /\ prog' = <<"close", "lift">> => prog = <<"descend", "close", "lift">>
        <5>1. <<"lift">> # <<"close", "lift">>
              /\ <<"descend", "close", "lift">> # <<"close", "lift">>
          OBVIOUS
        <5> QED
          BY <3>1, <3>4, <5>1, ProgTails
      <4> QED
        BY <1>0, <2>1, <4>1, <4>2 DEF GraspKnown
    <3> QED
      BY <1>1, <3>3, <3>5, <3>6, <3>7
  <2> QED
    BY <2>3, <2>4
<1> QED
  BY <1>4, <1>5

LEMMA LegAbortInv == Inv /\ LegAbort => Inv'
<1> SUFFICES ASSUME Inv, LegAbort PROVE Inv'
  OBVIOUS
<1> USE DEF Inv, loopVars
<1>0. /\ UNCHANGED <<torque, gripOpen, roll, call, aim, pc, goal, look, try,
                     accepted, short, pose, holding>>
      /\ prog # <<>> /\ call \notin {"none", "enable"} \cup Checks
      /\ prog' = <<>> /\ legs' = <<>> /\ moving' = FALSE /\ ret' = "failed"
  BY DEF LegAbort, CallShape, Return
<1>1. ShiftKnown' /\ CorrectionBounded'
  BY <1>0, ShiftUntouched
<1>2. /\ at' \in Places /\ jaws' \in {"open", "closed"}
      /\ inJaws' \in BOOLEAN /\ objX' \in Xs
      /\ Head(prog) \notin Gripper => jaws' = jaws
  BY LegWorld DEF LegAbort
<1>3. TypeOK' /\ CallShape' /\ ProgShape' /\ GraspKnown'
  BY <1>0, <1>2, ProgType DEF TypeOK, CallShape, ProgShape, GraspKnown
<1>4. call \in {"pickShift", "retreat"} => jaws' = jaws
  BY <1>0, <1>2 DEF Gripper, ProgShape
<1>5. JawsKnown'
  BY <1>0, <1>4 DEF JawsKnown, Checks
<1> QED
  BY <1>1, <1>3, <1>5

\* The flag goes off at any time.
LEMMA EStopInv == Inv /\ EStop => Inv'
<1> SUFFICES ASSUME Inv, EStop PROVE Inv'
  OBVIOUS
<1> USE DEF Inv, armVars, callVars, loopVars
<1>0. UNCHANGED <<armVars, callVars, loopVars>> /\ torque' = FALSE
  BY DEF EStop
<1>1. ShiftKnown' /\ CorrectionBounded'
  BY <1>0, ShiftUntouched
<1>2. TypeOK'
  BY <1>0 DEF TypeOK
<1>5. CallShape' /\ ProgShape'
  BY <1>0 DEF CallShape, ProgShape
<1>3. JawsKnown'
  BY <1>0 DEF JawsKnown
<1>4. GraspKnown'
  BY <1>0 DEF GraspKnown
<1> QED
  BY <1>1, <1>2, <1>3, <1>4, <1>5

-----------------------------------------------------------------------------
(* The calls preserve the invariant.                                       *)

Verified == {"approach", "pickCheck", "pickShift", "retreat", "grasp",
             "closeCheck", "closeShift"}

\* Outside the verified calls the types and the shape of a call are all of it.
LEMMA ElsewhereInv ==
    ASSUME TypeOK', CallShape', call' \notin Verified
    PROVE  Inv'
BY DEF Inv, ProgShape, JawsKnown, GraspKnown, ShiftKnown, CorrectionBounded,
       Verified, Checks, Shifts

\* Leaving a call that is over.
LEMMA LeaveInv ==
    ASSUME Inv, call \in {"none", "enable"} \cup Checks \/ ret # "none", Leave,
           UNCHANGED <<armVars, legs, moving>>, torque' \in BOOLEAN,
           pc' \in Pcs, pose' \in Places,
           accepted' \in BOOLEAN, holding' \in BOOLEAN
    PROVE  Inv'
<1> USE DEF Inv, Leave, armVars
<1>1. 0 \in Xs /\ Home \in Places /\ 1 \in 1..Tries /\ "none" \in Calls
  BY SizeAssumption DEF Xs, Places, Home, Heights, Calls
<1>2. TypeOK'
  BY <1>1 DEF TypeOK
<1>3. CallShape'
  BY DEF CallShape, Checks
<1> QED
  BY <1>2, <1>3, ElsewhereInv DEF Verified

\* Entering a call that is not a verified one.
LEMMA EnterInv ==
    ASSUME Inv, call \in {"none", "enable"} \cup Checks \/ ret # "none",
           NEW c \in Calls \ (Verified \cup {"none", "enable"}), NEW ops \in Seq(Ops),
           NEW x \in Xs, Enter(c, ops, x),
           UNCHANGED <<torque, at, jaws, gripOpen, objX, inJaws, legs, moving>>,
           roll' \in {0, 1}, pc' \in Pcs, goal' \in Xs, look' \in Places,
           try' \in 1..Tries, pose' \in Places,
           accepted' \in BOOLEAN, short' \in BOOLEAN, holding' \in BOOLEAN
    PROVE  Inv'
<1> USE DEF Inv, Enter
<1>1. TypeOK'
  BY DEF TypeOK
<1>2. CallShape'
  BY DEF CallShape, Checks, Verified
<1> QED
  BY <1>1, <1>2, ElsewhereInv

LEMMA PlainCallInv ==
    ASSUME Inv,
           \/ StepBegin \/ HomeDirect \/ BareBegin \/ ManualBegin \/ LowLevel
           \/ \E x \in Xs : Place(x)
    PROVE  Inv'
<1> USE DEF armVars, loopVars
<1>1. 0 \in Xs /\ {"home", "direct", "bareOpen", "bareClose", "manual", "manualHome",
                   "manualDirect", "place", "open", "turn", "move"}
                    \subseteq Calls \ (Verified \cup {"none", "enable"})
  BY SizeAssumption DEF Xs, Calls, Verified
<1>2. \A op \in {"home", "direct", "open", "close", "turn", "descend", "lift"} :
          <<op>> \in Seq(Ops)
  BY ProgType DEF Ops
<1>t. TypeOK
  BY DEF Inv
<1>3. CASE StepBegin
  <2>1. Enter("home", <<"home">>, 0) /\ roll' = 0 /\ call = "none" /\ accepted' = FALSE
        /\ UNCHANGED <<torque, at, jaws, gripOpen, objX, inJaws, legs, moving, pc,
                       goal, look, try, short, pose, holding>>
    BY <1>3 DEF StepBegin, HomeFrom, Idle
  <2> QED
    BY <1>1, <1>2, <1>t, <2>1, EnterInv DEF TypeOK
<1>4. CASE HomeDirect
  <2>1. \E c \in {"direct", "manualDirect"} : Enter(c, <<"direct">>, 0)
    BY <1>4 DEF HomeDirect
  <2>2. ret # "none" /\ UNCHANGED <<torque, armVars, legs, moving, loopVars>>
    BY <1>4 DEF HomeDirect, Retrying, Ended
  <2> QED
    BY <1>1, <1>2, <1>t, <2>1, <2>2, EnterInv DEF TypeOK
<1>5. CASE BareBegin
  <2>1. \E c \in {"bareOpen", "bareClose", "home"}, op \in {"open", "close", "home"} :
            Enter(c, <<op>>, 0)
    BY <1>5 DEF BareBegin, HomeFrom
  <2>2. call = "none" /\ (roll' = roll \/ roll' = 0)
        /\ UNCHANGED <<torque, at, jaws, gripOpen, objX, inJaws, legs, moving, loopVars>>
    BY <1>5 DEF BareBegin, HomeFrom, Idle
  <2> QED
    BY <1>1, <1>2, <1>t, <2>1, <2>2, EnterInv DEF TypeOK
<1>6. CASE ManualBegin
  <2>1. \E c \in {"manual", "manualHome"}, x \in Xs,
           op \in {"open", "close", "home", "descend", "lift"} : Enter(c, <<op>>, x)
    BY <1>1, <1>6, OpsAssumption DEF ManualBegin, HomeFrom
  <2>2. call = "none" /\ (roll' = roll \/ roll' = 0)
        /\ UNCHANGED <<torque, at, jaws, gripOpen, objX, inJaws, legs, moving, loopVars>>
    BY <1>6 DEF ManualBegin, HomeFrom, Idle
  <2> QED
    BY <1>1, <1>2, <1>t, <2>1, <2>2, EnterInv DEF TypeOK
<1>7. CASE LowLevel
  <2>1. \E c \in {"open", "turn", "move"}, x \in Xs,
           op \in {"open", "turn", "descend", "lift"} : Enter(c, <<op>>, x)
    BY <1>1, <1>7 DEF LowLevel
  <2>2. call = "none" /\ UNCHANGED <<torque, armVars, legs, moving, loopVars>>
    BY <1>7 DEF LowLevel, Idle
  <2> QED
    BY <1>1, <1>2, <1>t, <2>1, <2>2, EnterInv DEF TypeOK
<1>8. ASSUME NEW x \in Xs, Place(x) PROVE Inv'
  <2>1. Enter("place", <<"lower", "open", "lift">>, x) /\ call = "none"
        /\ UNCHANGED <<torque, armVars, legs, moving, loopVars>>
    BY <1>8 DEF Place, Idle
  <2> QED
    BY <1>1, <1>t, <2>1, EnterInv, ProgType DEF TypeOK
<1> QED
  BY <1>3, <1>4, <1>5, <1>6, <1>7, <1>8

LEMMA CallOverInv ==
    ASSUME Inv, Homed \/ BareEnd \/ ToolEnd \/ ManualEnd
    PROVE  Inv'
<1>1. at \in Places /\ pose \in Places /\ pc \in Pcs /\ accepted \in BOOLEAN
      /\ holding \in BOOLEAN /\ torque \in BOOLEAN
      /\ {"drain", "boundary"} \subseteq Pcs
  BY DEF Inv, TypeOK, Pcs
<1>2. CASE Homed
  BY <1>1, <1>2, LeaveInv DEF Homed, Ended, Refresh
<1>3. CASE BareEnd
  <2>1. holding' \in BOOLEAN
    BY <1>1, <1>3, Zenon DEF BareEnd
  <2> QED
    BY <1>1, <1>3, <2>1, LeaveInv DEF BareEnd, Ended, Refresh
<1>4. CASE ToolEnd
  <2>1. holding' \in BOOLEAN
    BY <1>1, <1>4, Zenon DEF ToolEnd
  <2> QED
    BY <1>1, <1>4, <2>1, LeaveInv DEF ToolEnd, Ended, Refresh
<1>5. CASE ManualEnd
  BY <1>1, <1>5, LeaveInv DEF ManualEnd, Ended
<1> QED
  BY <1>2, <1>3, <1>4, <1>5

\* torque_on, which has no motion in it.
LEMMA EnableInv ==
    ASSUME Inv, EnableBegin \/ EnableEnd
    PROVE  Inv'
<1>t. TypeOK
  BY DEF Inv
<1>1. CASE EnableBegin
  <2>1. 0 \in Xs /\ "enable" \in Calls \ Verified /\ <<>> \in Seq(Ops)
    BY SizeAssumption DEF Xs, Calls, Verified
  <2>2. call = "none" /\ Enter("enable", <<>>, 0)
        /\ UNCHANGED <<torque, armVars, legs, moving, loopVars>>
    BY <1>1 DEF EnableBegin, Idle
  <2>3. TypeOK' /\ CallShape'
    BY <1>t, <2>1, <2>2 DEF Inv, TypeOK, CallShape, Enter, armVars, loopVars, Checks
  <2> QED
    BY <2>1, <2>2, <2>3, ElsewhereInv DEF Enter
<1>2. CASE EnableEnd
  BY <1>t, <1>2, LeaveInv DEF EnableEnd, TypeOK
<1> QED
  BY <1>1, <1>2

LEMMA NoCallInv ==
    ASSUME Inv, Drained \/ NoMotion
    PROVE  Inv'
<1>1. call = "none" /\ UNCHANGED <<torque, armVars, callVars, goal, look, try,
                                   accepted, short, holding>>
  BY DEF Drained, NoMotion, Idle
<1>2. pose' \in Places /\ pc' \in Pcs
  BY DEF Inv, TypeOK, Drained, NoMotion, Refresh, Pcs
<1>3. TypeOK' /\ CallShape' /\ call' \notin Verified
  BY <1>1, <1>2 DEF Inv, TypeOK, CallShape, Verified, armVars, callVars
<1> QED
  BY <1>3, ElsewhereInv

\* Each further look allows one more clamped nudge.
LEMMA OneMoreNudge ==
    ASSUME NEW t \in Int, NEW m \in Nat
    PROVE  /\ (t - 1) * m \in Int
           /\ ((t + 1) - 1) * m = (t - 1) * m + m
           /\ (1 - 1) * m = 0
OBVIOUS

\* The numbers of a check.
LEMMA CheckNumbers ==
    ASSUME Inv
    PROVE  /\ look.x \in Int /\ goal \in Int /\ aim \in Int /\ try \in Int
           /\ MaxCorr \in Nat /\ MaxCorr \in Int /\ Tries \in Int /\ try <= Tries
           /\ look.x \in Xs /\ look.h \in Heights /\ 1 \in 1..Tries
BY SizeAssumption DEF Inv, TypeOK, Places, Xs

LEMMA PickInv ==
    ASSUME Inv, NEW x \in Xs, Pick(x)
    PROVE  Inv'
<1> USE DEF armVars
<1>1. /\ call = "none" /\ legs = <<>> /\ ~moving
      /\ UNCHANGED <<torque, armVars, legs, moving, pc, accepted, short, pose, holding>>
      /\ goal' = x /\ look' = [x |-> x, h |-> "grasp"] /\ try' = 1
      /\ aim' = x /\ ret' = "none"
      /\ \/ call' = "approach" /\ prog' = ApproachOps
         \/ call' = "grasp" /\ prog' = PickOps
  <2>1. Enter("approach", ApproachOps, x) \/ Enter("grasp", PickOps, x)
    BY Zenon DEF Pick
  <2> QED
    BY <2>1 DEF Inv, CallShape, Pick, Idle, Enter
<1>2. look' \in Places /\ look'.x = x /\ look'.h = "grasp"
  BY <1>1 DEF Places, Heights
<1>3. TypeOK'
  BY <1>1, <1>2, CheckNumbers, ProgType DEF Inv, TypeOK, Calls
<1>4. ApproachOps # <<>> /\ PickOps # <<>> /\ ApproachOps # <<"descend">>
      /\ PickOps # <<"close", "lift">>
  BY DEF ApproachOps, PickOps
<1>5. CallShape' /\ ProgShape' /\ JawsKnown'
  BY <1>1, <1>4 DEF CallShape, ProgShape, JawsKnown, Checks
<1>6. GraspKnown' /\ ShiftKnown' /\ CorrectionBounded'
  BY <1>1, <1>2, <1>4 DEF GraspKnown, ShiftKnown, CorrectionBounded, Checks, Shifts
<1> QED
  BY <1>3, <1>5, <1>6 DEF Inv

LEMMA CloseToolInv == Inv /\ CloseTool => Inv'
<1> SUFFICES ASSUME Inv, CloseTool PROVE Inv'
  OBVIOUS
<1> USE DEF armVars
<1>1. pose \in Places /\ pose.x \in Xs /\ 0 \in Xs /\ 1 \in 1..Tries /\ <<>> \in Seq(Ops)
      /\ <<"close">> \in Seq(Ops)
  BY SizeAssumption, ProgType DEF Inv, TypeOK, Places, Xs, Ops
<1>2. /\ call = "none" /\ legs = <<>> /\ ~moving
      /\ UNCHANGED <<torque, armVars, legs, moving, pc, accepted, short, pose, holding>>
      /\ goal' = pose.x /\ look' = pose /\ try' = 1
  BY DEF Inv, CallShape, CloseTool, Idle
<1>3. CASE Enter("closeCheck", <<>>, pose.x)
  <2>1. TypeOK'
    BY <1>1, <1>2, <1>3 DEF Inv, TypeOK, Enter, Calls, Checks
  <2>2. CallShape' /\ ProgShape' /\ JawsKnown' /\ GraspKnown' /\ ShiftKnown'
    BY <1>2, <1>3 DEF Enter, CallShape, ProgShape, JawsKnown, GraspKnown,
       ShiftKnown, Checks, Shifts
  <2>3. look'.x - goal' = 0 /\ (try' - 1) * MaxCorr = 0
    BY <1>1, <1>2, OneMoreNudge, SizeAssumption DEF Xs
  <2>4. CorrectionBounded'
    BY <1>1, <1>2, <2>3 DEF CorrectionBounded, Xs
  <2> QED
    BY <2>1, <2>2, <2>4 DEF Inv
<1>4. CASE Enter("close", <<"close">>, 0)
  BY <1>1, <1>2, <1>4, EnterInv DEF Inv, TypeOK, Calls, Verified
<1> QED
  BY <1>3, <1>4 DEF CloseTool

LEMMA ApproachedInv == Inv /\ Approached => Inv'
<1> SUFFICES ASSUME Inv, Approached PROVE Inv'
  OBVIOUS
<1> USE DEF armVars
<1>1. /\ call = "approach" /\ ret # "none" /\ legs = <<>> /\ ~moving /\ at \in Places
      /\ UNCHANGED <<torque, armVars, legs, moving, accepted, holding>>
      /\ pose' = at
  BY DEF Inv, TypeOK, CallShape, Approached, Ended, Refresh
<1>2. CASE ret = "ok"
  <2>1. /\ call' = "pickCheck" /\ prog' = <<>> /\ aim' = aim /\ ret' = "none"
        /\ UNCHANGED <<pc, goal, look, try, short>>
    BY <1>2 DEF Approached, Enter
  <2>2. try = 1 /\ look.x = goal /\ look.h = "grasp" /\ gripOpen
        /\ (jaws = "open" \/ short)
    BY <1>1, <1>2 DEF Inv, ShiftKnown, GraspKnown, JawsKnown
  <2>3. TypeOK'
    BY <1>1, <2>1, ProgType DEF Inv, TypeOK, Calls, Checks
  <2>4. CallShape' /\ ProgShape' /\ JawsKnown' /\ GraspKnown' /\ ShiftKnown'
    BY <1>1, <2>1, <2>2 DEF CallShape, ProgShape, JawsKnown, GraspKnown,
       ShiftKnown, Checks, Shifts
  <2>5. look'.x - goal' = 0 /\ (try' - 1) * MaxCorr = 0
    BY <2>1, <2>2, CheckNumbers, OneMoreNudge
  <2>6. CorrectionBounded'
    BY <2>5, <2>1, CheckNumbers DEF CorrectionBounded
  <2> QED
    BY <2>3, <2>4, <2>6 DEF Inv
<1>3. CASE ret # "ok"
  <2>1. Leave /\ pc' = "boundary"
    BY <1>3 DEF Approached
  <2> QED
    BY <1>1, <2>1, LeaveInv DEF Inv, TypeOK, Pcs
<1> QED
  BY <1>2, <1>3

\* A check that accepts goes on to the grasp it has looked at, or to the close.
LEMMA AlignedInv == Inv /\ Aligned => Inv'
<1> SUFFICES ASSUME Inv, Aligned PROVE Inv'
  OBVIOUS
<1> USE DEF armVars
<1>1. /\ call \in Checks /\ legs = <<>> /\ ~moving /\ accepted' = TRUE
      /\ UNCHANGED <<torque, armVars, legs, moving, pc, goal, look, try,
                     short, pose, holding>>
  BY DEF Inv, CallShape, Aligned
<1>2. CASE call = "pickCheck"
  <2>1. call' = "grasp" /\ prog' = PickOps /\ aim' = look.x /\ ret' = "none"
    BY <1>2 DEF Aligned, Enter, GraspX
  <2>2. look.h = "grasp"
    BY <1>2 DEF Inv, GraspKnown
  <2>3. PickOps # <<>> /\ PickOps # <<"close", "lift">>
    BY DEF PickOps
  <2>4. TypeOK'
    BY <1>1, <2>1, CheckNumbers, ProgType DEF Inv, TypeOK, Calls
  <2>5. CallShape' /\ ProgShape' /\ JawsKnown'
    BY <1>1, <2>1, <2>3 DEF CallShape, ProgShape, JawsKnown, Checks
  <2>6. GraspKnown' /\ ShiftKnown' /\ CorrectionBounded'
    BY <1>1, <2>1, <2>2, <2>3
       DEF GraspKnown, ShiftKnown, CorrectionBounded, Checks, Shifts
  <2> QED
    BY <2>4, <2>5, <2>6 DEF Inv
<1>3. CASE call # "pickCheck"
  <2>1. Enter("close", <<"close">>, look.x)
    BY <1>3 DEF Aligned
  <2>2. <<"close">> \in Seq(Ops) /\ "close" \in Calls \ (Verified \cup {"none"})
    BY ProgType DEF Ops, Calls, Verified
  <2> QED
    BY <1>1, <2>1, <2>2, CheckNumbers, EnterInv DEF Inv, TypeOK
<1> QED
  BY <1>2, <1>3

\* A check that refuses leaves the jaws open, in the air or where they are.
LEMMA RefuseInv ==
    ASSUME Inv, call \in Checks \/ (call \in Shifts /\ ret # "none"), Refuse,
           UNCHANGED <<torque, armVars, legs, moving, accepted, holding>>,
           pose' \in Places
    PROVE  Inv'
<1> USE DEF armVars
<1>1. legs = <<>> /\ ~moving
  BY DEF Inv, CallShape
<1>2. CASE call \in {"pickCheck", "pickShift"}
  <2>1. /\ call' = "retreat" /\ prog' = <<"lift">> /\ aim' = look.x /\ ret' = "none"
        /\ UNCHANGED <<pc, goal, look, try, short>>
    BY <1>2 DEF Refuse, Enter
  <2>2. TypeOK'
    BY <2>1, CheckNumbers, ProgType DEF Inv, TypeOK, Calls, Ops
  <2>3. CallShape' /\ ProgShape' /\ JawsKnown' /\ GraspKnown' /\ ShiftKnown'
    BY <1>1, <1>2, <2>1 DEF Inv, CallShape, ProgShape, JawsKnown, GraspKnown,
       ShiftKnown, Checks, Shifts
  <2>4. CorrectionBounded'
    BY <1>2, <2>1 DEF Inv, CorrectionBounded, Checks, Shifts
  <2> QED
    BY <2>2, <2>3, <2>4 DEF Inv
<1>3. CASE call \notin {"pickCheck", "pickShift"}
  <2>1. Leave /\ pc' = "boundary"
    BY <1>3 DEF Refuse
  <2> QED
    BY <2>1, LeaveInv DEF Inv, TypeOK, Pcs
<1> QED
  BY <1>2, <1>3

LEMMA MisalignedInv == Inv /\ Misaligned => Inv'
<1> SUFFICES ASSUME Inv, Misaligned PROVE Inv'
  OBVIOUS
<1> USE DEF armVars
<1>1. /\ call \in Checks /\ try < Tries /\ legs = <<>> /\ ~moving /\ prog = <<>>
      /\ ret = "none"
      /\ UNCHANGED <<torque, armVars, legs, moving, pc, goal, look, accepted,
                     short, pose, holding>>
  BY DEF Inv, CallShape, Misaligned, TriesLeft
<1>2. try + 1 \in 1..Tries /\ try + 1 \in Int
  BY <1>1, CheckNumbers, SizeAssumption DEF Inv, TypeOK
<1>3. CASE try' = try + 1 /\ UNCHANGED <<call, prog, aim, ret>>
  <2>1. TypeOK'
    BY <1>1, <1>2, <1>3 DEF Inv, TypeOK
  <2>2. CallShape' /\ ProgShape' /\ JawsKnown' /\ GraspKnown' /\ ShiftKnown'
    BY <1>1, <1>3 DEF Inv, CallShape, ProgShape, JawsKnown, GraspKnown,
       ShiftKnown, Checks, Shifts
  <2>3. (try' - 1) * MaxCorr = (try - 1) * MaxCorr + MaxCorr /\ (try - 1) * MaxCorr \in Int
    BY <1>3, CheckNumbers, OneMoreNudge
  <2>4. CorrectionBounded'
    <3> DEFINE b == (try - 1) * MaxCorr
    <3>1. look.x - goal <= b /\ -(look.x - goal) <= b
      BY <1>1 DEF Inv, CorrectionBounded
    <3>2. b \in Int /\ (try' - 1) * MaxCorr = b + MaxCorr
      BY <2>3
    <3> HIDE DEF b
    <3> QED
      BY <1>1, <1>3, <3>1, <3>2, CheckNumbers DEF CorrectionBounded
  <2> QED
    BY <2>1, <2>2, <2>4 DEF Inv
<1>4. ASSUME NEW d \in Offsets, UNCHANGED try,
             Enter(IF call = "pickCheck" THEN "pickShift" ELSE "closeShift",
                   <<"shift">>, Corrected(d))
      PROVE  Inv'
  <2>1. /\ call' = (IF call = "pickCheck" THEN "pickShift" ELSE "closeShift")
        /\ prog' = <<"shift">> /\ aim' = Corrected(d) /\ ret' = "none"
    BY <1>4 DEF Enter
  <2>2. /\ aim' \in Xs /\ aim' - look.x <= MaxCorr /\ look.x - aim' <= MaxCorr
    BY <2>1, CorrectedBounds, OffsetsAssumption DEF Inv
  <2>3. TypeOK'
    BY <1>1, <1>4, <2>1, <2>2, ProgType DEF Inv, TypeOK, Calls, Shifts, Ops
  <2>4. CallShape' /\ ProgShape' /\ JawsKnown' /\ GraspKnown'
    BY <1>1, <2>1 DEF Inv, CallShape, ProgShape, JawsKnown, GraspKnown, Checks
  <2>5. ShiftKnown'
    BY <1>1, <1>4, <2>1, <2>2 DEF ShiftKnown
  <2>6. CorrectionBounded'
    BY <1>1, <1>4, <2>1 DEF Inv, CorrectionBounded, Checks, Shifts
  <2> QED
    BY <2>3, <2>4, <2>5, <2>6 DEF Inv
<1> QED
  BY <1>3, <1>4 DEF Misaligned, NextTry

LEMMA ShiftedInv == Inv /\ Shifted => Inv'
<1> SUFFICES ASSUME Inv, Shifted PROVE Inv'
  OBVIOUS
<1> USE DEF armVars
<1>1. /\ call \in Shifts /\ ret # "none" /\ legs = <<>> /\ ~moving
      /\ UNCHANGED <<torque, armVars, legs, moving, accepted, holding>>
      /\ pose' \in Places
  BY DEF Inv, CallShape, Shifted, Refresh, TypeOK
<1>2. CASE ret = "ok"
  <2>1. /\ look' = [look EXCEPT !.x = aim] /\ try' = try + 1
        /\ call' = (IF call = "pickShift" THEN "pickCheck" ELSE "closeCheck")
        /\ prog' = <<>> /\ aim' = aim /\ ret' = "none"
        /\ UNCHANGED <<pc, goal, short>>
    BY <1>2 DEF Shifted, Enter, NextTry
  <2>2. try < Tries /\ aim - look.x <= MaxCorr /\ look.x - aim <= MaxCorr
    BY <1>1 DEF Inv, ShiftKnown
  <2>3. try + 1 \in 1..Tries
    BY <2>2, CheckNumbers, SizeAssumption DEF Inv, TypeOK
  <2>4. look' \in Places /\ look'.x = aim /\ look'.h = look.h
    BY <2>1 DEF Inv, TypeOK, Places
  <2>5. TypeOK'
    BY <1>1, <2>1, <2>3, <2>4, ProgType DEF Inv, TypeOK, Calls, Checks
  <2>6. CallShape' /\ ProgShape' /\ JawsKnown' /\ GraspKnown' /\ ShiftKnown'
    BY <1>1, <2>1, <2>4 DEF Inv, CallShape, ProgShape, JawsKnown, GraspKnown,
       ShiftKnown, Checks, Shifts
  <2>7. CorrectionBounded'
    <3> DEFINE b == (try - 1) * MaxCorr
    <3>1. look.x - goal <= b /\ -(look.x - goal) <= b
      BY <1>1 DEF Inv, CorrectionBounded
    <3>2. b \in Int /\ (try' - 1) * MaxCorr = b + MaxCorr
      BY <2>1, CheckNumbers, OneMoreNudge
    <3> HIDE DEF b
    <3>3. aim - goal <= b + MaxCorr /\ -(aim - goal) <= b + MaxCorr
      BY <2>2, <3>1, <3>2, CheckNumbers
    <3> QED
      BY <2>1, <2>4, <3>2, <3>3 DEF CorrectionBounded
  <2> QED
    BY <2>5, <2>6, <2>7 DEF Inv
<1>3. CASE ret # "ok"
  BY <1>1, <1>3, RefuseInv DEF Shifted
<1> QED
  BY <1>2, <1>3

LEMMA GiveUpInv == Inv /\ GiveUp => Inv'
<1> SUFFICES ASSUME Inv, GiveUp PROVE Inv'
  OBVIOUS
<1>1. pose' \in Places /\ call \in Checks /\ Refuse
      /\ UNCHANGED <<torque, armVars, legs, moving, accepted, holding>>
  BY DEF GiveUp, Inv, TypeOK
<1> QED
  BY <1>1, RefuseInv

LEMMA NextInv == Inv /\ [Next]_vars => Inv'
<1> SUFFICES ASSUME Inv, [Next]_vars PROVE Inv'
  OBVIOUS
<1>1. CASE CallStep
  BY <1>1, OpStartInv, LegStartInv, LegEndInv, LegAbortInv, PlainCallInv,
     CallOverInv, EnableInv, ApproachedInv, AlignedInv, MisalignedInv, GiveUpInv,
     ShiftedInv DEF CallStep
<1>2. CASE LoopBegin
  BY <1>2, PlainCallInv, NoCallInv, PickInv, CloseToolInv DEF LoopBegin
<1>3. CASE ManualBegin
  BY <1>3, PlainCallInv
<1>4. CASE EnableBegin \/ EStop
  BY <1>4, EnableInv, EStopInv
<1>5. CASE UNCHANGED vars
  BY <1>5 DEF vars, armVars, callVars, loopVars, Inv, TypeOK, CallShape, ProgShape,
     JawsKnown, GraspKnown, ShiftKnown, CorrectionBounded
<1> QED
  BY <1>1, <1>2, <1>3, <1>4, <1>5 DEF Next

LEMMA InvCorrect == Spec => []Inv
BY InitInv, NextInv, PTL DEF Spec

-----------------------------------------------------------------------------
(* The theorems.                                                           *)

\* Every variable keeps its type: the arm, the beliefs and the looks taken.
THEOREM TypeCorrect == Spec => []TypeOK
<1>1. Inv => TypeOK
  BY DEF Inv
<1> QED
  BY InvCorrect, <1>1, PTL

\* However the verifier insists, the jaws stay within one clamped nudge per
\* further look of the point the planner asked for.
THEOREM NudgesBounded == Spec => []CorrectionBounded
<1>1. Inv => CorrectionBounded
  BY DEF Inv
<1> QED
  BY InvCorrect, <1>1, PTL

\* A pick that was not confirmed retreats with the jaws open, wherever the E-STOPs
\* fall, unless a motion of the command stalled or timed out with the torque on.
THEOREM RetreatKeepsOpen == Spec => []RetreatsOpen
<1>1. Inv => RetreatsOpen
  BY DEF Inv, JawsKnown, RetreatsOpen
<1> QED
  BY InvCorrect, <1>1, PTL

\* With the verification on, a pick or a close tool closes the jaws only after
\* an accepted verdict, and a pick only at the accepted point, wherever the
\* E-STOPs fall, unless a motion of the command stalled or timed out on its way.
THEOREM VerifiedCloses == ASSUME Verify = TRUE PROVE Spec => ClosesChecked
<1> DEFINE Checked == jaws = "open" /\ jaws' = "closed" /\ call \in {"grasp", "close"}
                        => accepted /\ (call = "grasp" => at = look \/ short)
<1>1. Init => AcceptedInv
  BY DEF Init, AcceptedInv
<1>2. Inv /\ AcceptedInv /\ [Next]_vars => AcceptedInv'
  <2> SUFFICES ASSUME Inv, AcceptedInv, [Next]_vars PROVE AcceptedInv'
    OBVIOUS
  <2> USE DEF AcceptedInv, loopVars, callVars
  <2>1. CASE OpStart \/ LegStart \/ LegEnd \/ LegAbort \/ EStop
    BY <2>1 DEF OpStart, LegStart, LegEnd, LegAbort, EStop
  <2>2. CASE StepBegin \/ HomeDirect \/ BareBegin \/ ManualBegin \/ LowLevel
    BY <2>2 DEF StepBegin, HomeDirect, BareBegin, ManualBegin, LowLevel, HomeFrom, Enter
  <2>3. CASE Homed \/ BareEnd \/ ToolEnd \/ ManualEnd \/ Drained \/ NoMotion
             \/ EnableBegin \/ EnableEnd
    BY <2>3 DEF Homed, BareEnd, ToolEnd, ManualEnd, Leave, Drained, NoMotion,
       EnableBegin, EnableEnd, Enter
  <2>4. ASSUME NEW x \in Xs, Pick(x) \/ Place(x) PROVE AcceptedInv'
    BY <2>4 DEF Pick, Place, Enter
  <2>5. CASE CloseTool
    BY <2>5 DEF CloseTool, Enter
  <2>6. CASE Approached \/ GiveUp \/ Shifted
    BY <2>6 DEF Approached, GiveUp, Shifted, Refuse, Leave, Enter
  <2>7. CASE Misaligned
    BY <2>7 DEF Misaligned, Enter, Checks
  <2>8. CASE Aligned
    BY <2>8 DEF Aligned
  <2>9. CASE UNCHANGED vars
    BY <2>9 DEF vars
  <2> QED
    BY <2>1, <2>2, <2>3, <2>4, <2>5, <2>6, <2>7, <2>8, <2>9
       DEF Next, CallStep, LoopBegin
<1>3. Inv /\ AcceptedInv /\ [Next]_vars => Checked
  <2> SUFFICES ASSUME Inv, AcceptedInv, [Next]_vars,
                      jaws = "open", jaws' = "closed", call \in {"grasp", "close"}
               PROVE  accepted /\ (call = "grasp" => at = look \/ short)
    OBVIOUS
  <2>1. accepted
    BY DEF AcceptedInv
  <2>2. LegEnd \/ LegAbort
    <3>1. jaws' # jaws
      OBVIOUS
    <3> QED
      BY <3>1 DEF Next, CallStep, LoopBegin, vars, armVars, OpStart, LegStart,
         HomeDirect, Homed, BareEnd, ToolEnd, Approached, Aligned, Misaligned,
         GiveUp, Shifted, ManualEnd, StepBegin, BareBegin, Drained, NoMotion,
         Pick, Place, LowLevel, CloseTool, ManualBegin, EnableBegin, EnableEnd, EStop
  <2>3. moving /\ Squeeze(Head(prog))
    BY <2>2 DEF LegEnd, LegAbort
  <2>4. Head(prog) = "close"
    BY <2>3 DEF Squeeze
  <2>5. ASSUME call = "grasp" PROVE at = look \/ short
    <3>1. prog # <<>>
      BY <2>3 DEF Inv, CallShape
    <3>2. prog = <<"close", "lift">>
      BY <2>4, <2>5, <3>1 DEF Inv, ProgShape, PickOps
    <3> QED
      BY <2>2, <2>3, <2>5, <3>2 DEF Inv, GraspKnown
  <2> QED
    BY <2>1, <2>5
<1>4. Spec => []AcceptedInv
  BY InvCorrect, <1>1, <1>2, PTL DEF Spec
<1>5. Inv /\ AcceptedInv /\ [Next]_vars => [Checked]_vars
  BY <1>3
<1> QED
  BY InvCorrect, <1>4, <1>5, PTL DEF Spec, ClosesChecked

\* A leg of a grasp that ends: the jaws open, descend open, close on the object
\* and lift it, or one has stopped short, or the torque is off and the grasp goes no
\* further.
LEMMA LegEndTakes == Inv /\ TakenInv /\ LegEnd => TakenInv'
<1> SUFFICES ASSUME Inv, TakenInv, LegEnd, call = "grasp" PROVE TakenInv'
  BY DEF LegEnd, TakenInv
<1> USE DEF Inv
<1>0. /\ UNCHANGED <<torque, call, look>> /\ (short => short')
      /\ moving /\ legs # <<>> /\ ret = "none" /\ prog # <<>> /\ moving' = FALSE
  BY LegReturns DEF LegEnd, CallShape, Return
<1>1. /\ Head(prog) \notin Gripper => UNCHANGED <<jaws, inJaws, objX>>
      /\ Head(prog) = "open" => jaws' = "open" \/ ~torque \/ short'
      /\ Head(prog) = "close" =>
            \/ ~torque \/ short'
            \/ objX' = objX /\ inJaws' = (inJaws \/ (jaws = "open" /\ at = [x |-> objX, h |-> "grasp"]))
  <2>1. CASE Squeeze(Head(prog))
    BY <2>1, LegReturns DEF Squeeze, Gripper
  <2>2. CASE UNCHANGED <<jaws, inJaws, objX>> /\ short' = (short \/ torque)
    <3>1. ~torque \/ short'
      BY <2>2, Zenon
    <3> QED
      BY <2>2, <3>1
  <2> QED
    BY <2>1, <2>2 DEF LegEnd
<1>2. CASE Len(legs) # 1
  <2>1. UNCHANGED <<prog, ret>>
    BY <1>2 DEF LegEnd
  <2>2. prog # <<"close", "lift">>
    <3>1. ~(Len(legs) <= 1)
      BY <1>0, <1>2, TailKnown DEF TypeOK
    <3> QED
      BY <1>0, <3>1 DEF GraspKnown
  <2>3. prog = <<"descend", "close", "lift">> \/ prog = <<"lift">> => Head(prog) \notin Gripper
    BY DEF Gripper
  <2> QED
    BY <1>0, <1>1, <2>1, <2>2, <2>3 DEF TakenInv, Cut
<1>3. CASE Len(legs) = 1
  <2>1. IF Len(prog) = 1 THEN prog' = <<>> /\ ret' = "ok" ELSE prog' = Tail(prog) /\ ret' = ret
    BY <1>3 DEF LegEnd, Return
  <2>2. CASE prog = PickOps
    <3>1. prog' = <<"descend", "close", "lift">> /\ ret' = "none" /\ Head(prog) = "open"
      BY <1>0, <2>1, <2>2, ProgTails DEF PickOps
    <3>2. prog' # <<"lift">>
      BY <3>1
    <3> QED
      BY <1>0, <1>1, <3>1, <3>2 DEF TakenInv, Cut
  <2>3. CASE prog = <<"descend", "close", "lift">>
    <3>1. prog' = <<"close", "lift">> /\ ret' = "none" /\ Head(prog) \notin Gripper
      BY <1>0, <2>1, <2>3, ProgTails DEF Gripper
    <3>2. prog' # <<"lift">>
      BY <3>1
    <3>3. jaws' = "open" \/ short'
      BY <1>0, <1>1, <2>3, <3>1 DEF TakenInv, Cut
    <3> QED
      BY <1>0, <3>1, <3>2, <3>3 DEF TakenInv
  <2>4. CASE prog = <<"close", "lift">>
    <3>1. prog' = <<"lift">> /\ ret' = "none" /\ Head(prog) = "close"
      BY <1>0, <2>1, <2>4, ProgTails
    <3>2. prog' \notin {<<"descend", "close", "lift">>, <<"close", "lift">>}
      BY <3>1
    <3>3. \/ jaws = "open" /\ at = look /\ look = [x |-> look.x, h |-> "grasp"]
          \/ short'
      BY <1>0, <2>4 DEF TakenInv, Cut, GraspKnown, TypeOK, Places
    <3>4. inJaws' \/ objX' # look.x \/ ~torque \/ short'
      BY <1>1, <3>1, <3>3
    <3> QED
      BY <1>0, <3>1, <3>2, <3>4 DEF TakenInv, Cut
  <2>5. CASE prog = <<"lift">>
    <3>1. prog' = <<>> /\ Head(prog) \notin Gripper
      BY <2>1, <2>5 DEF Gripper
    <3>2. inJaws \/ objX # look.x \/ short'
      BY <1>0, <2>5 DEF TakenInv, Cut
    <3> QED
      BY <1>0, <1>1, <3>1, <3>2 DEF TakenInv
  <2> QED
    BY <1>0, <2>2, <2>3, <2>4, <2>5 DEF ProgShape
<1> QED
  BY <1>2, <1>3

\* A pick that sets Loop.holding has the object between the jaws, if it lay at
\* the accepted point, wherever the E-STOPs fall, unless a motion of the command
\* stalled or timed out with the torque on.
THEOREM PickTakesObject == Spec => PickTakes
<1> DEFINE Takes == ~holding /\ holding' => inJaws \/ objX # look.x \/ short
<1>1. Init => TakenInv
  BY DEF Init, TakenInv
<1>2. Inv /\ TakenInv /\ [Next]_vars => TakenInv'
  <2> SUFFICES ASSUME Inv, TakenInv, [Next]_vars PROVE TakenInv'
    OBVIOUS
  <2> USE DEF TakenInv, loopVars, callVars, armVars, Cut
  <2>1. CASE OpStart \/ LegAbort
    BY <2>1 DEF OpStart, LegAbort, Return
  <2>2. CASE LegStart
    BY <2>2 DEF LegStart, Return
  <2>3. CASE LegEnd
    BY <2>3, LegEndTakes
  <2>4. CASE EStop
    BY <2>4 DEF EStop
  <2>5. CASE StepBegin \/ HomeDirect \/ BareBegin \/ ManualBegin \/ LowLevel
    BY <2>5 DEF StepBegin, HomeDirect, BareBegin, ManualBegin, LowLevel, HomeFrom, Enter
  <2>6. CASE Homed \/ BareEnd \/ ToolEnd \/ ManualEnd \/ Drained \/ NoMotion
             \/ EnableBegin \/ EnableEnd
    BY <2>6 DEF Homed, BareEnd, ToolEnd, ManualEnd, Leave, Drained, NoMotion, Idle,
       EnableBegin, EnableEnd, Enter
  <2>7. ASSUME NEW x \in Xs, Pick(x) \/ Place(x) PROVE TakenInv'
    BY <2>7 DEF Pick, Place, Enter, PickOps
  <2>8. CASE CloseTool
    BY <2>8 DEF CloseTool, Enter
  <2>9. CASE Approached \/ GiveUp \/ Shifted
    BY <2>9 DEF Approached, GiveUp, Shifted, Refuse, Leave, Enter, Ended, Checks, Shifts
  <2>10. CASE Misaligned
    BY <2>10 DEF Misaligned, Enter, Checks
  <2>11. CASE Aligned
    BY <2>11 DEF Aligned, Enter, PickOps
  <2>12. CASE UNCHANGED vars
    BY <2>12 DEF vars
  <2> QED
    BY <2>1, <2>2, <2>3, <2>4, <2>5, <2>6, <2>7, <2>8, <2>9, <2>10, <2>11, <2>12
       DEF Next, CallStep, LoopBegin
<1>3. Inv /\ TakenInv /\ [Next]_vars => Takes
  <2> SUFFICES ASSUME TakenInv, [Next]_vars, ~holding, holding'
               PROVE  inJaws \/ objX # look.x \/ short
    OBVIOUS
  <2>1. ToolEnd
    BY DEF Next, CallStep, LoopBegin, vars, loopVars, OpStart, LegStart, LegEnd,
       LegAbort, HomeDirect, Homed, BareEnd, Approached, Aligned, Misaligned,
       GiveUp, Shifted, ManualEnd, StepBegin, BareBegin, Drained, NoMotion,
       Pick, Place, LowLevel, CloseTool, ManualBegin, EnableBegin, EnableEnd, EStop
  <2>2. call = "grasp" /\ ret = "ok"
    BY <2>1, Zenon DEF ToolEnd
  <2> QED
    BY <2>2 DEF TakenInv
<1>4. Spec => []TakenInv
  BY InvCorrect, <1>1, <1>2, PTL DEF Spec
<1>5. Inv /\ TakenInv /\ [Next]_vars => [Takes]_vars
  BY <1>3
<1> QED
  BY InvCorrect, <1>4, <1>5, PTL DEF Spec, PickTakes

-----------------------------------------------------------------------------
(* Refinement.                                                             *)

\* The legs are the writes of the bus: one starts only with the torque on and inside a
\* call, and no call ends in the middle of one.
LEMMA LegMaps ==
    ASSUME Inv, OpStart \/ LegStart \/ LegEnd \/ LegAbort
    PROVE  Bus!Next \/ UNCHANGED Bus!vars
<1>1. call' = call /\ torque' = torque /\ Holder' = Holder
  BY DEF OpStart, LegStart, LegEnd, LegAbort, Holder
<1>2. moving \in BOOLEAN
  BY DEF Inv, TypeOK
<1>3. CASE OpStart
  <2>1. ~moving /\ moving' = moving
    BY <1>2, <1>3 DEF OpStart, Return, Inv, CallShape
  <2> QED
    BY <1>1, <2>1 DEF Bus!vars
<1>4. CASE LegStart
  <2>1. CASE torque
    <3>1. call # "none"
      BY <1>4 DEF LegStart, Inv, CallShape
    <3>2. Holder \notin {"nobody", "leader"}
      BY <3>1 DEF Holder
    <3> QED
      BY <1>1, <1>4, <2>1, <3>2 DEF LegStart, Bus!Next, Bus!Write
  <2>2. CASE ~torque
    <3>1. moving' = moving
      BY <1>2, <1>4, <2>2 DEF LegStart, Return
    <3> QED
      BY <1>1, <3>1 DEF Bus!vars
  <2> QED
    BY <2>1, <2>2
<1>5. CASE LegEnd \/ LegAbort
  <2>1. moving /\ moving' = FALSE /\ Holder # "leader"
    BY <1>5 DEF LegEnd, LegAbort, Return, Holder
  <2> QED
    BY <1>1, <2>1 DEF Bus!Next, Bus!Land
<1> QED
  BY <1>3, <1>4, <1>5

\* The calls take the bus and give it back, between two legs.
LEMMA CallMaps ==
    ASSUME Inv, moving' = moving, torque' = torque,
           ~moving \/ call' = call,
           \/ call = "none" \/ call' = "none" \/ Holder' = Holder
    PROVE  Bus!Next \/ UNCHANGED Bus!vars
<1>1. Holder \in {"loop", "hud", "nobody"} /\ Holder' \in {"loop", "hud", "nobody"}
      /\ (call = "none" <=> Holder = "nobody")
      /\ (call' = "none" <=> Holder' = "nobody")
  BY DEF Holder
<1>2. CASE Holder' = Holder
  BY <1>2 DEF Bus!vars
<1>3. CASE call = "none" /\ Holder' # Holder
  BY <1>1, <1>3 DEF Bus!Next, Bus!Take
<1>4. CASE call' = "none" /\ Holder' # Holder
  BY <1>1, <1>4 DEF Bus!Next, Bus!Give, Holder
<1> QED
  BY <1>2, <1>3, <1>4

\* Whatever the verifier, the E-STOPs and the refusals do, the motions of the calls keep
\* to what MotorBus lets its holder do: no leg starts with the torque off or outside a
\* call, the bus is given back between two legs, and the torque comes back on only
\* with nobody's motion in progress.
THEOREM GraspKeepsBus == Spec => BusPromise
<1>1. Init => Bus!Init
  BY DEF Init, Bus!Init, Holder
<1>2. Inv /\ [Next]_vars => [Bus!Next]_(Bus!vars)
  <2> SUFFICES ASSUME Inv, [Next]_vars PROVE Bus!Next \/ UNCHANGED Bus!vars
    OBVIOUS
  <2> USE DEF armVars, callVars, loopVars
  <2>a. call \in {"none", "enable"} \cup Checks \/ ret # "none" => ~moving
    BY DEF Inv, CallShape
  <2>1. CASE OpStart \/ LegStart \/ LegEnd \/ LegAbort
    BY <2>1, LegMaps
  <2>2. CASE StepBegin \/ BareBegin \/ ManualBegin \/ LowLevel \/ EnableBegin
    <3>1. call = "none" /\ moving' = moving /\ torque' = torque
      BY <2>2 DEF StepBegin, BareBegin, ManualBegin, LowLevel, EnableBegin, HomeFrom, Idle
    <3> QED
      BY <2>a, <3>1, CallMaps
  <2>3. CASE HomeDirect
    BY <2>a, <2>3, CallMaps DEF HomeDirect, Retrying, Ended, Enter, Holder
  <2>4. CASE Homed \/ BareEnd \/ ToolEnd \/ ManualEnd
    <3>1. ret # "none" /\ call' = "none" /\ moving' = moving /\ torque' = torque
      BY <2>4 DEF Homed, BareEnd, ToolEnd, ManualEnd, Retrying, Ended, Leave
    <3> QED
      BY <2>a, <3>1, CallMaps
  <2>5. CASE Drained \/ NoMotion
    BY <2>5 DEF Drained, NoMotion, Bus!vars, Holder
  <2>6. ASSUME NEW x \in Xs, Pick(x) \/ Place(x)
        PROVE  Bus!Next \/ UNCHANGED Bus!vars
    <3>1. call = "none" /\ moving' = moving /\ torque' = torque
      BY <2>6 DEF Pick, Place, Idle
    <3> QED
      BY <2>a, <3>1, CallMaps
  <2>7. CASE CloseTool
    BY <2>a, <2>7, CallMaps DEF CloseTool, Idle
  <2>8. CASE Approached \/ Aligned \/ Misaligned \/ GiveUp \/ Shifted
    <3>1. /\ ~moving /\ moving' = moving /\ torque' = torque
          /\ call \in {"approach"} \cup Checks \cup Shifts
          /\ call' \in {"none", "grasp", "close", "retreat"} \cup Checks \cup Shifts
      BY <2>a, <2>8 DEF Approached, Aligned, Misaligned, GiveUp, Shifted, Refuse,
         Ended, Enter, Leave, Checks, Shifts
    <3>2. call' = "none" \/ Holder' = Holder
      BY <3>1 DEF Holder, Checks, Shifts
    <3> QED
      BY <3>1, <3>2, CallMaps
  <2>9. CASE EnableEnd
    <3>1. ~moving /\ moving' = moving /\ Holder = "hud" /\ Holder' = "nobody"
      BY <2>a, <2>9 DEF EnableEnd, Leave, Holder
    <3>2. CASE torque' = TRUE
      BY <3>1, <3>2 DEF Bus!Next, Bus!Arm
    <3>3. CASE torque' = torque
      BY <3>1, <3>3 DEF Bus!Next, Bus!Give
    <3> QED
      BY <2>9, <3>2, <3>3 DEF EnableEnd
  <2>10. CASE EStop
    <3>1. torque /\ torque' = FALSE /\ moving' = moving /\ Holder' = Holder
      BY <2>10 DEF EStop, Holder
    <3> QED
      BY <3>1 DEF Bus!Next, Bus!Disarm
  <2>11. CASE UNCHANGED vars
    BY <2>11 DEF vars, Bus!vars, Holder
  <2> QED
    BY <2>1, <2>2, <2>3, <2>4, <2>5, <2>6, <2>7, <2>8, <2>9, <2>10, <2>11
       DEF Next, CallStep, LoopBegin
<1> QED
  BY <1>1, <1>2, InvCorrect, PTL DEF Spec, BusPromise, Bus!Spec

=============================================================================
