---------------------------------- MODULE Grasp ----------------------------------
(***************************************************************************)
(* What one step of the Loop does to the arm: home, the bare commands of   *)
(* the human, and one tool call with its grasp verification, carried out   *)
(* by the motions of robot.py.                                             *)
(*                                                                         *)
(* A call holds the motor bus from its first motion to its last            *)
(* (SortSession), so calls do not overlap; the E-STOP alone acts in the    *)
(* middle of one.  A call is a program, a sequence of robot operations;    *)
(* an operation is a plan, a sequence of waypoints, refused as a whole or  *)
(* followed leg by leg.  The two table coordinates are treated alike by    *)
(* the code and are one number here.                                       *)
(***************************************************************************)
EXTENDS Integers, Sequences

CONSTANTS
    MaxX,         \* bound: the workspace is 0..MaxX, home above 0
    Verify,       \* grasp.verify
    Tries,        \* grasp.max_retries + 1
    MaxCorr,      \* grasp.max_correction_cm
    Offsets,      \* the corrections the verifier may ask for
    Bare,         \* the bare commands the human may say
    Manual        \* the HUD actions of the operator between two calls

ASSUME SizeAssumption == MaxX \in Nat /\ Tries \in Nat \ {0} /\ MaxCorr \in Nat
ASSUME OffsetsAssumption == Offsets \subseteq Int
ASSUME VerifyAssumption == Verify \in BOOLEAN
ASSUME OpsAssumption ==
    /\ Bare \subseteq {"open", "close", "home"}
    /\ Manual \subseteq {"open", "close", "home", "descend", "lift"}

Xs      == 0..MaxX
Heights == {"grasp", "place", "travel", "home"}   \* from low to high
Places  == [x : Xs, h : Heights]
Home    == [x |-> 0, h |-> "home"]

VARIABLES
    torque,    \* robot.torque
    at,        \* where the tool point is
    jaws,      \* where the jaws really are
    gripOpen,  \* robot.gripper_open
    roll,      \* robot.roll_deg: 0 for home's, 1 for any other
    objX,      \* where the object lies, or was taken from
    inJaws,    \* the object is between the closed jaws
    pc,        \* where the Loop is
    call,      \* the locked call in progress, and what follows it
    prog,      \* the operations it has still to do
    legs,      \* the waypoints of the operation in progress
    moving,    \* on the way to the first of them
    aim,       \* the coordinate of the operations of the call
    ret,       \* what the call returned
    goal,      \* the coordinate the planner asked for
    look,      \* verify_alignment's x and z
    try,       \* verify_alignment's i
    accepted,  \* history: a verdict of this command was accepted
    short,     \* history: a leg of this command stopped short with the torque on
    pose,      \* Loop._pose_cache
    holding    \* Loop.holding is not None

armVars  == <<at, jaws, gripOpen, roll, objX, inJaws>>
callVars == <<call, prog, legs, moving, aim, ret>>
loopVars == <<pc, goal, look, try, accepted, short, pose, holding>>
vars == <<torque, armVars, callVars, loopVars>>

Checks == {"pickCheck", "closeCheck"}
Shifts == {"pickShift", "closeShift"}
Calls  == {"none", "home", "direct", "bareOpen", "bareClose", "approach",
           "retreat", "grasp", "close", "place", "open", "move", "turn",
           "manual", "manualHome", "manualDirect", "enable"} \cup Checks \cup Shifts
Ops   == {"home", "direct", "open", "close", "descend", "lower", "lift",
          "shift", "turn"}
Pcs   == {"boundary", "drain", "choose"}

TypeOK ==
    /\ torque \in BOOLEAN /\ at \in Places /\ jaws \in {"open", "closed"}
    /\ gripOpen \in BOOLEAN /\ roll \in {0, 1} /\ objX \in Xs /\ inJaws \in BOOLEAN
    /\ pc \in Pcs /\ call \in Calls /\ prog \in Seq(Ops) /\ legs \in Seq(Places)
    /\ moving \in BOOLEAN /\ aim \in Xs /\ ret \in {"none", "ok", "failed"}
    /\ goal \in Xs /\ look \in Places /\ try \in 1..Tries
    /\ accepted \in BOOLEAN /\ short \in BOOLEAN
    /\ pose \in Places /\ holding \in BOOLEAN

Init ==
    /\ torque = TRUE /\ at = Home /\ jaws = "open" /\ gripOpen = TRUE
    /\ roll = 0 /\ objX \in Xs /\ inJaws = FALSE
    /\ pc = "boundary" /\ call = "none" /\ prog = <<>> /\ legs = <<>>
    /\ moving = FALSE /\ aim = 0 /\ ret = "none"
    /\ goal = 0 /\ look = Home /\ try = 1 /\ pose = Home
    /\ accepted = FALSE /\ short = FALSE /\ holding = FALSE

-----------------------------------------------------------------------------
(* The operations of robot.py.                                             *)

\* move_to: lift where it is, cross at travel height or above, then descend.
Over(x, h) ==
    LET top == IF "home" \in {h, at.h} THEN "home" ELSE "travel"
    IN  <<[x |-> at.x, h |-> top], [x |-> x, h |-> top], [x |-> x, h |-> h]>>

\* The heights of the operations that move to a place.
TargetHeight == [home |-> "home", descend |-> "grasp", lower |-> "place",
                 lift |-> "travel", shift |-> look.h]

PlanOf(op) ==
    IF op \in DOMAIN TargetHeight THEN Over(aim, TargetHeight[op])
    ELSE IF op = "direct" THEN <<Home>> ELSE <<at>>

Gripper == {"open", "close"}

\* The call in progress is over, with this result.
Return(r) == prog' = <<>> /\ legs' = <<>> /\ moving' = FALSE /\ ret' = r

\* Plan the whole operation before the first tick: the envelope or the
\* inverse kinematics may refuse it, and then nothing moves.
OpStart ==
    /\ ret = "none" /\ prog # <<>> /\ legs = <<>>
    /\ \/ legs' = PlanOf(Head(prog)) /\ UNCHANGED <<prog, moving, ret>>
       \/ Head(prog) \notin Gripper /\ Return("failed")
    /\ UNCHANGED <<torque, armVars, call, aim, loopVars>>

\* Mutation of LegStart: the flag is tested in the ticks only.
LegStartBlind ==
    /\ legs # <<>> /\ ~moving
    /\ moving' = TRUE
    /\ UNCHANGED <<torque, armVars, call, prog, legs, aim, ret, loopVars>>

\* _goto_joints tests the flag before it starts and before every tick.
LegStart ==
    /\ legs # <<>> /\ ~moving
    /\ IF torque THEN moving' = TRUE /\ UNCHANGED <<prog, legs, ret>>
                 ELSE Return("failed")
    /\ UNCHANGED <<torque, armVars, call, aim, loopVars>>

\* What the last leg of an operation does to the robot object.
Book(op) ==
    /\ gripOpen' = IF op \in Gripper THEN op = "open" ELSE gripOpen
    /\ roll' = IF op = "turn" THEN 1 ELSE roll

\* What a gripper motion that gets there does to the jaws and the object.
Squeeze(op) ==
    \/ /\ op = "open" /\ jaws' = "open" /\ inJaws' = FALSE
       /\ objX' = IF inJaws THEN at.x ELSE objX
    \/ /\ op = "close" /\ jaws' = "closed" /\ UNCHANGED objX
       /\ inJaws' = (inJaws \/ (jaws = "open" /\ at = [x |-> objX, h |-> "grasp"]))
    \/ op \notin Gripper /\ UNCHANGED <<jaws, inJaws, objX>>

\* The leg returns normally: it has arrived, or _settle gives up short of the target,
\* after its timeout, on a stall or when the torque is cut under it, and says so in the
\* log only.  Whether the jaws got there it does not look at.
LegEnd ==
    /\ moving
    /\ \/ at' = Head(legs) /\ Squeeze(Head(prog)) /\ UNCHANGED short
       \/ UNCHANGED <<at, jaws, inJaws, objX>> /\ short' = (short \/ torque)
    /\ IF Len(legs) = 1
       THEN /\ Book(Head(prog))
            /\ IF Len(prog) = 1 THEN Return("ok")
               ELSE prog' = Tail(prog) /\ legs' = <<>> /\ moving' = FALSE /\ UNCHANGED ret
       ELSE /\ legs' = Tail(legs) /\ moving' = FALSE
            /\ UNCHANGED <<prog, ret, gripOpen, roll>>
    /\ UNCHANGED <<torque, call, aim, pc, goal, look, try, accepted, pose, holding>>

\* A tick finds the torque cut: SafetyError, short of the waypoint or on it.
LegAbort ==
    /\ moving /\ ~torque
    /\ \/ UNCHANGED <<at, jaws, inJaws, objX>>
       \/ at' = Head(legs) /\ Squeeze(Head(prog))
    /\ Return("failed")
    /\ UNCHANGED <<torque, gripOpen, roll, call, aim, loopVars>>

EStop ==
    /\ torque /\ torque' = FALSE
    /\ UNCHANGED <<armVars, callVars, loopVars>>

-----------------------------------------------------------------------------
(* Calls.                                                                  *)

\* A locked call begins: these operations, towards this coordinate.
Enter(c, ops, x) == call' = c /\ prog' = ops /\ aim' = x /\ ret' = "none"
\* It returns, and its locals are gone.
Leave ==
    /\ call' = "none" /\ ret' = "none" /\ UNCHANGED prog
    /\ aim' = 0 /\ goal' = 0 /\ look' = Home /\ try' = 1 /\ short' = FALSE

Idle == call = "none"
Ended(c) == call = c /\ ret # "none"
Refresh == pose' = at    \* _refresh_pose_locked, _read_pose

\* home() sets the wrist angle first; a home that is refused while the torque
\* is on goes straight to the joints.
HomeFrom(c) == Enter(c, <<"home">>, 0) /\ roll' = 0
Retrying(c) == Ended(c) /\ ret = "failed" /\ torque

StepBegin ==
    /\ Idle /\ pc = "boundary"
    /\ HomeFrom("home")
    /\ accepted' = FALSE
    /\ UNCHANGED <<torque, at, jaws, gripOpen, objX, inJaws, legs, moving, pc,
                   goal, look, try, short, pose, holding>>

HomeDirect ==
    /\ \/ Retrying("home") /\ Enter("direct", <<"direct">>, 0)
       \/ Retrying("manualHome") /\ Enter("manualDirect", <<"direct">>, 0)
    /\ UNCHANGED <<torque, armVars, legs, moving, loopVars>>

Homed ==
    /\ \/ Ended("home") /\ ~Retrying("home")
       \/ Ended("direct")
    /\ Leave /\ Refresh /\ pc' = "drain"
    /\ UNCHANGED <<torque, armVars, legs, moving, accepted, holding>>

\* drain_inputs runs a bare command on the spot.
BareBegin ==
    /\ Idle /\ pc = "drain"
    /\ \/ "open" \in Bare /\ Enter("bareOpen", <<"open">>, 0) /\ UNCHANGED roll
       \/ "close" \in Bare /\ Enter("bareClose", <<"close">>, 0) /\ UNCHANGED roll
       \/ "home" \in Bare /\ HomeFrom("home")
    /\ UNCHANGED <<torque, at, jaws, gripOpen, objX, inJaws, legs, moving, loopVars>>

\* After an open the Loop holds nothing, whatever the robot answered.
BareEnd ==
    /\ Ended("bareOpen") \/ Ended("bareClose")
    /\ holding' = (holding /\ call # "bareOpen")
    /\ Leave /\ Refresh
    /\ UNCHANGED <<torque, armVars, legs, moving, pc, accepted>>

\* The capture, the pose read, and the planner or the human choose a tool.
Drained ==
    /\ Idle /\ pc = "drain"
    /\ pc' = "choose" /\ Refresh
    /\ UNCHANGED <<torque, armVars, callVars, goal, look, try, accepted, short,
                   holding>>

\* No homography, no answer, a refused tool call, or a tool that does not move.
NoMotion ==
    /\ Idle /\ pc = "choose"
    /\ pc' = "boundary"
    /\ UNCHANGED <<torque, armVars, callVars, goal, look, try, accepted, short,
                   pose, holding>>

\* robot.pick, and pick_verified's way to the object.
PickOps == <<"open", "descend", "close", "lift">>
\* Mutation of ApproachOps: the jaws are taken to be open.
ApproachOpsShut == <<"descend">>
ApproachOps == <<"open", "descend">>

\* validate: a pick needs empty hands, a place a held object.
Pick(x) ==
    /\ Idle /\ pc = "choose" /\ ~holding
    /\ goal' = x /\ look' = [x |-> x, h |-> "grasp"] /\ try' = 1
    /\ IF Verify THEN Enter("approach", ApproachOps, x) ELSE Enter("grasp", PickOps, x)
    /\ UNCHANGED <<torque, armVars, legs, moving, pc, accepted, short, pose, holding>>

Place(x) ==
    /\ Idle /\ pc = "choose" /\ holding
    /\ Enter("place", <<"lower", "open", "lift">>, x)
    /\ UNCHANGED <<torque, armVars, legs, moving, loopVars>>

LowLevel ==
    /\ Idle /\ pc = "choose"
    /\ \/ Enter("open", <<"open">>, 0)
       \/ Enter("turn", <<"turn">>, 0)
       \/ \E x \in Xs, op \in {"descend", "lift"} : Enter("move", <<op>>, x)
    /\ UNCHANGED <<torque, armVars, legs, moving, loopVars>>

\* The close tool is checked where the Loop believes the jaws are.
CloseTool ==
    /\ Idle /\ pc = "choose"
    /\ goal' = pose.x /\ look' = pose /\ try' = 1
    /\ IF Verify THEN Enter("closeCheck", <<>>, pose.x) ELSE Enter("close", <<"close">>, 0)
    /\ UNCHANGED <<torque, armVars, legs, moving, pc, accepted, short, pose, holding>>

\* The tool call is over: the holding follows the tool and its result.
ToolEnd ==
    /\ \E c \in {"grasp", "place", "open", "close", "move", "turn", "retreat"} : Ended(c)
    /\ holding' = \/ call = "grasp" /\ ret = "ok"
                  \/ holding /\ call # "open" /\ ~(call = "place" /\ ret = "ok")
    /\ Leave /\ Refresh /\ pc' = "boundary"
    /\ UNCHANGED <<torque, armVars, legs, moving, accepted>>

-----------------------------------------------------------------------------
(* verify_alignment, between the descent and the close.                    *)

Approached ==
    /\ Ended("approach")
    /\ IF ret = "ok"
       THEN Enter("pickCheck", <<>>, aim) /\ UNCHANGED <<pc, goal, look, try, short>>
       ELSE Leave /\ pc' = "boundary"
    /\ Refresh
    /\ UNCHANGED <<torque, armVars, legs, moving, accepted, holding>>

\* Not confirmed: a pick retreats with the jaws open, a close does nothing.
Refuse ==
    IF call \in {"pickCheck", "pickShift"}
    THEN Enter("retreat", <<"lift">>, look.x) /\ UNCHANGED <<pc, goal, look, try, short>>
    ELSE Leave /\ pc' = "boundary"

\* Mutation of GraspX: the coordinate the planner asked for.
GraspXAsked == goal
GraspX == look.x

\* The verifier sees the jaws on the object, confidently enough.
Aligned ==
    /\ call \in Checks
    /\ IF call = "pickCheck" THEN Enter("grasp", PickOps, GraspX)
                             ELSE Enter("close", <<"close">>, look.x)
    /\ accepted' = TRUE
    /\ UNCHANGED <<torque, armVars, legs, moving, pc, goal, look, try,
                   short, pose, holding>>

Clamp(v, lo, hi) == IF v < lo THEN lo ELSE IF v > hi THEN hi ELSE v
\* Mutation of Corrected: only the workspace bounds it.
CorrectedFar(d) == Clamp(look.x + d, 0, MaxX)
Corrected(d) == Clamp(look.x + Clamp(d, -MaxCorr, MaxCorr), 0, MaxX)

\* Mutation of TriesLeft: one look too many.
TriesLeftOneMore == try <= Tries
TriesLeft == try < Tries

\* Mutation of NextTry: the looks are not counted.
NextTryFree == try
NextTry == try + 1

\* It does not, or the call failed: a bounded correction, then another look.
Misaligned ==
    /\ call \in Checks /\ TriesLeft
    /\ \E d \in Offsets :
          IF Corrected(d) = look.x
          THEN try' = NextTry /\ UNCHANGED <<call, prog, aim, ret>>
          ELSE /\ Enter(IF call = "pickCheck" THEN "pickShift" ELSE "closeShift",
                        <<"shift">>, Corrected(d))
               /\ UNCHANGED try
    /\ UNCHANGED <<torque, armVars, legs, moving, pc, goal, look, accepted, short, pose,
                   holding>>

GiveUp ==
    /\ call \in Checks /\ try = Tries
    /\ Refuse
    /\ UNCHANGED <<torque, armVars, legs, moving, accepted, pose, holding>>

Shifted ==
    /\ call \in Shifts /\ ret # "none"
    /\ IF ret = "ok"
       THEN /\ look' = [look EXCEPT !.x = aim] /\ try' = NextTry
            /\ Enter(IF call = "pickShift" THEN "pickCheck" ELSE "closeCheck", <<>>, aim)
            /\ UNCHANGED <<pc, goal, short>>
       ELSE Refuse
    /\ Refresh
    /\ UNCHANGED <<torque, armVars, legs, moving, accepted, holding>>

-----------------------------------------------------------------------------
(* The operator's own motions, between two calls of the Loop.              *)

ManualBegin ==
    /\ Idle
    /\ \/ \E op \in Manual \ {"home"}, x \in Xs :
             /\ op \in Gripper => x = 0
             /\ Enter("manual", <<op>>, x) /\ UNCHANGED roll
       \/ "home" \in Manual /\ HomeFrom("manualHome")
    /\ UNCHANGED <<torque, at, jaws, gripOpen, objX, inJaws, legs, moving, loopVars>>

ManualEnd ==
    /\ \/ Ended("manual") \/ Ended("manualDirect")
       \/ Ended("manualHome") /\ ~Retrying("manualHome")
    /\ Leave
    /\ UNCHANGED <<torque, armVars, legs, moving, pc, accepted, pose, holding>>

\* torque_on takes the motor bus, so it waits for the call in progress; the bus call
\* that enables the motors may raise.
EnableBegin ==
    /\ Idle /\ ~torque
    /\ Enter("enable", <<>>, 0)
    /\ UNCHANGED <<torque, armVars, legs, moving, loopVars>>

EnableEnd ==
    /\ call = "enable" /\ Leave
    /\ torque' \in {TRUE, torque}
    /\ UNCHANGED <<armVars, legs, moving, pc, accepted, pose, holding>>

CallStep ==
    \/ OpStart \/ LegStart \/ LegEnd \/ LegAbort
    \/ HomeDirect \/ Homed \/ BareEnd \/ ToolEnd
    \/ Approached \/ Aligned \/ Misaligned \/ GiveUp \/ Shifted \/ ManualEnd
    \/ EnableEnd

LoopBegin ==
    \/ StepBegin \/ BareBegin \/ Drained \/ NoMotion
    \/ (\E x \in Xs : Pick(x) \/ Place(x)) \/ LowLevel \/ CloseTool

Next == CallStep \/ LoopBegin \/ ManualBegin \/ EnableBegin \/ EStop

Spec == Init /\ [][Next]_vars

\* A call in progress goes on by itself; nobody owes the Loop a new one.
FairSpec == Spec /\ WF_vars(CallStep)

-----------------------------------------------------------------------------
(* Safety.                                                                 *)

\* The correction is bounded: however the verifier insists, the jaws are never
\* sent further from the commanded point than one clamped nudge per retry, nor
\* out of the workspace.
CorrectionBounded ==
    call \in Checks \cup Shifts \cup {"retreat"} =>
        LET d == look.x - goal
        IN  d <= (try - 1) * MaxCorr /\ -d <= (try - 1) * MaxCorr

\* "The arm retreats with the jaws still OPEN": a pick that was not confirmed has the
\* jaws open and its retreat leaves them so, whatever E-STOPs came, unless a motion of
\* the command stalled or timed out, which open_gripper reports as done.
RetreatsOpen == call = "retreat" => gripOpen /\ (jaws = "open" \/ short)

\* A pick closes, and a confirmed close happens, only after the verifier has accepted
\* this very command; and a pick's jaws are then at the accepted point at grasp height,
\* E-STOPs in the middle of a motion included, unless a motion of the command stalled
\* or timed out on the way there, which move_to reports as done.
ClosesChecked ==
    [][jaws = "open" /\ jaws' = "closed" /\ call \in {"grasp", "close"}
         => accepted /\ (call = "grasp" => at = look \/ short)]_vars

\* A pick that sets Loop.holding has the object between the jaws, if it lay at the point
\* the verifier accepted: an E-STOP that cuts any leg short, the close itself or the
\* last lift, never turns a miss into a success.  A stall or a timeout with the torque
\* on does, for the robot then answers as if it had arrived.
PickTakes == [][~holding /\ holding' => inJaws \/ objX # look.x \/ short]_vars

-----------------------------------------------------------------------------
(* Refinement.                                                             *)

\* The calls use the motor bus as MotorBus lets its holder, a leg of a motion being one
\* write: none starts with the torque off or after the bus was given back, however calls
\* nest, fail and retry, and what others do in the middle of a call is an E-STOP and
\* no more.  SortSession implements the same MotorBus.
Holder == CASE call = "none" -> "nobody"
            [] call \in {"manual", "manualHome", "manualDirect", "enable"} -> "hud"
            [] OTHER -> "loop"
Bus == INSTANCE MotorBus WITH Threads <- {"loop", "hud"}, Nobody <- "nobody", Leader <- "leader",
                              holder <- Holder, writing <- moving, armed <- torque
BusPromise == Bus!Spec

-----------------------------------------------------------------------------
(* Liveness.                                                               *)

\* Every locked call ends, whatever the verifier answers and however many
\* E-STOPs come: nobody waits for ever for the motor bus.
CallEnds == call # "none" ~> call = "none"

=============================================================================
