-------------------------------- MODULE MotorBus --------------------------------
(***************************************************************************)
(* What robot_lock and the torque flag promise together to whoever moves   *)
(* the arm, with the threads, the HUD and the polls left out:              *)
(*   - the bus has one holder at a time, and one write is under way;       *)
(*   - a motion's write begins only while the flag is on;                  *)
(*   - the teleop of a calibration writes whatever the flag says, but only *)
(*     as the holder of the bus: never in the middle of a motion;          *)
(*   - the flag goes off at any moment, asking nobody, and then no write    *)
(*     of a motion begins, only the one that is under way still lands;     *)
(*   - it comes back on only through a holder that is not writing, which   *)
(*     thereby ends its hold: never in the middle of somebody's motion.    *)
(* SortSession implements this with all its threads and polls, and Grasp    *)
(* with the legs of its motions: what Grasp takes for granted of the bus,   *)
(* the threads of SortSession provide.                                     *)
(***************************************************************************)
CONSTANTS Threads, Nobody, Leader

VARIABLES
    holder,   \* who holds the bus
    writing,  \* it is writing: a motion that has tested the flag, or the teleop
    armed     \* the torque flag

vars == <<holder, writing, armed>>

Init == holder = Nobody /\ writing = FALSE /\ armed = TRUE

Take ==
    /\ holder = Nobody
    /\ holder' \in Threads \ {Leader}
    /\ UNCHANGED <<writing, armed>>

Give ==
    /\ holder \notin {Nobody, Leader} /\ ~writing
    /\ holder' = Nobody
    /\ UNCHANGED <<writing, armed>>

Write ==
    /\ holder \notin {Nobody, Leader} /\ armed /\ ~writing
    /\ writing' = TRUE
    /\ UNCHANGED <<holder, armed>>

Land ==
    /\ holder # Leader /\ writing
    /\ writing' = FALSE
    /\ UNCHANGED <<holder, armed>>

\* A tick of the teleop takes the bus, writes the leader's joints, and gives it back.
Follow ==
    /\ holder = Nobody
    /\ holder' = Leader /\ writing' = TRUE
    /\ UNCHANGED armed

Followed ==
    /\ holder = Leader
    /\ holder' = Nobody /\ writing' = FALSE
    /\ UNCHANGED armed

Disarm == armed /\ armed' = FALSE /\ UNCHANGED <<holder, writing>>

Arm ==
    /\ holder \notin {Nobody, Leader} /\ ~writing
    /\ armed' = TRUE /\ holder' = Nobody
    /\ UNCHANGED writing

Next == Take \/ Give \/ Write \/ Land \/ Follow \/ Followed \/ Disarm \/ Arm

Spec == Init /\ [][Next]_vars

=============================================================================
