----------------------------- MODULE MCCalibSession -----------------------------
(* Instances of CalibSession for TLC. *)
EXTENDS CalibSession, TLC

Triggers == {"start", "capture", "undo", "finish", "cancel"}
Edits    == Triggers \cup {"drop", "touch"}
Buttons  == Edits \cup {"force"}
HudSymmetry == Permutations(Hud)
=============================================================================
