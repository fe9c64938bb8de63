----------------------------- MODULE MCSortSession -----------------------------
(* Instances of SortSession for TLC. *)
EXTENDS SortSession, TLC

HudSymmetry == Permutations(Hud)
=============================================================================
