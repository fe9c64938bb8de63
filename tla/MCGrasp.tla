-------------------------------- MODULE MCGrasp --------------------------------
(* Instances of Grasp for TLC. *)
EXTENDS Grasp

\* Small and wild corrections, in both directions.
SomeOffsets == {-2, 0, 1}
=============================================================================
