-------------------------------- MODULE MCSpeech --------------------------------
(* Instances of Speech for TLC. *)
EXTENDS Speech

=============================================================================
