----------------------------- MODULE MCVoiceChat -----------------------------
(* The values of the model's constants are in the .cfg files. *)
EXTENDS VoiceChat

CONSTANTS k1, k2, k3, k4, w1

=============================================================================
