----------------------------- MODULE MCChatTurn -----------------------------
(* Model values for the instances that TLC checks. *)
EXTENDS ChatTurn

CONSTANTS th1, th2

=============================================================================
