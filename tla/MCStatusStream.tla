--------------------------- MODULE MCStatusStream ---------------------------
(* Small instances of StatusStream for TLC. *)
EXTENDS StatusStream, TLC

CONSTANTS s1, s2, s3

=============================================================================
