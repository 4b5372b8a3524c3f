------------------------- MODULE MCArtifactPipeline -------------------------
(* Small instances of ArtifactPipeline for TLC. *)
EXTENDS ArtifactPipeline

CONSTANTS s1, s2, p1, p2, i1, r1, r2, j1, j2, j3
=============================================================================
