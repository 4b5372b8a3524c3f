------------------------- MODULE MCCandidateArchive -------------------------
(* Small instances of CandidateArchive for TLC. *)
EXTENDS CandidateArchive, TLC

CONSTANTS c1, c2, s1, p1, p2

\* Candidates only differ in their names: sound for the safety properties.
Symmetry == Permutations(Cands)
=============================================================================
