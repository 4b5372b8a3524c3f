--------------------------- MODULE MCConnectorSync ---------------------------
(* The values of the model's constants are in the .cfg files. *)
EXTENDS ConnectorSync, TLC

CONSTANTS w1, w2, p1, p2, u1

\* Passes are alike: nothing is chosen by their name.
PassSymmetry == Permutations({p1, p2})

=============================================================================
