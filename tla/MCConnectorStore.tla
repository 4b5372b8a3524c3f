-------------------------- MODULE MCConnectorStore --------------------------
(* The values of the model's constants are in the .cfg files. *)
EXTENDS ConnectorStore

CONSTANTS w1, w2

=============================================================================
