-------------------------- MODULE MCTelegramCapture --------------------------
(* The values of the model's constants are in the .cfg files. *)
EXTENDS TelegramCapture, TLC

CONSTANTS t1, t2, k1, k2, m1, h1, h2

Tokened == k1 :> t1 @@ k2 :> t2

Plan(linked, sent, revoked, wrong) ==
    [linked |-> linked, sent |-> sent, revokes |-> revoked, mishaps |-> wrong]

\* Two link commands and a message; two link commands beside an owner; a linked user
\* who links another twin and sends a message, beside an owner or with a mishap; one
\* who only sends it, with more mishaps.
Mixed == {Plan(None, {k1, k2, m1}, 0, 0), Plan(None, {k1, k2}, 1, 1),
          Plan(t1, {k2, m1}, 1, 0), Plan(t1, {k2, m1}, 0, 1), Plan(t1, {m1}, 1, 2)}

\* One message of a linked user, who links another twin or not; a link command beside
\* an owner; two of them alone.
CutOrTwice == {Plan(t1, {m1}, 0, 1), Plan(t1, {k2, m1}, 0, 1), Plan(None, {k1}, 1, 0),
               Plan(None, {k1, k2}, 0, 0)}

=============================================================================
