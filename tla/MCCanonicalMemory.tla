-------------------------- MODULE MCCanonicalMemory --------------------------
(* The values of the model's constants are in the .cfg files. *)
EXTENDS CanonicalMemory, TLC

CONSTANTS k1, k2, e1, e2, v1, v2, w1, w2, i1, i2, c1

\* The second memory states a value, the first one supports its key without.
OneKey == e1 :> k1 @@ e2 :> k1
TwoKeys == e1 :> k1 @@ e2 :> k2
Stated == e1 :> NoValue @@ e2 :> v1

\* Two artifacts; two memories of one artifact; a job that is run twice at a time.
Two == {w1 :> <<e1>> @@ w2 :> <<e2>>}
Several == {w1 :> <<e1>> @@ w2 :> <<e2>>, w1 :> <<e1, e2>> @@ w2 :> <<>>,
            w1 :> <<e1>> @@ w2 :> <<e1>>}

=============================================================================
