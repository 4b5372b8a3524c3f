\* What the code does not keep; see the README. TLC is given one of these properties
\* at a time.
CONSTANTS
    k1 = k1  k2 = k2  e1 = e1  e2 = e2  v1 = v1  v2 = v2  w1 = w1  w2 = w2
    i1 = i1  i2 = i2  c1 = c1
    Keys = {k1, k2}
    Evidence = {e1, e2}
    KeyOf <- OneKey
    ValueOf <- Stated
    Instructions = {e1, e2}
    Values = {v1}
    NoValue = NoValue
    Workers = {w1, w2}
    Batches <- Several
    Intakes = {i1}
    Commands = {c1}
    MaxTries = 2
    MaxMatches = 3
    MaxReviews = 1
    MaxMishaps = 1
SPECIFICATION Spec
CHECK_DEADLOCK FALSE
INVARIANT StoredIsServed
\* INVARIANT CorrectionStays
\* INVARIANT EvidenceIsListed
\* INVARIANT CountedOnce
\* INVARIANT ForgottenLeavesNothing
\* INVARIANT ForgetHoldsStated
\* PROPERTY RejectedStays
