\* What the code does not keep; see the README. TLC is given one of these properties
\* at a time.
CONSTANTS
    t1 = t1  t2 = t2  k1 = k1  k2 = k2  m1 = m1  h1 = h1  h2 = h2
    None = None
    Twins = {t1, t2}
    Tokens = {k1, k2}
    Owner <- Tokened
    Msgs = {m1}
    Handlers = {h1, h2}
    MaxUpdates = 9
    Mishaps = {"crash"}
    Scenarios <- CutOrTwice
SPECIFICATION Spec
CHECK_DEADLOCK FALSE
INVARIANT AlreadyCaptured
\* INVARIANT SourceFollowsAccount
\* INVARIANT OneTwin
\* With Mishaps = {"timeout"}: INVARIANT OneClaim
\* With Mishaps = {"timeout"}: INVARIANT LinkConnects
