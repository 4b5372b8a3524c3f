CONSTANTS
    t1 = t1  t2 = t2  k1 = k1  k2 = k2  m1 = m1  h1 = h1  h2 = h2
    None = None
    Twins = {t1, t2}
    Tokens = {k1, k2}
    Owner <- Tokened
    Msgs = {m1}
    Handlers = {h1, h2}
    MaxUpdates = 1
    Mishaps = {"fault", "timeout", "crash"}
    Scenarios <- Mixed
SPECIFICATION FairSpec
INVARIANT OneAccount
INVARIANT OneEffect
INVARIANT DuplicateIsSettled
PROPERTY ClaimSettles
CHECK_DEADLOCK FALSE
