CONSTANTS
    c1 = c1  c2 = c2  s1 = s1  p1 = p1  p2 = p2
    B = 2
    Cands = {c1, c2}
    Slots = {s1}
    Passes = {p1}
    MaxAttempts = 2
    MaxFaults = 1
    MaxBalance = 1
    MaxCrashes = 0
    Evicts = TRUE
SYMMETRY Symmetry
SPECIFICATION Spec
CHECK_DEADLOCK FALSE
INVARIANT TypeOK
INVARIANT ArchivedIsReadable
PROPERTY DeliverySafe
