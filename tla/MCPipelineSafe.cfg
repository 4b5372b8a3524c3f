CONSTANTS
    s1 = s1  s2 = s2  p1 = p1  p2 = p2  i1 = i1  r1 = r1  r2 = r2
    j1 = j1  j2 = j2  j3 = j3
    N = 1
    Jobs = {j1, j2}
    Slots = {s1, s2}
    Passes = {p1}
    ISlots = {i1}
    Requests = {r1}
    Documents = {1}
    Unserved = {}
    Unexplained = {1}
    ScanLimit = 1
    MaxAttempts = 1
    MaxAuto = 1
    MaxFaults = 2
    MaxCrashes = 0
    SlowSteps = TRUE
SPECIFICATION Spec
INVARIANT TypeOK
INVARIANT SingleHolder
INVARIANT CompletedHasFragment
CHECK_DEADLOCK FALSE
