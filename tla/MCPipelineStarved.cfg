\* What the code does not keep; see the README.
CONSTANTS
    s1 = s1  s2 = s2  p1 = p1  p2 = p2  i1 = i1  r1 = r1  r2 = r2
    j1 = j1  j2 = j2  j3 = j3
    N = 2
    Jobs = {j1, j2}
    Slots = {s1}
    Passes = {p1}
    ISlots = {}
    Requests = {r1, r2}
    Documents = {}
    Unserved = {1}
    Unexplained = {}
    ScanLimit = 1
    MaxAttempts = 3
    MaxAuto = 5
    MaxFaults = 1
    MaxCrashes = 0
    SlowSteps = FALSE
SPECIFICATION FairSpec
PROPERTY Settles
CHECK_DEADLOCK FALSE
