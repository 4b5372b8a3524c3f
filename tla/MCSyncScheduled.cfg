CONSTANTS
    w1 = w1  w2 = w2  p1 = p1  p2 = p2  u1 = u1
    Sources = {1, 2}
    T = 1
    R = 2
    Slots = {w1}
    Passes = {p1, p2}
    Users = {}
    Page = 1
    Tolerant = TRUE
    MaxAttempts = 2
    MaxFaults = 1
    MaxCrashes = 1
    MaxPatches = 1
    QueueFails = TRUE
SPECIFICATION Spec
SYMMETRY PassSymmetry
INVARIANT OneScheduledRun
INVARIANT TypeOK
CHECK_DEADLOCK FALSE
