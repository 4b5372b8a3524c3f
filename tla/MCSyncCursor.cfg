CONSTANTS
    w1 = w1  w2 = w2  p1 = p1  p2 = p2  u1 = u1
    Sources = {}
    T = 2
    R = 2
    Slots = {w1, w2}
    Passes = {p1}
    Users = {u1}
    Page = 2
    Tolerant = FALSE
    MaxAttempts = 2
    MaxFaults = 0
    MaxCrashes = 1
    MaxPatches = 0
    QueueFails = FALSE
SPECIFICATION FairSpec
INVARIANT CursorIsHonest
CHECK_DEADLOCK FALSE
PROPERTY AllImported
