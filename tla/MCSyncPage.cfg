\* What the code does not keep; see the README.
CONSTANTS
    w1 = w1  w2 = w2  p1 = p1  p2 = p2  u1 = u1
    Sources = {}
    T = 2
    R = 1
    Slots = {w1}
    Passes = {p1}
    Users = {u1}
    Page = 1
    Tolerant = FALSE
    MaxAttempts = 2
    MaxFaults = 0
    MaxCrashes = 0
    MaxPatches = 0
    QueueFails = FALSE
SPECIFICATION Spec
INVARIANT NothingIsSkipped
CHECK_DEADLOCK FALSE
