\* What the code does not keep; see the README. TLC is given one of these properties
\* at a time.
CONSTANTS
    w1 = w1  w2 = w2  p1 = p1  p2 = p2  u1 = u1
    Sources = {}
    T = 2
    R = 1
    Slots = {w1}
    Passes = {p1}
    Users = {u1}
    Page = 2
    Tolerant = TRUE
    MaxAttempts = 2
    MaxFaults = 1
    MaxCrashes = 0
    MaxPatches = 1
    QueueFails = FALSE
SPECIFICATION Spec
CHECK_DEADLOCK FALSE
INVARIANT NothingIsSkipped
\* PROPERTY PausedIsKept
