\* What the code does not keep; see the README. TLC is given one of these properties
\* at a time.
CONSTANTS
    w1 = w1  w2 = w2  p1 = p1  p2 = p2  u1 = u1
    Sources = {}
    T = 1
    R = 2
    Slots = {w1}
    Passes = {p1, p2}
    Users = {}
    Page = 2
    Tolerant = FALSE
    MaxAttempts = 2
    MaxFaults = 0
    MaxCrashes = 2
    MaxPatches = 0
    QueueFails = FALSE
SPECIFICATION FairSpec
CHECK_DEADLOCK FALSE
PROPERTY AllImported
\* PROPERTY LossIsMadeUp
\* INVARIANT OneRunPerSource
