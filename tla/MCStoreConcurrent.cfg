\* What the code does not keep; see the README.
CONSTANTS
    w1 = w1  w2 = w2
    I = 1
    V = 2
    A = 3
    Workers = {w1, w2}
    MaxEdits = 1
    MaxFaults = 0
    Reverts = FALSE
SPECIFICATION Spec
INVARIANT AlwaysServed
CHECK_DEADLOCK FALSE
