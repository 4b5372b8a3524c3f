\* What the code does not keep; see the README.
CONSTANTS
    w1 = w1  w2 = w2
    I = 2
    V = 1
    A = 2
    Workers = {w1}
    MaxEdits = 0
    MaxFaults = 0
    Reverts = FALSE
SPECIFICATION FairSpec
PROPERTY CurrentIsFound
CHECK_DEADLOCK FALSE
