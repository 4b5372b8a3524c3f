CONSTANTS
    w1 = w1  w2 = w2
    I = 1
    V = 2
    A = 3
    Workers = {w1}
    MaxEdits = 3
    MaxFaults = 2
    Reverts = TRUE
SPECIFICATION FairSpec
INVARIANT StoredOnce
INVARIANT AlwaysServed
INVARIANT TypeOK
CHECK_DEADLOCK FALSE
PROPERTY CurrentIsServed
