\* What the code does not keep; see the README. TLC is given one of these properties
\* at a time.
CONSTANTS
    k1 = k1  k2 = k2  k3 = k3  k4 = k4  w1 = w1
    Keys = {k1, k2, k3}
    Wakes = {}
    None = None
    MaxFaults = 0
    MaxHangs = 0
    MaxStrays = 1
SPECIFICATION Spec
PROPERTY NoneEnds
CHECK_DEADLOCK FALSE
\* With Keys = {k1, k2, k3, k4}: INVARIANT AllTheirs
\*                               INVARIANT AllOnce
\*                               INVARIANT AllHeld
