\* What the code does not keep; see the README. TLC is given one of these properties
\* at a time.
CONSTANTS
    k1 = k1  k2 = k2  k3 = k3  k4 = k4  w1 = w1
    Keys = {k1}
    Wakes = {w1}
    None = None
    MaxFaults = 0
    MaxHangs = 0
    MaxStrays = 1
SPECIFICATION Spec
INVARIANT AllHeld
CHECK_DEADLOCK FALSE
\* INVARIANT AllTheirs
\* INVARIANT AllOnce
\* PROPERTY NoneEnds
\* With MaxFaults = 1: PROPERTY DeafWhenLeft
