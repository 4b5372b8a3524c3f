CONSTANTS
    k1 = k1  k2 = k2  k3 = k3  k4 = k4  w1 = w1
    Keys = {k1, k2}
    Wakes = {w1}
    None = None
    MaxFaults = 1
    MaxHangs = 0
    MaxStrays = 0
SPECIFICATION FairSpec
INVARIANT TypeOK
INVARIANT TakenOnce
INVARIANT MicIsHeld
INVARIANT WordsAreTheirs
PROPERTY EndsItsOwn
PROPERTY TurnSettles
PROPERTY StopHolds
CHECK_DEADLOCK FALSE
