\* What the code does not keep; see the README. TLC is given one of these properties
\* at a time.
CONSTANTS
    k1 = k1  k2 = k2  k3 = k3  k4 = k4  w1 = w1
    Keys = {k1, k2}
    Wakes = {}
    None = None
    MaxFaults = 1
    MaxHangs = 0
    MaxStrays = 0
SPECIFICATION FairSpec
CHECK_DEADLOCK FALSE
INVARIANT ListeningIsHeard
\* INVARIANT CopyIsKept
\* INVARIANT SilentWhileListening
\* INVARIANT OneThread
\* INVARIANT FailedReleases
\* PROPERTY LeavingReleases
\* PROPERTY StopStands
\* With MaxHangs = 1: PROPERTY TurnSettles
