\* What the code does not keep; see the README. TLC is given one of these properties
\* at a time.
CONSTANTS
    w1 = w1  w2 = w2
    I = 1
    V = 2
    A = 3
    Workers = {w1}
    MaxEdits = 2
    MaxFaults = 1
    Reverts = TRUE
SPECIFICATION FairSpec
CHECK_DEADLOCK FALSE
PROPERTY CurrentIsFound
\* PROPERTY StaleIsRetired
\* PROPERTY SupersededStays
\* PROPERTY UnchangedIsSettled
