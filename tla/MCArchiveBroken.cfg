\* What the code does not keep; see the README. TLC is given one of these properties
\* at a time.
CONSTANTS
    c1 = c1  c2 = c2  s1 = s1  p1 = p1  p2 = p2
    B = 1
    Cands = {c1}
    Slots = {s1}
    Passes = {p1}
    MaxAttempts = 3
    MaxFaults = 0
    MaxBalance = 1
    MaxCrashes = 0
    Evicts = FALSE
SPECIFICATION FairSpec
CHECK_DEADLOCK FALSE
PROPERTY QueuedMoves
\* PROPERTY ArchivedStays
\* PROPERTY IntelligenceKept
\* With B = 2 and MaxFaults = 2: PROPERTY StatementIsOwn
