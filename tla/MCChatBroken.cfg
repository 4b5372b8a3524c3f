\* What the code does not keep; see the README. TLC is given one of these properties
\* at a time.
CONSTANTS
    th1 = th1  th2 = th2
    MaxSends = 2
    Threads = {th1, th2}
    MaxMishaps = 1
    MaxMoves = 1
SPECIFICATION FairSpec
CHECK_DEADLOCK FALSE
INVARIANT EndIsTold
\* INVARIANT StopReaches
\* INVARIANT StreamIsShown
\* INVARIANT RetryStays
\* INVARIANT AnsweredOnce
\* INVARIANT CanGoOn
\* PROPERTY TurnEnds
