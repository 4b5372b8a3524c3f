CONSTANTS
    th1 = th1  th2 = th2
    MaxSends = 2
    Threads = {th1, th2}
    MaxMishaps = 1
    MaxMoves = 1
SPECIFICATION FairSpec
INVARIANT ToldIsStored
INVARIANT PrivateStaysPrivate
INVARIANT LearnedFromAnswers
PROPERTY TurnSettles
PROPERTY PageSettles
CHECK_DEADLOCK FALSE
