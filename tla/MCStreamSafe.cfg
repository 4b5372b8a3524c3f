CONSTANTS
    s1 = s1  s2 = s2  s3 = s3
    Streams = {s1, s2}
    MaxMishaps = 1
    Aborts = TRUE
    MaxTries = 1
SPECIFICATION FairStreamSpec
INVARIANT StreamTypeOK
INVARIANT SubscriptionFollowsMap
INVARIANT EndWasWritten
PROPERTY StreamsClose
CHECK_DEADLOCK FALSE
