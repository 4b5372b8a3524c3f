\* What the code does not keep; see the README. TLC is given one of these properties
\* at a time.
CONSTANTS
    s1 = s1  s2 = s2  s3 = s3
    Streams = {s1, s2}
    MaxMishaps = 1
    Aborts = TRUE
    MaxTries = 1
SPECIFICATION FairStreamSpec
CHECK_DEADLOCK FALSE
INVARIANT ListenerIsReached
\* INVARIANT EntryIsSubscribed
\* PROPERTY AlwaysCloses
\* PROPERTY HearsTheEnd
