CONSTANTS
    c1 = c1  c2 = c2  s1 = s1  p1 = p1  p2 = p2
    B = 1
    Cands = {c1}
    Slots = {s1}
    Passes = {p1, p2}
    MaxAttempts = 3
    MaxFaults = 2
    MaxBalance = 0
    MaxCrashes = 1
    Evicts = FALSE
SPECIFICATION FairSpec
PROPERTY DeliveryLive
CHECK_DEADLOCK FALSE
