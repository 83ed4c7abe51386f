\* Two submissions taken one at a time by one runner, under fairness.
CONSTANTS
    s1 = s1  s2 = s2  k1 = k1  k2 = k2  r1 = r1  r2 = r2
    Submissions = {s1, s2}
    Keys = {k1, k2}
    KeyOf <- OwnKeys
    Runners = {r1}
    MaxMessages = 1
    MaxStops = 1
    Faults <- ProgressFaults
SPECIFICATION FairSpec
INVARIANTS BatchBounded
PROPERTIES EventuallyFinal MessagesDrain
CHECK_DEADLOCK FALSE
