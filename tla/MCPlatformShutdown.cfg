\* Two submissions in one batch of a runner that is asked to stop.
CONSTANTS
    s1 = s1  s2 = s2  k1 = k1  k2 = k2  r1 = r1  r2 = r2
    Submissions = {s1, s2}
    Keys = {k1, k2}
    KeyOf <- OwnKeys
    Runners = {r1}
    MaxMessages = 2
    MaxStops = 1
    Faults = {"sigterm"}
SPECIFICATION Spec
INVARIANTS FinalBeforeDeleted
CHECK_DEADLOCK FALSE
