\* Two submissions of one upload in batches of two runners; messages are deleted in time.
CONSTANTS
    s1 = s1  s2 = s2  k1 = k1  k2 = k2  r1 = r1  r2 = r2
    Submissions = {s1, s2}
    Keys = {k1}
    KeyOf <- SameKey
    Runners = {r1, r2}
    MaxMessages = 2
    MaxStops = 1
    Faults <- RunnerFaults
SPECIFICATION Spec
SYMMETRY AllSymmetry
INVARIANTS CrashLosesNothing LogsMatchRow CompletedIsNotRerun
PROPERTIES GradesStand
CHECK_DEADLOCK FALSE
