\* One submission, two runners, no evaluation slower than the visibility timeout.
CONSTANTS
    s1 = s1  s2 = s2  k1 = k1  k2 = k2  r1 = r1  r2 = r2
    Submissions = {s1}
    Keys = {k1}
    KeyOf <- SameKey
    Runners = {r1, r2}
    MaxMessages = 1
    MaxStops = 2
    Faults <- PunctualFaults
SPECIFICATION Spec
SYMMETRY RunnerSymmetry
INVARIANTS OneAttemptAtATime LogsMatchRow GradedByInstructorTests
CHECK_DEADLOCK FALSE
