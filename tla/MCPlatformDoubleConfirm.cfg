\* Two confirm requests for the same upload.
CONSTANTS
    s1 = s1  s2 = s2  k1 = k1  k2 = k2  r1 = r1  r2 = r2
    Submissions = {s1, s2}
    Keys = {k1}
    KeyOf <- SameKey
    Runners = {r1}
    MaxMessages = 1
    MaxStops = 0
    Faults = {}
SPECIFICATION Spec
INVARIANTS OneRowPerUpload
CHECK_DEADLOCK FALSE
