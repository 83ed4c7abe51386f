\* Two submissions, batches of two, a failure anywhere.
CONSTANTS
    s1 = s1  s2 = s2  c1 = c1  c2 = c2
    None = None
    Submissions = {s1, s2}
    Slots = {c1, c2}
    Faults = {"step", "tests", "clean", "stop"}
SPECIFICATION Spec
SYMMETRY DiskSymmetry
INVARIANTS TypeOK EvaluatesItsOwn NothingLeftBehind NoSpuriousAbort
