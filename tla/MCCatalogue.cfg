\* One tab, the dummy PIT and two others, two calls that change something, and
\* two calls at a time that no page waits for.
CONSTANTS
    d = d  c1 = c1  n1 = n1  None = None
    Pits = {d, p1, p2}
    Codes = {c1, c2}
    Notes = {n1}
    Editors = {e1}
    Strays = {s1, s2}
    Dummy = d
    DummyForm <- TheDummy
    MaxCalls = 2
    Faults = {"s3", "fk", "net"}
SYMMETRY Symmetry
SPECIFICATION Spec
INVARIANTS TypeOK KeyHasTests SeedsOnlyFillGaps SavesAreKept
CHECK_DEADLOCK FALSE
