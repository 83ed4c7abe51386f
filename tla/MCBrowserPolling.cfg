\* One tab, one session, one submission.
CONSTANTS
    t1 = t1  t2 = t2  None = None
    Tabs = {t1}
    Users = {u1}
    Tokens = {k1}
    Rows = {w1}
    Files = {f1}
    Opens <- OneTab
    Faults = {"net"}
SPECIFICATION Spec
INVARIANTS PollsWhilePending
CHECK_DEADLOCK FALSE
