\* Two tabs, two accounts, two sessions.
CONSTANTS
    t1 = t1  t2 = t2  None = None
    Tabs = {t1, t2}
    Users = {u1, u2}
    Tokens = {k1, k2}
    Rows = {w1, w2}
    Files = {f1}
    Opens <- TwoTabs
    Faults = {"net", "guard"}
SPECIFICATION Spec
SYMMETRY UserSymmetry
INVARIANTS TypeOK UserMatchesToken SessionsHaveUsers OwnUploads OneRowPerChoice DeletedIsGone FollowsUntilFinal
PROPERTIES LiveSessionKept
CHECK_DEADLOCK FALSE
