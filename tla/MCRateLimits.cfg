\* Two requests at once, full tables, a window that passes.
CONSTANTS
    Procs = {p1, p2}
    Clients = {c1, c2}
    Emails = {e1, e2}
    Apps = {a1}
    Txs = {t1}
    i1 = i1
    IPOf <- OneIP
    Window <- EqualWindows
    Limit <- SmallLimits
    MaxKeys = 5
    MaxRateScopes = 2
    MaxTime = 2
    Grants = 3
    None = None
SPECIFICATION Spec
SYMMETRY Symmetry
INVARIANTS BudgetsHold TablesBounded
CHECK_DEADLOCK FALSE
