\* All sets of up to three rows over three contents and two creation times.
CONSTANTS
    RowIDs = {i1, i2, i3}
    Contents = {1, 2, 3}
    Stamps = {0, 1}
    Keeps = {0, 1, 2}
    NoGroup = NoGroup
SPECIFICATION PlanSpec
INVARIANTS
    PlanIsSurplus
    RecoveryReleaseRetained
CHECK_DEADLOCK FALSE
