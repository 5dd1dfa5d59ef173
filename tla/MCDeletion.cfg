\* Deletion, cleanup and a crash in any order around uploads and activation, or
\* an edit of the access rules and a suspension.
CONSTANTS
    Deps = {d1, d2}
    Hashes = {1, 2}
    ModeOf <- PrivateOnly
    Acks = {FALSE}
    Keys = {k1, k2}
    RequestIDs = {r1, r2}
    Requests = {q1}
    Times = {0}
    Retention = 1
    Budgets <- DeletionBudgets
    None = None
SPECIFICATION Spec
SYMMETRY Symmetry
PROPERTIES
    TransitionsFollowTable
    NoLostPolicyUpdate
    ImplementsReleasePointer
CHECK_DEADLOCK FALSE
