\* Concurrent uploads and activations of private and public releases, with a
\* crash, a change of the public gate or a suspension.  No cleanup, no deletion.
CONSTANTS
    Deps = {d1, d2}
    Hashes = {1, 2}
    ModeOf <- MCModeOf
    Acks = {TRUE, FALSE}
    Keys = {k1, k2}
    RequestIDs = {r1, r2}
    Requests = {q1, q2}
    Times = {0}
    Retention = 1
    Budgets <- ActivationBudgets
    None = None
SPECIFICATION Spec
SYMMETRY Symmetry
INVARIANTS
    CurrentIsActive
    PublicWasAcknowledged
    ReceiptIsCommitted
    ActiveReleasePresent
CHECK_DEADLOCK FALSE
