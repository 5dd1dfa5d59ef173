\* Two uploads and their deletions, with crashes, failing steps, damaged bytes
\* and deletions of the application.
CONSTANTS
    Ids = {b1, b2}
    Cleaners = {r1, r2}
    BlobsPerApp = 1
    Budgets <- RequestBudgets
    None = None
SPECIFICATION FairSpec
INVARIANTS
    ReadyHasBytes
    LostOnlyIfSelected
    DeletionLeavesNoBlob
PROPERTIES
    RestartIsClean
    ReconcileEnds
CHECK_DEADLOCK FALSE
