\* Every activation request is answered.
CONSTANTS
    Deps = {d1}
    Hashes = {1}
    ModeOf <- MCModeOf
    Acks = {FALSE}
    Keys = {k1}
    RequestIDs = {r1, r2}
    Requests = {q1, q2}
    Times = {0}
    Retention = 1
    Budgets <- ProgressBudgets
    None = None
SPECIFICATION FairSpec
PROPERTY ActivationTerminates
CHECK_DEADLOCK FALSE
