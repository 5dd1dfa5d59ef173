\* Two chats over the turn of a month, one edit and one fault.
CONSTANTS
    c1 = c1
    c2 = c2
    Chats = {c1, c2}
    ViewerOf <- OneViewer
    InputOf <- SmallInputs
    WantsOf <- OneAsksForLess
    Profiles = {p1, p2}
    Connections = {k1, k2}
    k1 = k1
    k2 = k2
    p1 = p1
    p2 = p2
    LimitsSet <- TwoLimits
    Quotas = {4, Unset}
    MonthLength = 2
    LastTick = 2
    MaxRateKeys = 5
    MaxReported = 2
    Edits = 1
    Faults = 1
    Unset = Unset
SPECIFICATION ChatSpec
SYMMETRY Symmetry
INVARIANT LedgerBalances
PROPERTY QuotaHolds
CHECK_DEADLOCK FALSE
