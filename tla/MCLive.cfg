\* One connection, two fan-outs, two changes of authority, under fairness.
CONSTANTS
    c1 = c1
    c2 = c2
    s1 = s1
    s2 = s2
    v1 = v1
    None = None
    Conns = {c1}
    Writers = {w1, w2}
    Admins = {a1}
    SessionOf <- TwoSessions
    ViewerOf <- OneViewer
    Channels = {ch}
    Prefixes = {p1}
    Collections = {co}
    PerApp = 1
    PerViewer = 1
    PerConnection = 1
    QueueSize = 1
    Changes = 2
    Events = 2
SPECIFICATION FairSpec
INVARIANTS RevocationIsComplete NoSilentLoss
PROPERTIES RevokedNeverPublishes ClosedLeavesHub RevocationEnds
CHECK_DEADLOCK FALSE
