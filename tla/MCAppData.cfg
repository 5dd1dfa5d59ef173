\* Two callers, an owner with two calls under one key, one browser.
CONSTANTS
    Callers = {c1, c2}
    priv = priv
    plain = plain
    pub = pub
    Releases = {priv, plain, pub}
    PublicReleases = {pub}
    StorageReleases = {priv}
    Budgets <- Scenarios
    Keys = {k1}
    Ids = {d1, d2}
    Collections = {co}
    CollectionOf <- OneCollection
    Values = {1, 2}
    KeysPerApp = 1
    DocumentsPerCollection = 2
    CollectionsPerApp = 1
    TotalBytesPerApp = 3
    Absent = Absent
    None = None
    Attempts = {a1, a2}
    Requests = {r1}
    Watched = co
    SnapshotLimit = 1
SPECIFICATION Spec
SYMMETRY Symmetry
INVARIANTS OncePerKey RemovedStaysRemoved HintsAreSeen NoStaleGrant
PROPERTY NoLostUpdate
CHECK_DEADLOCK FALSE
