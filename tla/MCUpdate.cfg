\* Two root commands at once, two faults.
CONSTANTS
    Versions = {1, 2, 3, 4, 5}
    Installed = 1
    Procs = {p1, p2}
    p1 = p1
    p2 = p2
    Signed = {1, 2, 3, 4}
    Compatible = {1, 2, 3, 4, 5}
    Listed = {2, 4}
    Prerelease = {4}
    Fails <- GateFailures
    Faults = 2
    None = None
SPECIFICATION Spec
SYMMETRY Symmetry
INVARIANTS JudgedIsInstalled ClearIsTruthful
CHECK_DEADLOCK FALSE
