\* Two commands, two administrative steps.
SPECIFICATION Spec
CONSTANTS
    d1 = d1  d2 = d2  p1 = p1  p2 = p2
    None = None
    Earlier = Earlier
    Deployers = {d1, d2}
    Commands = {p1, p2}
    Kinds = {"login", "logout", "deploy", "mint", "unmint"}
    MaxTokens = 2
    MaxChallenges = 2
    MaxAttempts = 1
    Changes = 2
    MaxRuns = 2
    ProbeAttempts = 2
    AuthFaults = TRUE
SYMMETRY Symmetric
CHECK_DEADLOCK FALSE
INVARIANTS BroadeningIsConfirmed ReportsAreTruthful RemovalIsFinal SuspendedHasNoTokens
