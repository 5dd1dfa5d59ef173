\* Two tabs of one browser sign in, switch account and sign out.
CONSTANTS
    Browsers = {b1}
    Tabs = {t1, t2}
    Apps = {a1}
    Emails = {e1, e2}
    Roles = {e1}
    Families = {1, 2}
    Handoffs = {1}
    Challenges = {1, 2}
    Sids = {1}
    Bindings = {1, 2}
    BindingAtStart <- ReturningBrowsers
    MaxTime = 3
    HandoffLife = 1
    ChallengeLife = 2
    IdentityLife = 4
    RotateAfter = 2
    Overlap = 1
    MaxAttempts = 1
    Events = 1
    Requests = 4
    Platform = Platform
    Keep = Keep
    None = None
SPECIFICATION Spec
SYMMETRY Symmetry
INVARIANTS
    RevokedIsClosed
    OneLoginPerBrowser
    RedeemedOnce
    SignOutIsComplete
PROPERTY
    NewerLoginWins
CHECK_DEADLOCK FALSE
