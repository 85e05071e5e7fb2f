\* The setting and the wallet change, the process dies, an initialization fails.
CONSTANTS
    a1 = a1
    a2 = a2
    Notifications = {a1, a2}
    MaxToggles = 2
    MaxChanges = 1
    MaxCrashes = 1
    MaxFailures = 1
SPECIFICATION FairSpec
INVARIANT AssertionsHold
INVARIANT ServiceConsistent
PROPERTY DisabledStops
PROPERTY EnabledRuns
PROPERTY KeptClickIsOpened
CHECK_DEADLOCK FALSE
