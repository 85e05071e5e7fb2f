CONSTANTS
    MaxTors = 3
    MaxDrops = 1
    MaxWatchFailures = 1
    MaxLaunches = 2
    MaxKills = 1
    MaxTorCrashes = 1
    MaxLauncherCrashes = 1
    MaxLaunchFailures = 1
SPECIFICATION FairSpec
CONSTRAINT NotHasty
INVARIANT AssertionsHold
INVARIANT StoppedIsClosed
INVARIANT ControlConsistent
INVARIANT TorAccountedFor
PROPERTY ProxyIsFound
PROPERTY EventsAsked
PROPERTY ClosedEnds
CHECK_DEADLOCK FALSE
