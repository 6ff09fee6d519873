SPECIFICATION FairSpec
CONSTANTS
    k1 = k1
    k2 = k2
    Off = Off
    Keys = {k1, k2}
    Files <- Saved
    EarlyEdits = TRUE
    MaxEdits = 2
    MaxTicks = 1
INVARIANTS
    TypeOK
    ListenersMatch
    ControlsIdle
PROPERTIES
    FollowsFileUntoggled
    NoThreadReplaced
    WatcherReturns
