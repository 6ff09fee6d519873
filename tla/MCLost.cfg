SPECIFICATION FairSpec
CONSTANTS
    k1 = k1
    k2 = k2
    Off = Off
    Keys = {k1, k2}
    Files <- Lost
    EarlyEdits = FALSE
    MaxEdits = 1
    MaxTicks = 1
PROPERTIES
    FollowsFile
