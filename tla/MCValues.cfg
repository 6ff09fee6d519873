SPECIFICATION Spec
CONSTANTS
    t1 = t1
    Threads = {t1}
    Copies = 2
    Cap = 3
    MaxInt = 5
    Deltas <- Amounts
    Configs <- Settings
    Depth = 2
INVARIANTS
    TypeOK
    FriendlyKept
    AffinityScaledOnce
    GainsNeverShrink
