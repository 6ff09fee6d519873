SPECIFICATION FairSpec
CONSTANT Configs <- Plays
CHECK_DEADLOCK FALSE
INVARIANTS
    TypeOK
    NothingLeft
    PairsComplete
    CaveOutlivesHook
    ControlsHooked
    NothingMissedSilently
PROPERTIES
    StartUpEnds
