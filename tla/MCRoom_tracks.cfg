SPECIFICATION FairSpec
CONSTANTS
    MaxTargets = 1
    Capacity = 1
    MissedAge = 0
    MaxMissed = 1
    Timeout = 1
    MaxFrames = 2
PROPERTY MissedTracksAreDeleted
CHECK_DEADLOCK FALSE
