SPECIFICATION MCSpec
CONSTANTS
    MaxTargets = 3
    Capacity = 1
    MissedAge = 0
    MaxMissed = 1
    Timeout = 1
    MaxFrames = 2
    Azimuth <- Azimuths
    MaxDetections = 3
    MaxAssociationAngle = 15
    NoMatchCost = 1000
CHECK_DEADLOCK FALSE
INVARIANTS Sound Associates
PROPERTIES SensingCatchesUp ShutdownCompletes RowsStayAssigned SmallReturns
