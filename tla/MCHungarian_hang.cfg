SPECIFICATION SolverSpec
CONSTANTS
    Azimuth <- Two
    MaxDetections = 3
    MaxAssociationAngle = 15
    NoMatchCost = 1000
PROPERTY SolverReturns
CHECK_DEADLOCK FALSE
