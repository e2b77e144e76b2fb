CONSTANTS
    Client = {c1, c2}
    NoClient = NoClient
    Level = {1, 2}
    Granted = 2
    MaxEvents = 6
CHECK_DEADLOCK FALSE
SPECIFICATION MCSpec
INVARIANTS FramesAreBacked StatesAgree
PROPERTIES ServesFrames CallsReturn FramesFlow
