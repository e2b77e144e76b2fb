CONSTANTS
    NoThread = NoThread
    NoSignal = NoSignal
    Thread = {t1, t2}
    Mode <- MCMode
    Factor = {1}
    MaxEvents = 3
CHECK_DEADLOCK FALSE
SPECIFICATION MCSpec
PROPERTY StopReturns
