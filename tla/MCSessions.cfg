CONSTANTS
    None = None
    Session = {s1, s2, s3}
    Handler = {h1, h2}
CHECK_DEADLOCK FALSE
SPECIFICATION FairSpec
INVARIANTS Sound NoIdleStreaming NoDeadCurrent
PROPERTIES IdleEventuallySleeps
