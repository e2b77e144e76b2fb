SPECIFICATION MCSpec
CONSTANTS
    Caller = {c1, c2}
    MaxRestartAttempts = 4
    MaxEnds = 2
    MaxKept = 1
    Versions = {1, 2}
    NoFile = NoFile
    Garbage = Garbage
    Requests <- ApiRequests
INVARIANTS
    ProxySound MachineSound
    Sound RebootsIntoAnnounced OnlyVerifiedIsStaged
PROPERTIES OneChildAtATime GivingUpReachesFailsafe CrashIsRecovered
