SPECIFICATION FairSpec
CONSTANTS
    QueueDepth = 2
    ReconnectPeriod = 2
    MaxFrames = 4
    MaxSessions = 2
INVARIANTS
    OnlyFramesOfThisSession
    FramesAreAccounted
PROPERTY
    BackendReturns
