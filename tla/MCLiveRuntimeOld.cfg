SPECIFICATION Spec
CONSTANTS
    SourceSets <- Both
    ResetSequence = 0
    CounterModulus = 7
    StaleTimeout = 1
    MaxPassGap = 1
    BootTime = 1
    CutSets = {}
    MaxMs = 3
    MaxSequence = 3
    MaxBoots = 1
    Capacity = 2
PROPERTY
    OldFramesAreRejected
