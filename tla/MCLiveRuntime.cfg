SPECIFICATION Spec
CONSTANTS
    SourceSets <- OneOrBoth
    ResetSequence = 0
    CounterModulus = 7
    StaleTimeout = 1
    MaxPassGap = 1
    BootTime = 1
    CutSets <- One
    MaxMs = 2
    MaxSequence = 3
    MaxBoots = 1
    Capacity = 2
INVARIANTS
    LiveIsRecent
PROPERTIES
    CutIsKept
    CopiesAreRejected
